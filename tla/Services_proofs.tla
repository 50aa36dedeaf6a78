-------------------------- MODULE Services_proofs ---------------------------
(***************************************************************************)
(* Theorems of three more services of the host: of ChatState, for any bots,*)
(* times to live and calls of the SDK; of AgentLinks, for any groups, seats*)
(* and mail; of Commands, for any callers, orders and faults; and of all six*)
(* services side by side.                                                  *)
(***************************************************************************)
EXTENDS MCServices, Sessions_proofs, SequenceTheorems

-----------------------------------------------------------------------------
(***************************************************************************)
(* The state of the chat SDK.                                              *)
(***************************************************************************)

Tokens == 1 .. tokens

(* The types of the locks; tokens stand for calls. *)
LocksTyped ==
  /\ lockRows \subseteq [key : Bots, token : Tokens, left : Times]
  /\ handles \subseteq [bot : Bots, token : Tokens, left : Times]
  /\ tokens \in 0 .. MaxTokens
  /\ robbed \subseteq Tokens
  /\ \A r, q \in lockRows : r.key = q.key => r = q

LocksHeld ==
  /\ \A h, q \in handles : h.token = q.token => h = q
  /\ \A r, q \in lockRows : r.token = q.token => r = q
  /\ \A r \in lockRows, h \in handles : h.bot = r.key => h.token <= r.token
  /\ \A r \in lockRows : r.token \notin robbed
  /\ \A h \in handles : h.left >= 0 /\ h.token \notin robbed =>
       \E r \in lockRows : r.key = h.bot /\ r.token = h.token /\ r.left = h.left

SeenTyped ==
  /\ seenRows \subseteq [key : Bots, left : Times]
  /\ wins \subseteq [bot : Bots, left : Ttls \cup {0}] /\ callers \subseteq Bots
  /\ \A r, q \in seenRows : r.key = q.key => r = q

Won ==
  /\ \A w \in wins : \E r \in seenRows : r.key = w.bot /\ r.left = w.left
  /\ \A r \in seenRows : r.key \in callers

QueueTyped ==
  /\ queueRows \subseteq [key : Bots, idx : 0 .. MaxIndex, value : Entries]
  /\ \A r, q \in queueRows : r.key = q.key /\ r.idx = q.idx => r = q

ChatInv == LocksTyped /\ LocksHeld /\ SeenTyped /\ Won /\ QueueTyped

-----------------------------------------------------------------------------
LEMMA ChatNumbers == MaxTtl \in Nat /\ MaxTtl > 0 /\ MaxTokens \in Nat /\ MaxSize \in Nat /\ MaxIndex \in Nat
BY ChatStateConstants

LEMMA ChatStarts == ChatInit => ChatInv
BY ChatNumbers DEF ChatInit, ChatInv, LocksTyped, LocksHeld, SeenTyped, Won, QueueTyped, Tokens

-----------------------------------------------------------------------------
(* Locks. *)

LEMMA AcquireInv ==
  ASSUME LocksTyped, LocksHeld, NEW bot \in Bots, NEW ttl \in Ttls, AcquireLock(bot, ttl)
  PROVE  LocksTyped' /\ LocksHeld'
<1> DEFINE row == [key |-> bot, token |-> tokens + 1, left |-> ttl]
           handle == [bot |-> bot, token |-> tokens + 1, left |-> ttl]
<1>1. /\ tokens < MaxTokens /\ tokens' = tokens + 1 /\ robbed' = robbed
      /\ lockRows' = {r \in lockRows : r.key # bot} \cup {row}
      /\ handles' = handles \cup {handle}
  BY DEF AcquireLock, Of, Key
<1>2. tokens \in Nat /\ tokens' \in 0 .. MaxTokens /\ Tokens \subseteq Tokens'
      /\ tokens + 1 \in Tokens' /\ tokens + 1 \notin Tokens
  BY <1>1, ChatNumbers DEF LocksTyped, Tokens
<1>3. ttl \in Times
  BY ChatNumbers DEF Ttls, Times
<1>4. /\ row \in [key : Bots, token : Tokens', left : Times]
      /\ handle \in [bot : Bots, token : Tokens', left : Times]
      /\ row.key = bot /\ row.token = tokens + 1 /\ row.left = ttl
      /\ handle.bot = bot /\ handle.token = tokens + 1 /\ handle.left = ttl
  BY <1>2, <1>3
<1> HIDE DEF row, handle
<1>5. /\ \A r \in lockRows : r \in [key : Bots, token : Tokens', left : Times] /\ r.token \in Tokens
      /\ \A h \in handles : h \in [bot : Bots, token : Tokens', left : Times] /\ h.token \in Tokens
  BY <1>2 DEF LocksTyped
<1>6. LocksTyped'
  BY <1>1, <1>2, <1>4, <1>5 DEF LocksTyped
<1>7. \A h, q \in handles' : h.token = q.token => h = q
  BY <1>1, <1>2, <1>4, <1>5 DEF LocksHeld
<1>11. \A r, q \in lockRows' : r.token = q.token => r = q
  BY <1>1, <1>2, <1>4, <1>5 DEF LocksHeld
<1>8. \A r \in lockRows', h \in handles' : h.bot = r.key => h.token <= r.token
  <2> SUFFICES ASSUME NEW r \in lockRows', NEW h \in handles', h.bot = r.key
               PROVE  h.token <= r.token
    OBVIOUS
  <2>1. CASE r = row
    <3>1. h.token \in Tokens \/ h.token = tokens + 1
      BY <1>1, <1>4, <1>5
    <3> QED
      BY <1>2, <1>4, <2>1, <3>1 DEF Tokens
  <2>2. CASE r # row
    <3>1. r \in lockRows /\ r.key # bot /\ h \in handles
      BY <1>1, <1>4, <2>2
    <3> QED
      BY <3>1 DEF LocksHeld
  <2> QED
    BY <2>1, <2>2
<1>9. \A r \in lockRows' : r.token \notin robbed'
  BY <1>1, <1>2, <1>4 DEF LocksHeld, LocksTyped
<1>10. ASSUME NEW h \in handles', h.left >= 0, h.token \notin robbed'
       PROVE  \E r \in lockRows' : r.key = h.bot /\ r.token = h.token /\ r.left = h.left
  <2>1. CASE h = handle
    BY <1>1, <1>4, <2>1
  <2>2. CASE h # handle
    <3>1. PICK r \in lockRows : r.key = h.bot /\ r.token = h.token /\ r.left = h.left
      BY <1>1, <1>10, <2>2 DEF LocksHeld
    <3>2. r.key # bot
      BY <1>10, <3>1 DEF AcquireLock, Unexpired, Of, Key
    <3> QED
      BY <1>1, <3>1, <3>2
  <2> QED
    BY <2>1, <2>2
<1> QED
  BY <1>6, <1>7, <1>8, <1>9, <1>10, <1>11 DEF LocksHeld

LEMMA ReleaseInv ==
  ASSUME LocksTyped, LocksHeld, NEW h \in handles, ReleaseLock(h)
  PROVE  LocksTyped' /\ LocksHeld'
<1>1. /\ handles' = handles \ {h} /\ tokens' = tokens /\ robbed' = robbed
      /\ lockRows' = {r \in lockRows : ~ (r.key = h.bot /\ r.token = h.token)}
  BY DEF ReleaseLock, Row, Of, Key
<1>2. LocksTyped'
  BY <1>1 DEF LocksTyped, Tokens
<1>3. ASSUME NEW q \in handles', q.left >= 0, q.token \notin robbed'
      PROVE  \E r \in lockRows' : r.key = q.bot /\ r.token = q.token /\ r.left = q.left
  <2>1. q \in handles /\ q # h /\ q.token # h.token
    BY <1>1 DEF LocksHeld
  <2>2. PICK r \in lockRows : r.key = q.bot /\ r.token = q.token /\ r.left = q.left
    BY <1>1, <1>3, <2>1 DEF LocksHeld
  <2> QED
    BY <1>1, <2>1, <2>2
<1> QED
  BY <1>1, <1>2, <1>3 DEF LocksHeld

LEMMA ExtendInv ==
  ASSUME LocksTyped, LocksHeld, NEW h \in handles, NEW ttl \in Ttls, ExtendLock(h, ttl)
  PROVE  LocksTyped' /\ LocksHeld'
<1> DEFINE row == [key |-> h.bot, token |-> h.token, left |-> ttl]
           longer == [h EXCEPT !.left = ttl]
<1>1. /\ tokens' = tokens /\ robbed' = robbed
      /\ lockRows' = {r \in lockRows : ~ (r.key = h.bot /\ r.token = h.token)} \cup {row}
      /\ handles' = (handles \ {h}) \cup {longer}
  BY DEF ExtendLock, Row, Of, Key
<1>2. PICK old \in lockRows : old.key = h.bot /\ old.token = h.token
  BY DEF ExtendLock, Row, Of, Key
<1>3. h \in [bot : Bots, token : Tokens, left : Times]
  BY DEF LocksTyped
<1>4. ttl \in Times
  BY ChatNumbers DEF Ttls, Times
<1>5. /\ row \in [key : Bots, token : Tokens, left : Times]
      /\ row.key = h.bot /\ row.token = h.token /\ row.left = ttl
      /\ longer \in [bot : Bots, token : Tokens, left : Times]
      /\ longer.bot = h.bot /\ longer.token = h.token /\ longer.left = ttl
  BY <1>3, <1>4
<1> HIDE DEF row, longer
<1>6. \A r \in lockRows' : r # row => r \in lockRows /\ r.key # h.bot
  BY <1>1, <1>2 DEF LocksTyped
<1>7. LocksTyped'
  BY <1>1, <1>5, <1>6 DEF LocksTyped, Tokens
<1>8. \A q \in handles' : q # longer => q \in handles /\ q.token # h.token
  BY <1>1 DEF LocksHeld
<1>9. \A q, p \in handles' : q.token = p.token => q = p
  BY <1>5, <1>8 DEF LocksHeld
<1>10. \A r \in lockRows', q \in handles' : q.bot = r.key => q.token <= r.token
  <2> SUFFICES ASSUME NEW r \in lockRows', NEW q \in handles', q.bot = r.key
               PROVE  q.token <= r.token
    OBVIOUS
  <2>1. CASE r = row
    <3>1. \E p \in handles : p.bot = h.bot /\ p.token = q.token
      BY <1>5, <1>8, <2>1
    <3> QED
      BY <1>2, <1>5, <2>1, <3>1 DEF LocksHeld
  <2>2. CASE r # row
    BY <1>5, <1>6, <1>8, <2>2 DEF LocksHeld
  <2> QED
    BY <2>1, <2>2
<1>11. \A r \in lockRows' : r.token \notin robbed'
  BY <1>1, <1>2, <1>5, <1>6 DEF LocksHeld
<1>13. \A r, q \in lockRows' : r.token = q.token => r = q
  BY <1>1, <1>2, <1>5, <1>6 DEF LocksHeld
<1>12. ASSUME NEW q \in handles', q.left >= 0, q.token \notin robbed'
       PROVE  \E r \in lockRows' : r.key = q.bot /\ r.token = q.token /\ r.left = q.left
  <2>1. CASE q = longer
    BY <1>1, <1>5, <2>1
  <2>2. CASE q # longer
    <3>1. PICK r \in lockRows : r.key = q.bot /\ r.token = q.token /\ r.left = q.left
      BY <1>1, <1>8, <1>12, <2>2 DEF LocksHeld
    <3> QED
      BY <1>1, <1>8, <2>2, <3>1
  <2> QED
    BY <2>1, <2>2
<1> QED
  BY <1>7, <1>9, <1>10, <1>11, <1>12, <1>13 DEF LocksHeld

LEMMA ForceInv ==
  ASSUME LocksTyped, LocksHeld, NEW bot \in Bots, ForceReleaseLock(bot)
  PROVE  LocksTyped' /\ LocksHeld'
<1>1. /\ handles' = handles /\ tokens' = tokens
      /\ lockRows' = {r \in lockRows : r.key # bot}
      /\ robbed' = robbed \cup {r.token : r \in {q \in lockRows : q.key = bot}}
  BY DEF ForceReleaseLock, Of, Key
<1>2. LocksTyped'
  BY <1>1 DEF LocksTyped, Tokens
<1>3. ASSUME NEW r \in lockRows' PROVE r.token \notin robbed'
  <2>1. \A q \in lockRows : q.key = bot => q.token # r.token
    BY <1>1 DEF LocksHeld
  <2> QED
    BY <1>1, <2>1 DEF LocksHeld
<1>4. ASSUME NEW h \in handles', h.left >= 0, h.token \notin robbed'
      PROVE  \E r \in lockRows' : r.key = h.bot /\ r.token = h.token /\ r.left = h.left
  <2>1. PICK r \in lockRows : r.key = h.bot /\ r.token = h.token /\ r.left = h.left
    BY <1>1, <1>4 DEF LocksHeld
  <2>2. r.key # bot
    BY <1>1, <1>4, <2>1
  <2> QED
    BY <1>1, <2>1, <2>2
<1> QED
  BY <1>1, <1>2, <1>3, <1>4 DEF LocksHeld

LEMMA CleanupInv ==
  ASSUME ChatInv, Cleanup
  PROVE  ChatInv'
<1>1. /\ lockRows' = {r \in lockRows : r.left >= 0}
      /\ seenRows' = {r \in seenRows : r.left >= 0}
      /\ UNCHANGED <<handles, tokens, robbed, wins, callers, queueRows>>
  BY DEF Cleanup, Unexpired
<1>2. LocksTyped' /\ SeenTyped' /\ QueueTyped'
  BY <1>1 DEF ChatInv, LocksTyped, SeenTyped, QueueTyped, Tokens
<1>3. LocksHeld'
  BY <1>1 DEF ChatInv, LocksHeld
<1>4. Won'
  <2>1. \A w \in wins : w.left >= 0
    BY ChatNumbers DEF ChatInv, SeenTyped, Ttls
  <2> QED
    BY <1>1, <2>1 DEF ChatInv, Won
<1> QED
  BY <1>2, <1>3, <1>4 DEF ChatInv

LEMMA LocksTickInv ==
  ASSUME LocksTyped, LocksHeld, LocksTick
  PROVE  LocksTyped' /\ LocksHeld'
<1> DEFINE Less(n) == IF n > 0 THEN n - 1 ELSE -1
<1>1. /\ lockRows' = {[r EXCEPT !.left = Less(r.left)] : r \in lockRows}
      /\ handles' = {[h EXCEPT !.left = Less(h.left)] : h \in handles}
      /\ tokens' = tokens /\ robbed' = robbed
  BY DEF LocksTick, Older
<1>2. \A n \in Times : Less(n) \in Times /\ (Less(n) >= 0 => n >= 0)
  BY ChatNumbers DEF Times
<1> HIDE DEF Less
<1>3. \A x \in lockRows' : \E r \in lockRows :
        /\ x = [r EXCEPT !.left = Less(r.left)]
        /\ x \in [key : Bots, token : Tokens, left : Times]
        /\ x.key = r.key /\ x.token = r.token /\ x.left = Less(r.left)
  <2> TAKE x \in lockRows'
  <2>1. PICK r \in lockRows : x = [r EXCEPT !.left = Less(r.left)]
    BY <1>1
  <2>2. r \in [key : Bots, token : Tokens, left : Times] /\ Less(r.left) \in Times
    BY <1>2 DEF LocksTyped
  <2>3. /\ x \in [key : Bots, token : Tokens, left : Times]
        /\ x.key = r.key /\ x.token = r.token /\ x.left = Less(r.left)
    BY <2>1, <2>2
  <2> QED
    BY <2>1, <2>3
<1>4. \A x \in handles' : \E h \in handles :
        /\ x = [h EXCEPT !.left = Less(h.left)]
        /\ x \in [bot : Bots, token : Tokens, left : Times] /\ h.left \in Times
        /\ x.bot = h.bot /\ x.token = h.token /\ x.left = Less(h.left)
  <2> TAKE x \in handles'
  <2>1. PICK h \in handles : x = [h EXCEPT !.left = Less(h.left)]
    BY <1>1
  <2>2. h \in [bot : Bots, token : Tokens, left : Times] /\ h.left \in Times
        /\ Less(h.left) \in Times
    BY <1>2 DEF LocksTyped
  <2>3. /\ x \in [bot : Bots, token : Tokens, left : Times]
        /\ x.bot = h.bot /\ x.token = h.token /\ x.left = Less(h.left)
    BY <2>1, <2>2
  <2> QED
    BY <2>1, <2>2, <2>3
<1>5. ASSUME NEW r \in lockRows
      PROVE  \E x \in lockRows' : x.key = r.key /\ x.token = r.token /\ x.left = Less(r.left)
  <2> DEFINE x == [r EXCEPT !.left = Less(r.left)]
  <2>1. r \in [key : Bots, token : Tokens, left : Times] /\ Less(r.left) \in Times
    BY <1>2 DEF LocksTyped
  <2>2. x.key = r.key /\ x.token = r.token /\ x.left = Less(r.left)
    BY <2>1
  <2>3. x \in lockRows'
    BY <1>1
  <2> HIDE DEF x
  <2> QED
    BY <2>2, <2>3
<1>6. LocksTyped'
  <2>1. \A x, y \in lockRows' : x.key = y.key => x = y
    BY <1>3 DEF LocksTyped
  <2>2. /\ lockRows' \subseteq [key : Bots, token : Tokens, left : Times]
        /\ handles' \subseteq [bot : Bots, token : Tokens, left : Times]
    BY <1>3, <1>4
  <2> QED
    BY <1>1, <2>1, <2>2 DEF LocksTyped, Tokens
<1>7. \A h, q \in handles' : h.token = q.token => h = q
  BY <1>4 DEF LocksHeld
<1>8. \A r, q \in lockRows' : r.token = q.token => r = q
  BY <1>3 DEF LocksHeld
<1>9. \A r \in lockRows', h \in handles' : h.bot = r.key => h.token <= r.token
  BY <1>3, <1>4 DEF LocksHeld
<1>10. \A r \in lockRows' : r.token \notin robbed'
  BY <1>1, <1>3 DEF LocksHeld
<1>11. ASSUME NEW x \in handles', x.left >= 0, x.token \notin robbed'
       PROVE  \E r \in lockRows' : r.key = x.bot /\ r.token = x.token /\ r.left = x.left
  <2>1. PICK h \in handles : /\ x.bot = h.bot /\ x.token = h.token /\ x.left = Less(h.left)
                             /\ h.left \in Times
    BY <1>4
  <2>2. PICK r \in lockRows : r.key = h.bot /\ r.token = h.token /\ r.left = h.left
    BY <1>1, <1>2, <1>11, <2>1 DEF LocksHeld
  <2> QED
    BY <1>5, <2>1, <2>2
<1> QED
  BY <1>6, <1>7, <1>8, <1>9, <1>10, <1>11 DEF LocksHeld

-----------------------------------------------------------------------------
(* Seen messages. *)

LEMMA SetInv ==
  ASSUME SeenTyped, Won, NEW bot \in Bots, NEW ttl \in Ttls, SetIfNotExists(bot, ttl)
  PROVE  /\ SeenTyped' /\ Won'
         /\ callers' # callers => \E w \in wins' : w.bot \in callers' \ callers
<1> DEFINE row == [key |-> bot, left |-> ttl]
           win == [bot |-> bot, left |-> ttl]
<1>1. callers' = callers \cup {bot}
  BY DEF SetIfNotExists
<1>2. ttl \in Times
  BY ChatNumbers DEF Ttls, Times
<1>3. CASE Unexpired(Of(seenRows, bot)) # {}
  <2>1. seenRows' = seenRows /\ wins' = wins
    BY <1>3 DEF SetIfNotExists
  <2>2. bot \in callers
    BY <1>3 DEF Unexpired, Of, Key, Won
  <2> QED
    BY <1>1, <2>1, <2>2 DEF SeenTyped, Won
<1>4. CASE Unexpired(Of(seenRows, bot)) = {}
  <2>1. seenRows' = {r \in seenRows : r.key # bot} \cup {row} /\ wins' = wins \cup {win}
    BY <1>4 DEF SetIfNotExists, Of, Key
  <2>2. /\ row \in [key : Bots, left : Times] /\ row.key = bot /\ row.left = ttl
        /\ win \in [bot : Bots, left : Ttls \cup {0}] /\ win.bot = bot /\ win.left = ttl
    BY <1>2
  <2> HIDE DEF row, win
  <2>3. \A w \in wins : w.bot # bot
    <3>1. \A w \in wins : w.left >= 0
      BY ChatNumbers DEF SeenTyped, Ttls
    <3>2. \A r \in seenRows : r.key = bot => ~ (r.left >= 0)
      BY <1>4 DEF Unexpired, Of, Key
    <3> QED
      BY <3>1, <3>2 DEF Won
  <2>4. SeenTyped'
    BY <1>1, <2>1, <2>2 DEF SeenTyped
  <2>5. Won'
    BY <1>1, <2>1, <2>2, <2>3 DEF Won
  <2> QED
    BY <1>1, <2>1, <2>2, <2>4, <2>5
<1> QED
  BY <1>3, <1>4

LEMMA SeenTickInv ==
  ASSUME SeenTyped, Won, SeenTick
  PROVE  SeenTyped' /\ Won'
<1> DEFINE Less(n) == IF n > 0 THEN n - 1 ELSE -1
<1>1. /\ seenRows' = {[r EXCEPT !.left = Less(r.left)] : r \in seenRows}
      /\ wins' = {w \in {[x EXCEPT !.left = Less(x.left)] : x \in wins} : w.left >= 0}
      /\ callers' = callers
  BY DEF SeenTick, Older, Unexpired
<1>2. \A n \in Times : Less(n) \in Times
  BY ChatNumbers DEF Times
<1>3. \A n \in Ttls \cup {0} :
        Less(n) \in Times /\ (Less(n) >= 0 => Less(n) \in Ttls \cup {0})
  BY ChatNumbers DEF Times, Ttls
<1> HIDE DEF Less
<1>4. \A x \in seenRows' : \E r \in seenRows :
        /\ x = [r EXCEPT !.left = Less(r.left)]
        /\ x \in [key : Bots, left : Times] /\ x.key = r.key
  <2> TAKE x \in seenRows'
  <2>1. PICK r \in seenRows : x = [r EXCEPT !.left = Less(r.left)]
    BY <1>1
  <2>2. r \in [key : Bots, left : Times] /\ Less(r.left) \in Times
    BY <1>2 DEF SeenTyped
  <2>3. x \in [key : Bots, left : Times] /\ x.key = r.key
    BY <2>1, <2>2
  <2> QED
    BY <2>1, <2>3
<1>5. ASSUME NEW r \in seenRows
      PROVE  \E x \in seenRows' : x.key = r.key /\ x.left = Less(r.left)
  <2> DEFINE x == [r EXCEPT !.left = Less(r.left)]
  <2>1. r \in [key : Bots, left : Times] /\ Less(r.left) \in Times
    BY <1>2 DEF SeenTyped
  <2>2. x.key = r.key /\ x.left = Less(r.left)
    BY <2>1
  <2>3. x \in seenRows'
    BY <1>1
  <2> HIDE DEF x
  <2> QED
    BY <2>2, <2>3
<1>6. \A x \in wins' : \E w \in wins :
        /\ x.bot = w.bot /\ x.left = Less(w.left)
        /\ x \in [bot : Bots, left : Ttls \cup {0}]
  <2> TAKE x \in wins'
  <2>1. PICK w \in wins : x = [w EXCEPT !.left = Less(w.left)]
    BY <1>1
  <2>2. w \in [bot : Bots, left : Ttls \cup {0}]
    BY DEF SeenTyped
  <2>3. x.bot = w.bot /\ x.left = Less(w.left)
    BY <2>1, <2>2
  <2>4. x.left >= 0
    BY <1>1
  <2>5. Less(w.left) \in Ttls \cup {0}
    BY <1>3, <2>2, <2>3, <2>4
  <2>6. x \in [bot : Bots, left : Ttls \cup {0}]
    BY <2>1, <2>2, <2>5
  <2> QED
    BY <2>3, <2>6
<1>7. SeenTyped'
  <2>1. \A x, y \in seenRows' : x.key = y.key => x = y
    BY <1>4 DEF SeenTyped
  <2>2. /\ seenRows' \subseteq [key : Bots, left : Times]
        /\ wins' \subseteq [bot : Bots, left : Ttls \cup {0}]
    BY <1>4, <1>6
  <2> QED
    BY <1>1, <2>1, <2>2 DEF SeenTyped
<1>8. \A x \in wins' : \E r \in seenRows' : r.key = x.bot /\ r.left = x.left
  <2> TAKE x \in wins'
  <2>1. PICK w \in wins : x.bot = w.bot /\ x.left = Less(w.left)
    BY <1>6
  <2>2. PICK r \in seenRows : r.key = w.bot /\ r.left = w.left
    BY DEF Won
  <2> QED
    BY <1>5, <2>1, <2>2
<1>9. \A x \in seenRows' : x.key \in callers'
  BY <1>1, <1>4 DEF Won
<1> QED
  BY <1>7, <1>8, <1>9 DEF Won

-----------------------------------------------------------------------------
(* Queues. *)

LEMMA LeastNumber ==
  ASSUME NEW T, T \subseteq Nat, T # {}
  PROVE  \E a \in T : \A b \in T : a <= b
<1> DEFINE R == OpToRel(<, Nat)
<1>1. IsWellFoundedOn(R, Nat)
  BY NatLessThanWellFounded, Zenon
<1>2. \A x, y \in Nat : y < x => <<y, x>> \in R
  BY Zenon DEF OpToRel
<1> HIDE DEF R
<1>3. PICK a \in T : \A b \in T : ~(<<b, a>> \in R)
  BY <1>1, WFMin
<1>4. \A b \in T : ~(b < a)
  BY <1>2, <1>3
<1> QED
  BY <1>4

(* The indices of a bounded queue have a maximum. *)
LEMMA NextIndex ==
  ASSUME QueueTyped, NEW bot \in Bots
  PROVE  /\ NextIdx(Of(queueRows, bot)) \in Nat
         /\ \A r \in Of(queueRows, bot) : r.idx < NextIdx(Of(queueRows, bot))
<1> DEFINE rows == Of(queueRows, bot)
<1>1. \A r \in rows : r.idx \in Nat /\ r.idx <= MaxIndex
  BY ChatNumbers DEF QueueTyped, Of
<1> HIDE DEF rows
<1>2. CASE rows = {}
  BY <1>2 DEF NextIdx, rows
<1>3. CASE rows # {}
  <2> DEFINE above == {n \in Nat : \A r \in rows : r.idx <= n}
  <2>1. above \subseteq Nat /\ MaxIndex \in above
    BY <1>1, ChatNumbers
  <2>2. PICK m \in above : \A n \in above : m <= n
    BY <2>1, LeastNumber
  <2>3. m \in Nat /\ \A r \in rows : r.idx <= m
    OBVIOUS
  <2>4. m \in {r.idx : r \in rows}
    <3> SUFFICES ASSUME m \notin {r.idx : r \in rows} PROVE FALSE
      OBVIOUS
    <3>1. \A r \in rows : r.idx < m
      BY <1>1, <2>3
    <3>2. m - 1 \in Nat /\ \A r \in rows : r.idx <= m - 1
      BY <1>1, <1>3, <2>3, <3>1
    <3>3. m - 1 \in above
      BY <3>2
    <3> QED
      BY <2>2, <2>3, <3>3
  <2>5. MaxIdx(rows) \in {r.idx : r \in rows} /\ \A r \in rows : r.idx <= MaxIdx(rows)
    BY <2>3, <2>4 DEF MaxIdx
  <2>6. MaxIdx(rows) \in Nat
    BY <1>1, <2>5
  <2> HIDE DEF above
  <2>7. NextIdx(rows) = MaxIdx(rows) + 1
    BY <1>3 DEF NextIdx
  <2>8. NextIdx(rows) \in Nat /\ \A r \in rows : r.idx < NextIdx(rows)
    BY <1>1, <2>5, <2>6, <2>7
  <2> QED
    BY <2>8 DEF rows
<1> QED
  BY <1>2, <1>3

LEMMA EnqueueInv ==
  ASSUME QueueTyped, NEW bot \in Bots, NEW message \in Entries, Enqueue(bot, message)
  PROVE  QueueTyped'
<1> DEFINE next == NextIdx(Of(queueRows, bot))
           row == [key |-> bot, idx |-> next, value |-> message]
<1>1. next \in Nat /\ next <= MaxIndex
  BY NextIndex DEF Enqueue
<1>2. \A r \in queueRows : r.key = bot => r.idx # next
  <2>1. \A r \in queueRows : r.key = bot => r.idx < next /\ r.idx \in Nat
    BY NextIndex, ChatNumbers DEF Of, Key, QueueTyped
  <2> HIDE DEF next
  <2> QED
    BY <1>1, <2>1
<1>3. queueRows' = {r \in queueRows : r.key = bot => r.idx > next - MaxSize} \cup {row}
  BY DEF Enqueue, Key
<1> HIDE DEF next
<1>4. row \in [key : Bots, idx : 0 .. MaxIndex, value : Entries] /\ row.key = bot /\ row.idx = next
  BY <1>1, ChatNumbers
<1> HIDE DEF row
<1> QED
  BY <1>2, <1>3, <1>4 DEF QueueTyped

LEMMA DequeueInv ==
  ASSUME QueueTyped, NEW bot \in Bots, Dequeue(bot)
  PROVE  QueueTyped'
<1>1. queueRows' \subseteq queueRows
  BY DEF Dequeue
<1> QED
  BY <1>1 DEF QueueTyped

-----------------------------------------------------------------------------
(* The three tables meet in Cleanup alone. *)
LEMMA ChatStep ==
  ASSUME ChatInv, [ChatNext]_chatVars
  PROVE  /\ ChatInv'
         /\ callers' # callers => \E w \in wins' : w.bot \in callers' \ callers
<1> USE DEF ChatInv
<1>1. ASSUME UNCHANGED <<seenVars, queueRows>>, LocksTyped' /\ LocksHeld'
      PROVE  ChatInv' /\ callers' = callers
  BY <1>1 DEF seenVars, SeenTyped, Won, QueueTyped
<1>2. ASSUME UNCHANGED <<lockVars, queueRows>>, SeenTyped' /\ Won'
      PROVE  ChatInv'
  BY <1>2 DEF lockVars, LocksTyped, LocksHeld, QueueTyped, Tokens
<1>3. ASSUME UNCHANGED <<lockVars, seenVars>>, QueueTyped'
      PROVE  ChatInv' /\ callers' = callers
  BY <1>3 DEF lockVars, seenVars, LocksTyped, LocksHeld, SeenTyped, Won, Tokens
<1>4. ASSUME NEW bot \in Bots, ForceReleaseLock(bot) PROVE ChatInv' /\ callers' = callers
  BY <1>1, <1>4, ForceInv DEF ForceReleaseLock
<1>5. ASSUME NEW bot \in Bots, NEW ttl \in Ttls, AcquireLock(bot, ttl)
      PROVE  ChatInv' /\ callers' = callers
  BY <1>1, <1>5, AcquireInv DEF AcquireLock
<1>6. ASSUME NEW h \in handles, ReleaseLock(h) PROVE ChatInv' /\ callers' = callers
  BY <1>1, <1>6, ReleaseInv DEF ReleaseLock
<1>7. ASSUME NEW h \in handles, NEW ttl \in Ttls, ExtendLock(h, ttl)
      PROVE  ChatInv' /\ callers' = callers
  BY <1>1, <1>7, ExtendInv DEF ExtendLock
<1>8. ASSUME Cleanup PROVE ChatInv' /\ callers' = callers
  BY <1>8, CleanupInv DEF Cleanup
<1>9. ASSUME LocksTick PROVE ChatInv' /\ callers' = callers
  BY <1>1, <1>9, LocksTickInv DEF LocksTick
<1>10. ASSUME NEW bot \in Bots, NEW ttl \in Ttls, SetIfNotExists(bot, ttl)
       PROVE  /\ ChatInv'
              /\ callers' # callers => \E w \in wins' : w.bot \in callers' \ callers
  <2>1. UNCHANGED <<lockVars, queueRows>>
    BY <1>10 DEF SetIfNotExists
  <2>2. /\ SeenTyped' /\ Won'
        /\ callers' # callers => \E w \in wins' : w.bot \in callers' \ callers
    BY <1>10, SetInv
  <2> QED
    BY <1>2, <2>1, <2>2
<1>11. ASSUME SeenTick PROVE ChatInv' /\ callers' = callers
  <2>1. UNCHANGED <<lockVars, queueRows>> /\ callers' = callers
    BY <1>11 DEF SeenTick
  <2> QED
    BY <1>2, <1>11, <2>1, SeenTickInv
<1>12. ASSUME NEW bot \in Bots, Dequeue(bot) PROVE ChatInv' /\ callers' = callers
  BY <1>3, <1>12, DequeueInv DEF Dequeue
<1>13. ASSUME NEW bot \in Bots, NEW message \in Entries, Enqueue(bot, message)
       PROVE  ChatInv' /\ callers' = callers
  BY <1>3, <1>13, EnqueueInv DEF Enqueue
<1>14. ASSUME UNCHANGED chatVars PROVE ChatInv' /\ callers' = callers
  BY <1>14 DEF chatVars, lockVars, seenVars, LocksTyped, LocksHeld, SeenTyped, Won, QueueTyped, Tokens
<1> HIDE DEF ChatInv
<1>15. CASE UNCHANGED chatVars
  BY <1>14, <1>15
<1>16. CASE LocksNext
  BY <1>4, <1>5, <1>6, <1>7, <1>8, <1>9, <1>16 DEF LocksNext
<1>17. CASE SeenNext
  BY <1>8, <1>10, <1>11, <1>17 DEF SeenNext
<1>18. CASE QueueNext
  BY <1>12, <1>13, <1>18 DEF QueueNext
<1> QED
  BY <1>15, <1>16, <1>17, <1>18 DEF ChatNext

LEMMA ChatInductive == ChatSpec => []ChatInv
<1>1. ChatInv /\ [ChatNext]_chatVars => ChatInv'
  BY ChatStep
<1> QED
  BY ChatStarts, <1>1, PTL DEF ChatSpec

LEMMA ChatInvTyped ==
  ASSUME ChatInv
  PROVE  ChatTypeOK
<1>1. \A r \in queueRows : r.key \in Bots /\ r.idx \in Nat /\ r.value \in Entries
  BY ChatNumbers DEF ChatInv, QueueTyped
<1> QED
  BY <1>1 DEF ChatInv, ChatTypeOK, LocksTyped, SeenTyped, QueueTyped, Tokens

(* The adapter's tables keep their types and their keys unique. *)
THEOREM ChatTyped == ChatSpec => []ChatTypeOK
<1>1. ChatInv => ChatTypeOK
  BY ChatInvTyped
<1> QED
  BY <1>1, ChatInductive, PTL

(* Whatever late releases, extensions and clean-ups come in between, one   *)
(* lock of a thread is in force, and one report of a message wins.         *)
THEOREM ChatKept == ChatSpec => []ChatSafe
<1>1. ASSUME ChatInv PROVE LockExclusive
  <2> SUFFICES ASSUME NEW h \in handles, NEW q \in handles, h.left >= 0, q.left >= 0,
                      h.bot = q.bot, h.token < q.token, h.token \notin robbed
               PROVE  FALSE
    BY DEF LockExclusive, Unexpired
  <2>1. PICK r \in lockRows : r.key = h.bot /\ r.token = h.token
    BY <1>1 DEF ChatInv, LocksHeld
  <2>2. q.token <= h.token
    BY <1>1, <2>1 DEF ChatInv, LocksHeld
  <2>3. h.token \in Nat /\ q.token \in Nat
    BY <1>1 DEF ChatInv, LocksTyped, Tokens
  <2> QED
    BY <2>2, <2>3
<1>2. ASSUME ChatInv PROVE OneWinner
  <2> SUFFICES ASSUME NEW w \in wins, NEW x \in wins, w.bot = x.bot PROVE w = x
    BY DEF OneWinner
  <2>1. w \in [bot : Bots, left : Ttls \cup {0}] /\ x \in [bot : Bots, left : Ttls \cup {0}]
    BY <1>2 DEF ChatInv, SeenTyped
  <2>2. w.left = x.left
    BY <1>2 DEF ChatInv, Won, SeenTyped
  <2> QED
    BY <2>1, <2>2
<1>3. ChatInv => ChatSafe
  BY <1>1, <1>2 DEF ChatSafe
<1> QED
  BY <1>3, ChatInductive, PTL

(* A bot's first report of a message is told that it is the first,         *)
(* whatever the other bots of the platform have reported.                  *)
THEOREM FirstReportKept == ChatSpec => FirstReportWins
<1>1. ChatInv /\ [ChatNext]_chatVars =>
        [callers' # callers => \E w \in wins' : w.bot \in callers' \ callers]_chatVars
  BY ChatStep
<1> QED
  BY <1>1, ChatInductive, PTL DEF ChatSpec, FirstReportWins

-----------------------------------------------------------------------------
(***************************************************************************)
(* The queues of the chat SDK: the rows of a queue are numbered in turn.   *)
(***************************************************************************)

(* The rows of bot's queue when it holds s from index lo on.               *)
RowAt(bot, lo, s, k) == [key |-> bot, idx |-> lo + k - 1, value |-> s[k]]
RowsAt(bot, lo, s) == {RowAt(bot, lo, s, k) : k \in 1 .. Len(s)}

(* The indices of a queue follow one another.                              *)
QueueHolds(bot, rows) ==
  \E lo \in Nat, s \in Seq(Entries) : Of(rows, bot) = RowsAt(bot, lo, s)

QueuesInv ==
  /\ \A r \in queueRows : r.key \in Bots
  /\ \A bot \in Bots : QueueHolds(bot, queueRows)

LEMMA QueueRowFields ==
  ASSUME NEW bot, NEW lo \in Nat, NEW s, NEW k \in Nat
  PROVE  /\ RowAt(bot, lo, s, k).key = bot
         /\ RowAt(bot, lo, s, k).idx = lo + k - 1
         /\ RowAt(bot, lo, s, k).value = s[k]
BY DEF RowAt

(* The k-th row has k rows up to it.                                       *)
LEMMA RowsUpTo ==
  ASSUME NEW bot, NEW lo \in Nat, NEW s \in Seq(Entries), NEW k \in 0 .. Len(s)
  PROVE  Cardinality({q \in RowsAt(bot, lo, s) : q.idx <= lo + k - 1}) = k
<1> DEFINE S == {q \in RowsAt(bot, lo, s) : q.idx <= lo + k - 1}
           f == [j \in 1 .. k |-> RowAt(bot, lo, s, j)]
<1>1. Len(s) \in Nat BY LenProperties
<1>2. \A j \in 1 .. k : f[j] \in S
  <2> TAKE j \in 1 .. k
  <2>1. j \in 1 .. Len(s) BY <1>1
  <2>2. RowAt(bot, lo, s, j) \in RowsAt(bot, lo, s) BY <2>1 DEF RowsAt
  <2>3. RowAt(bot, lo, s, j).idx <= lo + k - 1 BY QueueRowFields, <1>1
  <2> QED BY <2>2, <2>3
<1>3. \A i, j \in 1 .. k : f[i] = f[j] => i = j
  <2> TAKE i, j \in 1 .. k
  <2>1. f[i].idx = lo + i - 1 /\ f[j].idx = lo + j - 1 BY QueueRowFields, <1>1
  <2> QED BY <2>1, <1>1
<1>4. \A q \in S : \E j \in 1 .. k : f[j] = q
  <2> TAKE q \in S
  <2>1. PICK j \in 1 .. Len(s) : q = RowAt(bot, lo, s, j) BY DEF RowsAt
  <2>2. q.idx = lo + j - 1 BY <2>1, <1>1, QueueRowFields
  <2>3. j \in 1 .. k BY <2>2, <1>1
  <2> QED BY <2>1, <2>3
<1>5. f \in [1 .. k -> S] BY <1>2
<1> HIDE DEF f, S
<1>6. f \in Bijection(1 .. k, S) BY <1>3, <1>4, <1>5 DEF Bijection, Injection, Surjection, IsInjective
<1>7. ExistsBijection(1 .. k, S) BY <1>6 DEF ExistsBijection
<1>8. Cardinality(S) = k BY <1>1, <1>7, FS_CountingElements
<1> QED BY <1>8 DEF S

(* In the order of their indices the rows of s read s.                     *)
LEMMA OrderedIs ==
  ASSUME NEW bot, NEW lo \in Nat, NEW s \in Seq(Entries)
  PROVE  Ordered(RowsAt(bot, lo, s)) = s
<1> DEFINE rows == RowsAt(bot, lo, s)
           Upto(r) == Cardinality({q \in rows : q.idx <= r.idx})
<1>1. Len(s) \in Nat BY LenProperties
<1>2. \A k \in 1 .. Len(s) : /\ RowAt(bot, lo, s, k) \in rows
                             /\ Upto(RowAt(bot, lo, s, k)) = k
  <2> TAKE k \in 1 .. Len(s)
  <2>1. RowAt(bot, lo, s, k) \in rows BY DEF RowsAt
  <2>2. RowAt(bot, lo, s, k).idx = lo + k - 1 BY QueueRowFields, <1>1
  <2>4. k \in 0 .. Len(s) BY <1>1
  <2>3. Cardinality({q \in rows : q.idx <= lo + k - 1}) = k BY RowsUpTo, <2>4
  <2> QED BY <2>1, <2>2, <2>3
<1>3. Cardinality(rows) = Len(s)
  <2>1. \A q \in rows : q.idx <= lo + Len(s) - 1
    <3> TAKE q \in rows
    <3>1. PICK j \in 1 .. Len(s) : q = RowAt(bot, lo, s, j) BY DEF RowsAt
    <3> QED BY <3>1, <1>1, QueueRowFields
  <2>2. rows = {q \in rows : q.idx <= lo + Len(s) - 1} BY <2>1
  <2>3. Len(s) \in 0 .. Len(s) BY <1>1
  <2>4. Cardinality({q \in rows : q.idx <= lo + Len(s) - 1}) = Len(s)
    BY <2>3, <1>1, RowsUpTo
  <2> QED BY <2>2, <2>4
<1>4. \A k \in 1 .. Len(s) : (CHOOSE r \in rows : Upto(r) = k) = RowAt(bot, lo, s, k)
  <2> TAKE k \in 1 .. Len(s)
  <2>1. ASSUME NEW r \in rows, Upto(r) = k PROVE r = RowAt(bot, lo, s, k)
    <3>1. PICK j \in 1 .. Len(s) : r = RowAt(bot, lo, s, j) BY DEF RowsAt
    <3>2. Upto(r) = j BY <3>1, <1>2
    <3> QED BY <3>1, <3>2, <2>1
  <2> HIDE DEF rows, Upto
  <2> QED BY <2>1, <1>2
<1>5. Ordered(rows) = [n \in 1 .. Cardinality(rows) |-> (CHOOSE r \in rows : Upto(r) = n).value]
  BY DEF Ordered
<1> HIDE DEF rows, Upto
<1>6. \A k \in 1 .. Len(s) : (CHOOSE r \in rows : Upto(r) = k).value = s[k]
  <2> TAKE k \in 1 .. Len(s)
  <2>1. k \in Nat BY <1>1
  <2>2. RowAt(bot, lo, s, k).value = s[k] BY <2>1, QueueRowFields
  <2> QED BY <2>2, <1>4
<1>7. Ordered(rows) = [n \in 1 .. Len(s) |-> s[n]] BY <1>3, <1>5, <1>6
<1>8. s = [n \in 1 .. Len(s) |-> s[n]] BY LenProperties
<1>9. Ordered(rows) = s BY <1>7, <1>8
<1> QED BY <1>9 DEF rows

(* Without its first d rows a queue begins d later.                        *)
LEMMA RowsFrom ==
  ASSUME NEW bot, NEW lo \in Nat, NEW s \in Seq(Entries), NEW d \in 0 .. Len(s)
  PROVE  /\ SubSeq(s, d + 1, Len(s)) \in Seq(Entries)
         /\ RowsAt(bot, lo + d, SubSeq(s, d + 1, Len(s)))
              = {RowAt(bot, lo, s, k) : k \in d + 1 .. Len(s)}
<1> DEFINE t == SubSeq(s, d + 1, Len(s))
<1>1. Len(s) \in Nat /\ d \in Nat /\ d <= Len(s) BY LenProperties
<1>2. /\ t \in Seq(Entries) /\ Len(t) = Len(s) - d
      /\ \A j \in 1 .. Len(s) - d : t[j] = s[d + j]
  <2>1. CASE d = Len(s)
    <3>1. t = <<>> BY <1>1, <2>1
    <3> QED BY <3>1, <2>1, <1>1
  <2>2. CASE d < Len(s)
    <3>1. d + 1 \in 1 .. Len(s) /\ Len(s) \in d + 1 .. Len(s) BY <1>1, <2>2
    <3> QED BY <3>1, <1>1, <2>2
  <2> QED BY <1>1, <2>1, <2>2
<1> HIDE DEF t
<1>3. \A j \in 1 .. Len(t) : RowAt(bot, lo + d, t, j) = RowAt(bot, lo, s, d + j)
  BY <1>1, <1>2 DEF RowAt
<1>4. ASSUME NEW j \in 1 .. Len(t) PROVE d + j \in d + 1 .. Len(s)
  BY <1>1, <1>2
<1>5. ASSUME NEW k \in d + 1 .. Len(s) PROVE k - d \in 1 .. Len(t) /\ d + (k - d) = k
  BY <1>1, <1>2
<1>6. ASSUME NEW k \in d + 1 .. Len(s)
      PROVE  \E j \in 1 .. Len(t) : RowAt(bot, lo, s, k) = RowAt(bot, lo + d, t, j)
  <2>1. k - d \in 1 .. Len(t) /\ d + (k - d) = k BY <1>5
  <2>2. RowAt(bot, lo + d, t, k - d) = RowAt(bot, lo, s, d + (k - d)) BY <1>3, <2>1
  <2> QED BY <2>1, <2>2
<1>7. ASSUME NEW j \in 1 .. Len(t)
      PROVE  \E k \in d + 1 .. Len(s) : RowAt(bot, lo + d, t, j) = RowAt(bot, lo, s, k)
  BY <1>3, <1>4
<1>8. RowsAt(bot, lo + d, t) = {RowAt(bot, lo, s, k) : k \in d + 1 .. Len(s)}
  <2>1. ASSUME NEW q \in RowsAt(bot, lo + d, t)
        PROVE  q \in {RowAt(bot, lo, s, k) : k \in d + 1 .. Len(s)}
    <3>1. PICK j \in 1 .. Len(t) : q = RowAt(bot, lo + d, t, j) BY DEF RowsAt
    <3> QED BY <3>1, <1>7
  <2>2. ASSUME NEW k \in d + 1 .. Len(s)
        PROVE  RowAt(bot, lo, s, k) \in RowsAt(bot, lo + d, t)
    BY <1>6 DEF RowsAt
  <2> QED BY <2>1, <2>2
<1> QED BY <1>2, <1>8 DEF t

(* A queue may be taken to begin where its next row's index says.          *)
LEMMA QueueBegins ==
  ASSUME NEW bot, NEW rows, QueueHolds(bot, rows)
  PROVE  \E lo \in Nat, s \in Seq(Entries) :
           Of(rows, bot) = RowsAt(bot, lo, s) /\ NextIdx(Of(rows, bot)) = lo + Len(s)
<1>1. PICK lo \in Nat, s \in Seq(Entries) : Of(rows, bot) = RowsAt(bot, lo, s)
  BY DEF QueueHolds
<1>2. Len(s) \in Nat BY LenProperties
<1>3. CASE Len(s) = 0
  <2>1. RowsAt(bot, lo, s) = {} /\ RowsAt(bot, 0, s) = {} BY <1>3 DEF RowsAt
  <2>2. NextIdx(Of(rows, bot)) = 0 + Len(s) BY <1>1, <1>3, <2>1 DEF NextIdx
  <2> QED BY <1>1, <2>1, <2>2
<1>4. CASE Len(s) # 0
  <2> DEFINE rs == RowsAt(bot, lo, s)
             Top(i) == \A r \in rs : r.idx <= i
  <2>1. Len(s) \in 1 .. Len(s) BY <1>2, <1>4
  <2>2. RowAt(bot, lo, s, Len(s)) \in rs /\ RowAt(bot, lo, s, Len(s)).idx = lo + Len(s) - 1
    BY <2>1, <1>2, QueueRowFields DEF RowsAt
  <2>3. Top(lo + Len(s) - 1)
    <3> TAKE q \in rs
    <3>1. PICK j \in 1 .. Len(s) : q = RowAt(bot, lo, s, j) BY DEF RowsAt
    <3>2. q.idx = lo + j - 1 BY <3>1, <1>2, QueueRowFields
    <3> QED BY <3>2, <1>2
  <2>4. \A i \in {r.idx : r \in rs} : Top(i) => i = lo + Len(s) - 1
    <3> TAKE i \in {r.idx : r \in rs}
    <3>1. PICK q \in rs : i = q.idx OBVIOUS
    <3>2. PICK j \in 1 .. Len(s) : q = RowAt(bot, lo, s, j) BY DEF RowsAt
    <3>3. i = lo + j - 1 BY <3>1, <3>2, <1>2, QueueRowFields
    <3>4. i <= lo + Len(s) - 1 BY <3>3, <1>2
    <3>5. Top(i) => lo + Len(s) - 1 <= i BY <2>2
    <3> QED BY <3>3, <3>4, <3>5, <1>2
  <2>5. lo + Len(s) - 1 \in {r.idx : r \in rs} BY <2>2
  <2>6. MaxIdx(rs) = CHOOSE i \in {r.idx : r \in rs} : Top(i) BY DEF MaxIdx
  <2>7. rs # {} BY <2>2
  <2> HIDE DEF rs, Top
  <2>8. MaxIdx(rs) = lo + Len(s) - 1 BY <2>3, <2>4, <2>5, <2>6
  <2>9. NextIdx(rs) = lo + Len(s) BY <2>7, <2>8, <1>2 DEF NextIdx
  <2> QED BY <1>1, <2>9 DEF rs
<1> QED BY <1>3, <1>4

(* The rows of a bot's queue that holds s, read as a sequence, are s.      *)
LEMMA QueueReads ==
  ASSUME NEW bot, NEW lo \in Nat, NEW s \in Seq(Entries), Of(queueRows, bot) = RowsAt(bot, lo, s)
  PROVE  Values(bot) = s
BY OrderedIs DEF Values

LEMMA QueueReadsNext ==
  ASSUME NEW bot, NEW lo \in Nat, NEW s \in Seq(Entries), Of(queueRows', bot) = RowsAt(bot, lo, s)
  PROVE  Values(bot)' = s
BY OrderedIs DEF Values, Of

LEMMA EnqueueHolds ==
  ASSUME NEW bot \in Bots, NEW message \in Entries, QueueHolds(bot, queueRows), Enqueue(bot, message)
  PROVE  /\ QueueHolds(bot, queueRows')
         /\ Values(bot)' = Fifo!Newest(Append(Values(bot), message))
<1>1. PICK lo \in Nat, s \in Seq(Entries) :
        Of(queueRows, bot) = RowsAt(bot, lo, s) /\ NextIdx(Of(queueRows, bot)) = lo + Len(s)
  BY QueueBegins
<1> DEFINE n == Len(s)
           t == Append(s, message)
           row == [key |-> bot, idx |-> lo + n, value |-> message]
<1>2. n \in Nat /\ MaxSize \in Nat /\ MaxSize > 0 BY ChatStateConstants, LenProperties
<1>3. t \in Seq(Entries) /\ Len(t) = n + 1 /\ t[n + 1] = message /\ \A k \in 1 .. n : t[k] = s[k]
  OBVIOUS
<1>4. queueRows' = {r \in queueRows : r.key = bot => r.idx > lo + n - MaxSize} \cup {row}
  <2> DEFINE next == NextIdx(Of(queueRows, bot))
  <2>1. queueRows' = {r \in queueRows : r.key = bot => r.idx > next - MaxSize}
                       \cup {[key |-> bot, idx |-> next, value |-> message]}
    BY DEF Enqueue, Key
  <2>2. next = lo + n BY <1>1
  <2> HIDE DEF next
  <2> QED BY <1>2, <2>1, <2>2
<1>5. row.key = bot /\ row = RowAt(bot, lo, t, n + 1)
  BY <1>2, <1>3 DEF RowAt
<1> HIDE DEF row
<1>6. Of(queueRows', bot) = {r \in RowsAt(bot, lo, s) : r.idx > lo + n - MaxSize} \cup {row}
  BY <1>1, <1>4, <1>5 DEF Of, Key
<1>7. \A k \in 1 .. n : RowAt(bot, lo, s, k) = RowAt(bot, lo, t, k) /\ RowAt(bot, lo, t, k).idx = lo + k - 1
  BY <1>2, <1>3 DEF RowAt
<1> HIDE DEF t
<1>8. PICK d \in 0 .. n : d = IF n + 1 <= MaxSize THEN 0 ELSE n + 1 - MaxSize
  BY <1>2
<1>9. \A k \in 1 .. n : lo + k - 1 > lo + n - MaxSize <=> k >= d + 1
  BY <1>2, <1>8
<1>10. Of(queueRows', bot) = {RowAt(bot, lo, t, k) : k \in d + 1 .. n + 1}
  <2>1. {r \in RowsAt(bot, lo, s) : r.idx > lo + n - MaxSize} = {RowAt(bot, lo, t, k) : k \in d + 1 .. n}
    <3>1. \A k \in d + 1 .. n : k \in 1 .. n BY <1>2
    <3>2. \A k \in 1 .. n : k >= d + 1 => k \in d + 1 .. n BY <1>2
    <3> HIDE DEF n
    <3>3. RowsAt(bot, lo, s) = {RowAt(bot, lo, t, k) : k \in 1 .. n} BY <1>7 DEF RowsAt, n
    <3> QED BY <1>7, <1>9, <3>1, <3>2, <3>3
  <2>2. d + 1 .. n + 1 = (d + 1 .. n) \cup {n + 1} BY <1>2
  <2> HIDE DEF n
  <2> QED BY <1>5, <1>6, <2>1, <2>2
<1>11. d \in 0 .. Len(t) BY <1>2, <1>3
<1>12. Of(queueRows', bot) = RowsAt(bot, lo + d, SubSeq(t, d + 1, n + 1)) /\ SubSeq(t, d + 1, n + 1) \in Seq(Entries)
  BY <1>3, <1>10, <1>11, RowsFrom
<1>13. lo + d \in Nat BY <1>2
<1>14. Fifo!Newest(t) = SubSeq(t, d + 1, n + 1)
  <2>1. CASE n + 1 <= MaxSize
    <3>1. d = 0 BY <1>8, <2>1
    <3>2. SubSeq(t, 1, Len(t)) = t BY <1>3
    <3> QED BY <1>3, <2>1, <3>1, <3>2 DEF Fifo!Newest
  <2>2. CASE ~(n + 1 <= MaxSize)
    BY <1>2, <1>3, <1>8, <2>2 DEF Fifo!Newest
  <2> QED BY <2>1, <2>2
<1>15. Values(bot) = s BY <1>1, QueueReads
<1>16. Values(bot)' = SubSeq(t, d + 1, n + 1) BY <1>12, <1>13, QueueReadsNext
<1>17. QueueHolds(bot, queueRows') BY <1>12, <1>13 DEF QueueHolds
<1> QED BY <1>14, <1>15, <1>16, <1>17 DEF t

LEMMA DequeueHolds ==
  ASSUME NEW bot \in Bots, QueueHolds(bot, queueRows), Dequeue(bot)
  PROVE  /\ QueueHolds(bot, queueRows')
         /\ Values(bot) # <<>> /\ Values(bot)' = Tail(Values(bot))
<1>1. PICK lo \in Nat, s \in Seq(Entries) : Of(queueRows, bot) = RowsAt(bot, lo, s)
  BY DEF QueueHolds
<1>2. Len(s) \in Nat BY LenProperties
<1>3. PICK first \in RowsAt(bot, lo, s) :
        (\A r \in RowsAt(bot, lo, s) : first.idx <= r.idx) /\ queueRows' = queueRows \ {first}
  BY <1>1 DEF Dequeue
<1>4. PICK f \in 1 .. Len(s) : first = RowAt(bot, lo, s, f) BY DEF RowsAt
<1>5. 1 \in 1 .. Len(s) BY <1>2
<1>6. f = 1
  <2>1. RowAt(bot, lo, s, 1) \in RowsAt(bot, lo, s) BY <1>5 DEF RowsAt
  <2>2. first.idx <= RowAt(bot, lo, s, 1).idx BY <1>3, <2>1
  <2>3. first.idx = lo + f - 1 /\ RowAt(bot, lo, s, 1).idx = lo + 1 - 1 BY <1>2, <1>4, QueueRowFields
  <2> QED BY <1>2, <2>2, <2>3
<1>7. \A k \in 1 .. Len(s) : RowAt(bot, lo, s, k) = first => k = 1
  <2> TAKE k \in 1 .. Len(s)
  <2>1. RowAt(bot, lo, s, k).idx = lo + k - 1 /\ first.idx = lo + 1 - 1
    BY <1>2, <1>4, <1>6, QueueRowFields
  <2> QED BY <1>2, <2>1
<1>8. Of(queueRows', bot) = RowsAt(bot, lo, s) \ {first}
  BY <1>1, <1>3 DEF Of
<1>0. PICK d \in 0 .. Len(s) : d = 1 BY <1>2
<1>9. \A k \in 1 .. Len(s) : k # 1 <=> k \in d + 1 .. Len(s) BY <1>0, <1>2
<1>10. d + 1 .. Len(s) \subseteq 1 .. Len(s) BY <1>0, <1>2
<1>11. Of(queueRows', bot) = {RowAt(bot, lo, s, k) : k \in d + 1 .. Len(s)}
  BY <1>4, <1>6, <1>7, <1>8, <1>9, <1>10 DEF RowsAt
<1>12. lo + d \in Nat OBVIOUS
<1>13. Of(queueRows', bot) = RowsAt(bot, lo + d, SubSeq(s, d + 1, Len(s))) /\ SubSeq(s, d + 1, Len(s)) \in Seq(Entries)
  <2>1. /\ SubSeq(s, d + 1, Len(s)) \in Seq(Entries)
        /\ RowsAt(bot, lo + d, SubSeq(s, d + 1, Len(s))) = {RowAt(bot, lo, s, k) : k \in d + 1 .. Len(s)}
    <3>1. d \in 0 .. Len(s) OBVIOUS
    <3> QED BY <3>1, RowsFrom, SMTT(60)
  <2> QED BY <1>11, <2>1
<1>14. s # <<>> BY <1>2
<1>15. Tail(s) = SubSeq(s, d + 1, Len(s)) BY <1>0, <1>14
<1>16. Values(bot) = s BY <1>1, QueueReads
<1>17. Values(bot)' = SubSeq(s, d + 1, Len(s)) BY <1>12, <1>13, QueueReadsNext
<1>18. QueueHolds(bot, queueRows') BY <1>12, <1>13 DEF QueueHolds
<1> QED BY <1>14, <1>15, <1>16, <1>17, <1>18

LEMMA OthersHold ==
  ASSUME NEW bot, QueueHolds(bot, queueRows), Of(queueRows', bot) = Of(queueRows, bot)
  PROVE  QueueHolds(bot, queueRows') /\ Values(bot)' = Values(bot)
BY DEF QueueHolds, Values, Of

(* Every step of the adapter is one of the bounded queues', or none.       *)
LEMMA QueuesStep ==
  ASSUME QueuesInv, [ChatNext]_chatVars
  PROVE  QueuesInv' /\ [Fifo!FifoNext]_([bot \in Bots |-> Values(bot)])
<1>1. CASE UNCHANGED queueRows
  <2>1. \A bot \in Bots : Values(bot)' = Values(bot) BY <1>1 DEF Values, Of
  <2>2. QueuesInv' BY <1>1 DEF QueuesInv, QueueHolds, Of
  <2> QED BY <2>1, <2>2
<1>2. ASSUME NEW bot \in Bots, Dequeue(bot)
      PROVE  QueuesInv' /\ Fifo!FifoNext
  <2>1. QueueHolds(bot, queueRows') /\ Values(bot) # <<>> /\ Values(bot)' = Tail(Values(bot))
    BY <1>2, DequeueHolds DEF QueuesInv
  <2>2. ASSUME NEW other \in Bots, other # bot
        PROVE  QueueHolds(other, queueRows') /\ Values(other)' = Values(other)
    <3>1. Of(queueRows', other) = Of(queueRows, other)
      BY <1>2, <2>2 DEF Dequeue, Of, Key
    <3> QED BY <3>1, OthersHold DEF QueuesInv
  <2>3. \A r \in queueRows' : r.key \in Bots BY <1>2 DEF Dequeue, QueuesInv
  <2>4. QueuesInv' BY <2>1, <2>2, <2>3 DEF QueuesInv
  <2>5. Fifo!Take(bot) BY <2>1, <2>2 DEF Fifo!Take
  <2> QED BY <2>4, <2>5 DEF Fifo!FifoNext
<1>3. ASSUME NEW bot \in Bots, NEW message \in Entries, Enqueue(bot, message)
      PROVE  QueuesInv' /\ Fifo!FifoNext
  <2>1. QueueHolds(bot, queueRows') /\ Values(bot)' = Fifo!Newest(Append(Values(bot), message))
    BY <1>3, EnqueueHolds DEF QueuesInv
  <2>2. ASSUME NEW other \in Bots, other # bot
        PROVE  QueueHolds(other, queueRows') /\ Values(other)' = Values(other)
    <3>1. Of(queueRows', other) = Of(queueRows, other)
      BY <1>3, <2>2 DEF Enqueue, Of, Key
    <3> QED BY <3>1, OthersHold DEF QueuesInv
  <2>3. \A r \in queueRows' : r.key \in Bots BY <1>3 DEF Enqueue, QueuesInv, Key
  <2>4. QueuesInv' BY <2>1, <2>2, <2>3 DEF QueuesInv
  <2>5. Fifo!Put(bot) BY <2>1, <2>2 DEF Fifo!Put
  <2> QED BY <2>4, <2>5 DEF Fifo!FifoNext
<1>4. LocksNext => UNCHANGED queueRows
  BY DEF LocksNext, ForceReleaseLock, AcquireLock, ReleaseLock, ExtendLock, Cleanup, LocksTick
<1>5. SeenNext => UNCHANGED queueRows
  BY DEF SeenNext, SetIfNotExists, Cleanup, SeenTick
<1>6. UNCHANGED chatVars => UNCHANGED queueRows BY DEF chatVars
<1> QED BY <1>1, <1>2, <1>3, <1>4, <1>5, <1>6 DEF ChatNext, QueueNext

LEMMA QueuesStart ==
  ASSUME ChatInit
  PROVE  QueuesInv /\ Fifo!FifoInit
<1>1. \A bot \in Bots : Of(queueRows, bot) = RowsAt(bot, 0, <<>>)
  BY DEF ChatInit, Of, RowsAt
<1>2. <<>> \in Seq(Entries) OBVIOUS
<1>3. QueuesInv BY <1>1, <1>2 DEF QueuesInv, QueueHolds, ChatInit
<1>4. \A bot \in Bots : Values(bot) = <<>> BY <1>1, <1>2, QueueReads
<1> QED BY <1>3, <1>4 DEF Fifo!FifoInit

(* Each bot's queue is a bounded FIFO, for any bots, any entries, any size *)
(* and any number of calls: the rows of the table implement it.            *)
THEOREM QueuesKept == ChatSpec => QueuesAreFifo
<1>1. ChatInit => QueuesInv /\ Fifo!FifoInit BY QueuesStart
<1>2. QueuesInv /\ [ChatNext]_chatVars => QueuesInv' /\ [Fifo!FifoNext]_([bot \in Bots |-> Values(bot)])
  BY QueuesStep
<1> QED BY <1>1, <1>2, PTL DEF ChatSpec, QueuesAreFifo, Fifo!FifoSpec

-----------------------------------------------------------------------------
(***************************************************************************)
(* Links between agents.                                                   *)
(***************************************************************************)

RoomsOf(g) == {s \in open : Owner(s) = g}

FirstSeats(g, n) == {<<g, i>> : i \in 1 .. n}

(* The sessions of a group are numbered in the order of their creation,    *)
(* without a gap.                                                          *)
RoomsInOrder == \A g \in Peers : \E n \in Nat : RoomsOf(g) = FirstSeats(g, n)

MailIsQueue ==
  /\ mail \in Seq([src : Seats, to : Peers, re : Nat, at : {"out", "held", "in", "gone"},
                   dest : Seats \cup {Nothing}])
  /\ arrived \in Seq(Nat)

(* What LinksTypeOK says of groups, links and sessions, and of messages.   *)
EdgesTyped ==
  /\ life \in [Peers -> {"new", "live", "deleted"}]
  /\ linked \subseteq Edges /\ gated \subseteq Edges
  /\ open \subseteq Seats /\ \A s \in open : Owner(s) \in LivePeers
  /\ \A e \in linked : {e[1], e[2]} \subseteq LivePeers
  /\ \A s \in Seats : known[s] # Off => s \in open
  /\ known \in [Seats -> (SUBSET Peers) \cup {Off}]
  /\ changes \in 0 .. MaxChanges

MessageOK(m) ==
  /\ mail[m].src \in Seats /\ mail[m].to \in Peers
  /\ mail[m].re \in 0 .. m - 1
  /\ mail[m].at \in {"out", "held", "in", "gone"}
  /\ mail[m].dest \in IF mail[m].at = "in" THEN Seats ELSE {Nothing}

MailTyped ==
  /\ Len(mail) <= MaxMail
  /\ \A m \in DOMAIN mail : MessageOK(m)
  /\ {arrived[i] : i \in DOMAIN arrived} = {m \in DOMAIN mail : mail[m].at = "in"}

EdgesInv == EdgesTyped /\ RoomsInOrder /\ NamesAreLinks

MailInv == MailTyped /\ MailIsQueue /\ RightAgent

LinksInv == EdgesInv /\ MailInv

LinkBoundsOK ==
  /\ Seats \subseteq Peers \X (Nat \ {0}) /\ \A g \in Peers : <<g, 1>> \in Seats
  /\ MaxMail \in Nat /\ MaxChanges \in Nat

LEMMA LinkBounds == LinkBoundsOK
BY LinkConstants DEF LinkBoundsOK

LEMMA LinksTyped == EdgesTyped /\ MailTyped <=> LinksTypeOK
BY DEF EdgesTyped, MailTyped, LinksTypeOK, MessageOK

-----------------------------------------------------------------------------
(* The sessions of a group. *)

LEMMA FirstSeatsCount ==
  ASSUME NEW g, NEW n \in Nat
  PROVE  Cardinality(FirstSeats(g, n)) = n
<1> DEFINE f == [i \in 1 .. n |-> <<g, i>>]
<1>1. f \in Bijection(1 .. n, FirstSeats(g, n))
  BY DEF Bijection, Injection, Surjection, IsInjective, FirstSeats
<1> QED
  BY <1>1, FS_CountingElements DEF ExistsBijection

(* Another session of a group takes the place after the last one.          *)
LEMMA NextSeat ==
  ASSUME RoomsInOrder, NEW g \in Peers
  PROVE  \E n \in Nat : /\ RoomsOf(g) = FirstSeats(g, n)
                        /\ Next1(g) = <<g, n + 1>>
                        /\ RoomsOf(g) \cup {Next1(g)} = FirstSeats(g, n + 1)
<1>1. PICK n \in Nat : RoomsOf(g) = FirstSeats(g, n)
  BY DEF RoomsInOrder
<1>2. Next1(g) = <<g, n + 1>>
  BY <1>1, FirstSeatsCount DEF Next1, RoomsOf
<1>3. FirstSeats(g, n) \cup {<<g, n + 1>>} = FirstSeats(g, n + 1)
  <2>1. 1 .. (n + 1) = (1 .. n) \cup {n + 1}
    OBVIOUS
  <2> QED
    BY <2>1 DEF FirstSeats
<1> QED
  BY <1>1, <1>2, <1>3

LEMMA RoomsGrow ==
  ASSUME EdgesInv, NEW g \in LivePeers, Next1(g) \in Seats,
         open' = open \cup {Next1(g)}, UNCHANGED <<edgeVars, known, changes>>
  PROVE  EdgesInv'
<1>1. g \in Peers /\ Owner(Next1(g)) = g
  BY DEF LivePeers, Next1, Owner
<1>2. UNCHANGED <<life, linked, gated, known, changes>> /\ LivePeers' = LivePeers
  BY DEF edgeVars, LivePeers
<1>3. EdgesTyped'
  BY <1>1, <1>2 DEF EdgesInv, EdgesTyped
<1>4. RoomsInOrder'
  <2> SUFFICES ASSUME NEW h \in Peers PROVE \E n \in Nat : RoomsOf(h)' = FirstSeats(h, n)
    BY DEF RoomsInOrder, FirstSeats
  <2>1. CASE h = g
    <3>1. RoomsOf(h)' = RoomsOf(g) \cup {Next1(g)}
      BY <1>1, <2>1 DEF RoomsOf
    <3> QED
      BY <1>1, <2>1, <3>1, NextSeat DEF EdgesInv
  <2>2. CASE h # g
    <3>1. RoomsOf(h)' = RoomsOf(h)
      BY <1>1, <2>2 DEF RoomsOf
    <3> QED
      BY <3>1 DEF EdgesInv, RoomsInOrder
  <2> QED
    BY <2>1, <2>2
<1>5. NamesAreLinks'
  <2>1. \A s \in Up' : s \in Up
    BY <1>2 DEF Up, EdgesInv, EdgesTyped
  <2> QED
    BY <1>2, <2>1 DEF NamesAreLinks, EdgesInv
<1> QED
  BY <1>3, <1>4, <1>5 DEF EdgesInv

(* The newest session of a group that has one is its last.                 *)
LEMMA NewestIsLast ==
  ASSUME RoomsInOrder, NEW g \in Peers, \E s \in open : Owner(s) = g
  PROVE  NewestOf(g) \in open /\ Owner(NewestOf(g)) = g
<1>1. PICK n \in Nat : RoomsOf(g) = FirstSeats(g, n)
  BY DEF RoomsInOrder
<1>2. PICK s \in open : Owner(s) = g
  OBVIOUS
<1>3. s \in RoomsOf(g)
  BY <1>2 DEF RoomsOf
<1>4. n \in 1 .. n
  BY <1>1, <1>3 DEF FirstSeats
<1>5. <<g, n>> \in RoomsOf(g)
  BY <1>1, <1>4 DEF FirstSeats
<1>6. \A t \in open : Owner(t) = g => t[2] <= n
  BY <1>1 DEF FirstSeats, RoomsOf
<1>7. \E r \in open : Owner(r) = g /\ \A t \in open : Owner(t) = g => t[2] <= r[2]
  BY <1>5, <1>6 DEF RoomsOf
<1> QED
  BY <1>7 DEF NewestOf

(* A message that is routed goes to a session of the group it is addressed *)
(* to; what asked gets the answer.                                         *)
LEMMA TargetRight ==
  ASSUME EdgesInv, NEW m, mail[m].to \in LivePeers
  PROVE  /\ Target(m) \in Seats /\ Owner(Target(m)) = mail[m].to
         /\ Target(m) \in open \/ Target(m) = Next1(mail[m].to)
         /\ mail[m].re # 0 =>
              LET asker == mail[mail[m].re].src IN
              asker \in open /\ Owner(asker) = mail[m].to => Target(m) = asker
<1> DEFINE g == mail[m].to
<1>1. g \in Peers
  BY DEF LivePeers
<1>2. CASE Candidates(m) # {}
  <2>1. Target(m) \in Candidates(m)
    BY <1>2 DEF Target
  <2>2. Target(m) \in open /\ Owner(Target(m)) = g /\ Target(m) = Origin(m)
    BY <2>1 DEF Candidates
  <2>3. mail[m].re # 0 => Origin(m) = mail[mail[m].re].src
    BY DEF Origin
  <2> QED
    BY <2>2, <2>3 DEF EdgesInv, EdgesTyped
<1>3. CASE Candidates(m) = {}
  <2>1. mail[m].re # 0 =>
          LET asker == mail[mail[m].re].src IN ~ (asker \in open /\ Owner(asker) = g)
    BY <1>3 DEF Candidates, Origin
  <2>2. CASE \E s \in open : Owner(s) = g
    <3>1. Target(m) = NewestOf(g)
      BY <1>3, <2>2 DEF Target
    <3>2. Target(m) \in open /\ Owner(Target(m)) = g
      BY <1>1, <2>2, <3>1, NewestIsLast DEF EdgesInv
    <3> QED
      BY <2>1, <3>2 DEF EdgesInv, EdgesTyped
  <2>3. CASE ~ \E s \in open : Owner(s) = g
    <3>1. Target(m) = Next1(g)
      BY <1>3, <2>3 DEF Target
    <3>2. PICK n \in Nat : /\ RoomsOf(g) = FirstSeats(g, n)
                           /\ Next1(g) = <<g, n + 1>>
      BY <1>1, NextSeat DEF EdgesInv
    <3>3. n = 0
      <4>1. n # 0 => <<g, 1>> \in FirstSeats(g, n)
        BY <3>2 DEF FirstSeats
      <4> QED
        BY <2>3, <3>2, <4>1 DEF RoomsOf
    <3>4. Next1(g) = <<g, 1>>
      BY <3>2, <3>3
    <3> QED
      BY <1>1, <2>1, <3>1, <3>4, LinkBounds DEF LinkBoundsOK, Owner
  <2> QED
    BY <2>2, <2>3
<1> QED
  BY <1>2, <1>3

-----------------------------------------------------------------------------
(* The groups, their links and their sessions. *)

LEMMA LinksInitially == LinksInit => LinksInv
<1> SUFFICES ASSUME LinksInit PROVE LinksInv
  OBVIOUS
<1> USE LinkBounds DEF LinkBoundsOK
<1>1. /\ life = [g \in Peers |-> IF g \in Founders THEN "live" ELSE "new"]
      /\ linked = {} /\ gated = {} /\ open = {<<g, 1>> : g \in LivePeers}
      /\ known = [s \in Seats |-> Off] /\ mail = <<>> /\ arrived = <<>> /\ changes = 0
  BY DEF LinksInit
<1>2. EdgesTyped
  <2>1. ASSUME NEW s \in open
        PROVE  s \in Seats /\ Owner(s) \in LivePeers
    <3>1. PICK g \in LivePeers : s = <<g, 1>>
      BY <1>1
    <3>2. g \in Founders
      BY <1>1 DEF LivePeers
    <3> QED
      BY <3>1, <3>2, LinkConstants DEF Owner
  <2> QED
    BY <1>1, <2>1 DEF EdgesTyped
<1>3. RoomsInOrder
  <2> SUFFICES ASSUME NEW g \in Peers PROVE \E n \in Nat : RoomsOf(g) = FirstSeats(g, n)
    BY DEF RoomsInOrder
  <2>1. CASE g \in LivePeers
    <3>1. RoomsOf(g) = {<<g, 1>>}
      BY <1>1, <2>1 DEF RoomsOf, Owner
    <3>2. 1 .. 1 = {1}
      OBVIOUS
    <3>3. FirstSeats(g, 1) = {<<g, 1>>}
      BY <3>2 DEF FirstSeats
    <3> QED
      BY <3>1, <3>3
  <2>2. CASE g \notin LivePeers
    <3>1. RoomsOf(g) = {}
      BY <1>1, <2>2 DEF RoomsOf, Owner
    <3>2. FirstSeats(g, 0) = {}
      BY DEF FirstSeats
    <3> QED
      BY <3>1, <3>2
  <2> QED
    BY <2>1, <2>2
<1>4. NamesAreLinks
  BY <1>1, <1>2 DEF NamesAreLinks, Up, EdgesTyped
<1>5. MailInv
  BY <1>1 DEF MailInv, MailTyped, MailIsQueue, RightAgent
<1> QED
  BY <1>2, <1>3, <1>4, <1>5 DEF LinksInv, EdgesInv

LEMMA RoomsStay ==
  ASSUME RoomsInOrder, open' = open
  PROVE  RoomsInOrder'
BY DEF RoomsInOrder, RoomsOf, FirstSeats

LEMMA EdgesFrame ==
  ASSUME EdgesInv, UNCHANGED <<life, linked, gated, open, known, changes>>
  PROVE  EdgesInv'
<1>1. EdgesTyped'
  BY DEF EdgesInv, EdgesTyped, LivePeers
<1>2. NamesAreLinks'
  BY DEF EdgesInv, NamesAreLinks, Up
<1> QED
  BY <1>1, <1>2, RoomsStay DEF EdgesInv

LEMMA RunInv ==
  ASSUME EdgesInv, NEW s \in Seats, Boot(s) \/ Exit(s)
  PROVE  EdgesInv'
<1>1. /\ UNCHANGED <<life, linked, gated, open, changes>>
      /\ s \in open
      /\ known' = [known EXCEPT ![s] = LinksOf(Owner(s))] \/ known' = [known EXCEPT ![s] = Off]
  BY DEF Boot, Exit, edgeVars, Up
<1>2. LinksOf(Owner(s)) \in SUBSET Peers /\ \A h \in LinksOf(Owner(s)) : <<Owner(s), h>> \in linked
  BY DEF LinksOf, LivePeers
<1>3. EdgesTyped'
  BY <1>1, <1>2 DEF EdgesInv, EdgesTyped, LivePeers
<1>4. NamesAreLinks'
  BY <1>1, <1>2 DEF EdgesInv, EdgesTyped, NamesAreLinks, Up
<1> QED
  BY <1>1, <1>3, <1>4, RoomsStay DEF EdgesInv

(* The containers of a group whose rows have changed know what is left.    *)
LEMMA ProjectInv ==
  ASSUME EdgesInv, NEW e \in Edges, NEW links \in SUBSET Edges,
         \A f \in links : {f[1], f[2]} \subseteq LivePeers,
         \A f \in Edges : f[1] # e[1] /\ f \in linked => f \in links,
         linked' = links, Project(e[1], links), changes' \in 0 .. MaxChanges,
         UNCHANGED <<life, gated, open>>
  PROVE  EdgesInv'
<1>1. known' = [s \in Seats |->
        IF s \in Up /\ Owner(s) = e[1] THEN {h \in LivePeers : <<e[1], h>> \in links} ELSE known[s]]
  BY DEF Project
<1>2. {h \in LivePeers : <<e[1], h>> \in links} \in SUBSET Peers
  BY DEF LivePeers
<1>3. EdgesTyped'
  BY <1>1, <1>2 DEF EdgesInv, EdgesTyped, LivePeers, Up
<1>4. NamesAreLinks'
  <2> SUFFICES ASSUME NEW s \in Up', NEW h \in known'[s]
               PROVE  <<Owner(s), h>> \in links \/ life[h] = "deleted"
    BY DEF NamesAreLinks
  <2>1. s \in Seats /\ s \in open /\ known'[s] # Off
    BY DEF Up, EdgesInv, EdgesTyped
  <2>2. CASE s \in Up /\ Owner(s) = e[1]
    BY <1>1, <2>1, <2>2
  <2>3. CASE ~ (s \in Up /\ Owner(s) = e[1])
    <3>1. known'[s] = known[s] /\ s \in Up
      BY <1>1, <2>1, <2>3 DEF Up
    <3>2. <<Owner(s), h>> \in linked \/ life[h] = "deleted"
      BY <3>1 DEF EdgesInv, NamesAreLinks
    <3>3. <<Owner(s), h>> \in linked => <<Owner(s), h>> \in links
      BY <2>3, <3>1 DEF EdgesInv, EdgesTyped
    <3> QED
      BY <3>2, <3>3
  <2> QED
    BY <2>2, <2>3
<1> QED
  BY <1>3, <1>4, RoomsStay DEF EdgesInv

LEMMA OperatorInv ==
  ASSUME EdgesInv, NEW e \in Edges, LinkAdd(e) \/ LinkRemove(e) \/ PolicySet(e) \/ PolicyRemove(e)
  PROVE  EdgesInv'
<1>1. changes' \in 0 .. MaxChanges /\ open' = open
  BY LinkBounds DEF LinkBoundsOK, LinkAdd, LinkRemove, PolicySet, PolicyRemove, Change, EdgesInv,
                    EdgesTyped, seatVars
<1>2. CASE LinkAdd(e)
  <2>1. linked \cup {e} \in SUBSET Edges
    BY DEF EdgesInv, EdgesTyped
  <2> QED
    BY <1>1, <1>2, <2>1, ProjectInv DEF LinkAdd, EdgesInv, EdgesTyped
<1>3. CASE LinkRemove(e)
  <2>1. linked \ {e} \in SUBSET Edges
    BY DEF EdgesInv, EdgesTyped
  <2> QED
    BY <1>1, <1>3, <2>1, ProjectInv DEF LinkRemove, EdgesInv, EdgesTyped
<1>4. CASE PolicySet(e) \/ PolicyRemove(e)
  <2>1. gated' \subseteq Edges /\ UNCHANGED <<life, linked, known>>
    BY <1>4 DEF PolicySet, PolicyRemove, seatVars, EdgesInv, EdgesTyped
  <2>2. EdgesTyped'
    BY <1>1, <2>1 DEF EdgesInv, EdgesTyped, LivePeers
  <2>3. NamesAreLinks'
    BY <1>1, <2>1 DEF EdgesInv, NamesAreLinks, Up
  <2> QED
    BY <1>1, <2>2, <2>3, RoomsStay DEF EdgesInv
<1> QED
  BY <1>2, <1>3, <1>4

LEMMA CreateInv ==
  ASSUME EdgesInv, NEW s \in Seats, NEW g \in Peers, CreateAgent(s, g)
  PROVE  EdgesInv'
<1>1. /\ s \in open /\ life[g] = "new" /\ changes' \in 0 .. MaxChanges
      /\ life' = [life EXCEPT ![g] = "live"]
      /\ linked' = linked \cup {<<Owner(s), g>>, <<g, Owner(s)>>}
      /\ known' = [known EXCEPT ![s] = IF s \in Up THEN LinksOf(Owner(s)) \cup {g} ELSE Off]
      /\ UNCHANGED <<gated, open>>
  BY LinkBounds DEF LinkBoundsOK, CreateAgent, Change, EdgesInv, EdgesTyped
<1>2. Owner(s) \in LivePeers /\ g \notin LivePeers /\ Owner(s) \in Peers
  BY <1>1 DEF EdgesInv, EdgesTyped, LivePeers
<1>3. LivePeers' = LivePeers \cup {g}
  BY <1>1 DEF LivePeers, EdgesInv, EdgesTyped
<1>4. <<Owner(s), g>> \in Edges /\ <<g, Owner(s)>> \in Edges
  BY <1>2 DEF Edges
<1>5. LinksOf(Owner(s)) \cup {g} \in SUBSET Peers /\ Off \in (SUBSET Peers) \cup {Off}
  BY DEF LinksOf, LivePeers
<1>6. EdgesTyped'
  <2>1. life' \in [Peers -> {"new", "live", "deleted"}]
    BY <1>1 DEF EdgesInv, EdgesTyped
  <2>2. linked' \subseteq Edges /\ \A e \in linked' : {e[1], e[2]} \subseteq LivePeers'
    BY <1>1, <1>2, <1>3, <1>4 DEF EdgesInv, EdgesTyped
  <2>3. /\ known' \in [Seats -> (SUBSET Peers) \cup {Off}]
        /\ \A r \in Seats : known'[r] # Off => r \in open
    BY <1>1, <1>5 DEF EdgesInv, EdgesTyped
  <2> QED
    BY <1>1, <1>3, <2>1, <2>2, <2>3 DEF EdgesInv, EdgesTyped
<1>7. NamesAreLinks'
  <2> SUFFICES ASSUME NEW r \in Up', NEW h \in known'[r]
               PROVE  <<Owner(r), h>> \in linked' \/ life'[h] = "deleted"
    BY DEF NamesAreLinks
  <2>1. r \in Seats /\ r \in open /\ known'[r] # Off
    BY <1>1 DEF Up, EdgesInv, EdgesTyped
  <2>2. CASE r = s
    <3>1. s \in Up
      BY <1>1, <2>1, <2>2 DEF EdgesInv, EdgesTyped
    <3>2. h \in LinksOf(Owner(s)) \cup {g}
      BY <1>1, <2>1, <2>2, <3>1 DEF EdgesInv, EdgesTyped
    <3> QED
      BY <1>1, <2>2, <3>2 DEF LinksOf
  <2>3. CASE r # s
    <3>1. known'[r] = known[r] /\ r \in Up
      BY <1>1, <2>1, <2>3 DEF Up, EdgesInv, EdgesTyped
    <3>2. <<Owner(r), h>> \in linked \/ life[h] = "deleted"
      BY <3>1 DEF EdgesInv, NamesAreLinks
    <3>3. h # g => life'[h] = life[h]
      BY <1>1 DEF EdgesInv, EdgesTyped
    <3> QED
      BY <1>1, <3>2, <3>3
  <2> QED
    BY <2>2, <2>3
<1> QED
  BY <1>1, <1>6, <1>7, RoomsStay DEF EdgesInv

LEMMA DeleteInv ==
  ASSUME EdgesInv, NEW g \in Peers, DeleteGroup(g)
  PROVE  EdgesInv'
<1>1. /\ changes' \in 0 .. MaxChanges /\ gated' = gated
      /\ life' = [life EXCEPT ![g] = "deleted"]
      /\ linked' = {e \in linked : g \notin {e[1], e[2]}}
      /\ open' = {s \in open : Owner(s) # g}
      /\ known' = [s \in Seats |-> IF Owner(s) = g THEN Off ELSE known[s]]
  BY LinkBounds DEF LinkBoundsOK, DeleteGroup, WithoutGroup, Change, EdgesInv, EdgesTyped
<1>2. LivePeers' = LivePeers \ {g}
  BY <1>1 DEF LivePeers, EdgesInv, EdgesTyped
<1>3. EdgesTyped'
  <2>1. life' \in [Peers -> {"new", "live", "deleted"}]
    BY <1>1 DEF EdgesInv, EdgesTyped
  <2>2. linked' \subseteq Edges /\ \A e \in linked' : {e[1], e[2]} \subseteq LivePeers'
    BY <1>1, <1>2 DEF EdgesInv, EdgesTyped
  <2>3. /\ known' \in [Seats -> (SUBSET Peers) \cup {Off}]
        /\ \A r \in Seats : known'[r] # Off => r \in open'
    BY <1>1 DEF EdgesInv, EdgesTyped
  <2> QED
    BY <1>1, <1>2, <2>1, <2>2, <2>3 DEF EdgesInv, EdgesTyped
<1>4. RoomsInOrder'
  <2> SUFFICES ASSUME NEW h \in Peers PROVE \E n \in Nat : RoomsOf(h)' = FirstSeats(h, n)
    BY DEF RoomsInOrder, FirstSeats
  <2>1. CASE h = g
    <3>1. RoomsOf(h)' = {}
      BY <1>1, <2>1 DEF RoomsOf
    <3>2. FirstSeats(h, 0) = {}
      BY DEF FirstSeats
    <3> QED
      BY <3>1, <3>2
  <2>2. CASE h # g
    <3>1. RoomsOf(h)' = RoomsOf(h)
      BY <1>1, <2>2 DEF RoomsOf
    <3> QED
      BY <3>1 DEF EdgesInv, RoomsInOrder
  <2> QED
    BY <2>1, <2>2
<1>5. NamesAreLinks'
  <2> SUFFICES ASSUME NEW r \in Up', NEW h \in known'[r]
               PROVE  <<Owner(r), h>> \in linked' \/ life'[h] = "deleted"
    BY DEF NamesAreLinks
  <2>1. r \in Seats /\ r \in open /\ known'[r] # Off /\ Owner(r) # g
    BY <1>1 DEF Up, EdgesInv, EdgesTyped
  <2>2. known'[r] = known[r] /\ r \in Up
    BY <1>1, <2>1 DEF Up
  <2>3. <<Owner(r), h>> \in linked \/ life[h] = "deleted"
    BY <2>2 DEF EdgesInv, NamesAreLinks
  <2>4. h # g => life'[h] = life[h]
    BY <1>1 DEF EdgesInv, EdgesTyped
  <2>5. h = g => life'[h] = "deleted"
    BY <1>1 DEF EdgesInv, EdgesTyped
  <2> QED
    BY <1>1, <2>1, <2>3, <2>4, <2>5
<1> QED
  BY <1>3, <1>4, <1>5 DEF EdgesInv

-----------------------------------------------------------------------------
(* The messages. *)

LEMMA MailFrame ==
  ASSUME MailInv, UNCHANGED mailVars
  PROVE  MailInv'
BY DEF MailInv, MailTyped, MessageOK, MailIsQueue, RightAgent, mailVars

LEMMA SendInv ==
  ASSUME LinksInv, NEW s \in Seats, NEW g \in Peers, NEW re \in 0 .. MaxMail, Send(s, g, re)
  PROVE  LinksInv'
<1> DEFINE new == [src |-> s, to |-> g, re |-> re, at |-> "out", dest |-> Nothing]
<1> USE LinkBounds DEF LinkBoundsOK, LinksInv, MailInv
<1>1. /\ UNCHANGED <<life, linked, gated, open, known, changes, arrived>>
      /\ Len(mail) < MaxMail /\ mail' = Append(mail, new)
      /\ re = 0 \/ re \in DOMAIN mail
  BY DEF Send, edgeVars, seatVars, Inbox
<1>2. new \in [src : Seats, to : Peers, re : Nat, at : {"out", "held", "in", "gone"},
               dest : Seats \cup {Nothing}]
  OBVIOUS
<1>3. /\ Len(mail) \in Nat /\ DOMAIN mail = 1 .. Len(mail)
      /\ mail' \in Seq([src : Seats, to : Peers, re : Nat, at : {"out", "held", "in", "gone"},
                        dest : Seats \cup {Nothing}])
      /\ Len(mail') = Len(mail) + 1 /\ DOMAIN mail' = 1 .. Len(mail) + 1
      /\ \A m \in DOMAIN mail : mail'[m] = mail[m]
      /\ mail'[Len(mail) + 1] = new
  <2> DEFINE Mails == [src : Seats, to : Peers, re : Nat, at : {"out", "held", "in", "gone"},
                       dest : Seats \cup {Nothing}]
  <2>1. mail \in Seq(Mails) /\ new \in Mails
    BY <1>2 DEF MailIsQueue
  <2> HIDE DEF new, Mails
  <2>2. /\ Len(mail) \in Nat /\ DOMAIN mail = 1 .. Len(mail)
        /\ mail' \in Seq(Mails) /\ Len(mail') = Len(mail) + 1
    BY <1>1, <2>1, AppendProperties
  <2>3. /\ DOMAIN mail' = 1 .. Len(mail) + 1
        /\ \A m \in 1 .. Len(mail) : mail'[m] = mail[m]
        /\ mail'[Len(mail) + 1] = new
    BY <1>1, <2>1, <2>2, AppendProperties
  <2> QED
    BY <2>2, <2>3 DEF Mails
<1>4. \A m \in DOMAIN mail' : m \in DOMAIN mail \/ m = Len(mail) + 1
  BY <1>3
<1>5. MailTyped'
  <2>1. Len(mail') <= MaxMail
    BY <1>1, <1>3
  <2>2. \A m \in DOMAIN mail' : MessageOK(m)'
    <3>1. \A m \in DOMAIN mail : MessageOK(m)'
      BY <1>3 DEF MailTyped, MessageOK
    <3>2. ASSUME NEW m \in Nat, m = Len(mail) + 1 PROVE MessageOK(m)'
      <4>1. mail'[m] = new /\ re \in 0 .. m - 1
        BY <1>1, <1>3, <3>2
      <4> QED
        BY <4>1 DEF MessageOK
    <3> QED
      BY <1>3, <1>4, <3>1, <3>2
  <2>3. {m \in DOMAIN mail' : mail'[m].at = "in"} = {m \in DOMAIN mail : mail[m].at = "in"}
    BY <1>3, <1>4
  <2> QED
    BY <1>1, <2>1, <2>2, <2>3 DEF MailTyped
<1>6. RightAgent'
  <2>1. mail'[Len(mail) + 1].at = "out"
    BY <1>3
  <2>2. \A m \in DOMAIN mail : mail'[m] = mail[m]
    BY <1>3
  <2> HIDE DEF new
  <2> QED
    BY <1>4, <2>1, <2>2 DEF RightAgent
<1> QED
  BY <1>1, <1>3, <1>5, <1>6, EdgesFrame DEF MailIsQueue

(* One message changes its place.                                          *)
LEMMA MoveInv ==
  ASSUME MailInv, NEW m \in DOMAIN mail, NEW at \in {"in", "gone", "held"},
         NEW dest \in Seats \cup {Nothing}, mail[m].at # "in",
         mail' = [mail EXCEPT ![m].at = at, ![m].dest = dest],
         dest \in IF at = "in" THEN Seats ELSE {Nothing},
         at = "in" => Owner(dest) = mail[m].to,
         arrived' = IF at = "in" THEN Append(arrived, m) ELSE arrived
  PROVE  /\ MailInv'
         /\ \A n \in DOMAIN mail : n # m => mail'[n] = mail[n]
         /\ mail'[m].at = at /\ mail'[m].dest = dest
<1> DEFINE Mails == [src : Seats, to : Peers, re : Nat, at : {"out", "held", "in", "gone"},
                     dest : Seats \cup {Nothing}]
<1> USE DEF MailInv
<1>1. mail \in Seq(Mails) /\ Len(mail) \in Nat /\ DOMAIN mail = 1 .. Len(mail)
  BY DEF MailIsQueue
<1>2. mail[m] \in Mails
  <2> HIDE DEF Mails
  <2> QED
    BY <1>1
<1>3. PICK new : new = [mail[m] EXCEPT !.at = at, !.dest = dest]
  OBVIOUS
<1>4. /\ new \in Mails /\ new.at = at /\ new.dest = dest
      /\ new.src = mail[m].src /\ new.to = mail[m].to /\ new.re = mail[m].re
  BY <1>2, <1>3
<1>5. mail' = [mail EXCEPT ![m] = new]
  BY <1>1, <1>3
<1>6. /\ mail' \in Seq(Mails) /\ Len(mail') = Len(mail) /\ DOMAIN mail' = DOMAIN mail
      /\ mail'[m] = new /\ \A n \in DOMAIN mail : n # m => mail'[n] = mail[n]
  <2>1. new \in Mails
    BY <1>4
  <2> HIDE DEF Mails
  <2>2. m \in 1 .. Len(mail)
    BY <1>1
  <2>3. [mail EXCEPT ![m] = new] \in Seq(Mails) /\ Len([mail EXCEPT ![m] = new]) = Len(mail)
    BY <1>1, <2>1, <2>2, ExceptSeq
  <2> QED
    BY <1>1, <1>5, <2>2, <2>3
<1>7. \A n \in DOMAIN mail' : MessageOK(n)'
  BY <1>4, <1>6 DEF MailTyped, MessageOK
<1>8. /\ arrived' \in Seq(Nat)
      /\ {arrived'[i] : i \in DOMAIN arrived'} = {n \in DOMAIN mail' : mail'[n].at = "in"}
  <2>1. CASE at = "in"
    <3>1. arrived \in Seq(Nat) /\ m \in Nat
      BY <1>1 DEF MailIsQueue
    <3>2. /\ arrived' = Append(arrived, m) /\ Len(arrived) \in Nat
          /\ DOMAIN arrived = 1 .. Len(arrived) /\ DOMAIN arrived' = 1 .. Len(arrived) + 1
          /\ \A i \in DOMAIN arrived : arrived'[i] = arrived[i]
          /\ arrived'[Len(arrived) + 1] = m
      BY <2>1, <3>1
    <3>3. {arrived'[i] : i \in DOMAIN arrived'} = {arrived[i] : i \in DOMAIN arrived} \cup {m}
      <4>1. \A i \in DOMAIN arrived' : i \in DOMAIN arrived \/ i = Len(arrived) + 1
        BY <3>2
      <4>2. \A i \in DOMAIN arrived : i \in DOMAIN arrived'
        BY <3>2
      <4>3. Len(arrived) + 1 \in DOMAIN arrived'
        BY <3>2
      <4> QED
        BY <3>2, <4>1, <4>2, <4>3
    <3>4. {n \in DOMAIN mail' : mail'[n].at = "in"} = {n \in DOMAIN mail : mail[n].at = "in"} \cup {m}
      BY <1>4, <1>6, <2>1
    <3> QED
      BY <3>1, <3>2, <3>3, <3>4 DEF MailTyped
  <2>2. CASE at # "in"
    <3>1. {n \in DOMAIN mail' : mail'[n].at = "in"} = {n \in DOMAIN mail : mail[n].at = "in"}
      BY <1>4, <1>6, <2>2
    <3> QED
      BY <2>2, <3>1 DEF MailTyped, MailIsQueue
  <2> QED
    BY <2>1, <2>2
<1>9. RightAgent'
  BY <1>4, <1>6 DEF RightAgent
<1> QED
  BY <1>4, <1>6, <1>7, <1>8, <1>9 DEF MailTyped, MailIsQueue

(* A message that is not yet in leads nowhere.                             *)
LEMMA SettleInv ==
  ASSUME LinksInv, NEW m \in DOMAIN mail, NEW at \in {"gone", "held"}, mail[m].at # "in",
         Settle(m, at)
  PROVE  /\ LinksInv'
         /\ \A n \in DOMAIN mail : n # m => mail'[n] = mail[n]
         /\ mail'[m].at = at
<1> USE DEF LinksInv
<1>1. mail[m].dest = Nothing
  BY DEF MailInv, MailTyped, MessageOK
<1>2. mail \in Seq([src : Seats, to : Peers, re : Nat, at : {"out", "held", "in", "gone"},
                    dest : Seats \cup {Nothing}])
  BY DEF MailInv, MailIsQueue
<1>3. [mail EXCEPT ![m].at = at] = [mail EXCEPT ![m].at = at, ![m].dest = Nothing]
  BY <1>1, <1>2
<1>4. /\ mail' = [mail EXCEPT ![m].at = at, ![m].dest = Nothing] /\ arrived' = arrived
      /\ UNCHANGED <<life, linked, gated, open, known, changes>>
  BY <1>3 DEF Settle, edgeVars, seatVars
<1> HIDE DEF LinksInv
<1>5. EdgesInv'
  BY <1>4, EdgesFrame DEF LinksInv
<1>6. /\ MailInv' /\ \A n \in DOMAIN mail : n # m => mail'[n] = mail[n]
      /\ mail'[m].at = at
  BY <1>4, MoveInv DEF LinksInv
<1> QED
  BY <1>5, <1>6 DEF LinksInv

LEMMA RouteInv ==
  ASSUME LinksInv, NEW m \in DOMAIN mail, mail[m].at # "in", mail[m].to \in LivePeers, Route(m)
  PROVE  /\ LinksInv'
         /\ \A n \in DOMAIN mail : n # m => mail'[n] = mail[n]
         /\ mail'[m].dest = Target(m)
<1>1. /\ Target(m) \in Seats /\ Owner(Target(m)) = mail[m].to
      /\ Target(m) \in open \/ Target(m) = Next1(mail[m].to)
  BY TargetRight DEF LinksInv
<1>2. EdgesInv'
  <2>1. /\ open' = open \cup {Target(m)} /\ UNCHANGED <<edgeVars, known, changes>>
    BY DEF Route
  <2>2. CASE Target(m) \in open
    <3>1. open' = open
      BY <2>1, <2>2
    <3> QED
      BY <2>1, <3>1, EdgesFrame DEF edgeVars, LinksInv
  <2>3. CASE Target(m) = Next1(mail[m].to)
    BY <1>1, <2>1, <2>3, RoomsGrow DEF LinksInv
  <2> QED
    BY <1>1, <2>2, <2>3
<1>3. /\ mail' = [mail EXCEPT ![m].at = "in", ![m].dest = Target(m)]
      /\ arrived' = Append(arrived, m)
  BY DEF Route
<1>4. /\ MailInv' /\ \A n \in DOMAIN mail : n # m => mail'[n] = mail[n]
      /\ mail'[m].dest = Target(m)
  BY <1>1, <1>3, MoveInv DEF LinksInv
<1> QED
  BY <1>2, <1>4 DEF LinksInv

LEMMA DeleteMailInv ==
  ASSUME MailInv, NEW g \in Peers, DeleteGroup(g)
  PROVE  MailInv' /\ \A m \in DOMAIN mail : mail'[m].at = "in" => mail[m].at = "in"
<1> DEFINE Mails == [src : Seats, to : Peers, re : Nat, at : {"out", "held", "in", "gone"},
                     dest : Seats \cup {Nothing}]
           Lost(m) == mail[m].at = "held" /\ Owner(mail[m].src) = g
           Then(m) == IF Lost(m) THEN [mail[m] EXCEPT !.at = "gone"] ELSE mail[m]
<1> USE DEF MailInv
<1>1. mail \in Seq(Mails) /\ Len(mail) \in Nat /\ DOMAIN mail = 1 .. Len(mail)
  BY DEF MailIsQueue
<1>2. arrived' = arrived /\ mail' = [m \in DOMAIN mail |-> Then(m)]
  BY DEF DeleteGroup
<1>3. \A m \in DOMAIN mail :
        /\ Then(m) \in Mails
        /\ Then(m).src = mail[m].src /\ Then(m).to = mail[m].to /\ Then(m).re = mail[m].re
        /\ Then(m).dest = mail[m].dest
        /\ Then(m).at = IF Lost(m) THEN "gone" ELSE mail[m].at
  <2> TAKE m \in DOMAIN mail
  <2>1. mail[m] \in Mails
    <3> HIDE DEF Mails
    <3> QED
      BY <1>1
  <2>2. CASE Lost(m)
    <3>1. Then(m) = [mail[m] EXCEPT !.at = "gone"]
      BY <2>2
    <3> QED
      BY <2>1, <2>2, <3>1
  <2>3. CASE ~Lost(m)
    BY <2>1, <2>3
  <2> QED
    BY <2>2, <2>3
<1> HIDE DEF Mails, Then
<1>4. /\ mail' \in Seq(Mails) /\ Len(mail') = Len(mail) /\ DOMAIN mail' = DOMAIN mail
      /\ \A m \in DOMAIN mail : mail'[m] = Then(m)
  BY <1>1, <1>2, <1>3
<1>5. \A m \in DOMAIN mail : mail'[m].at = "in" <=> mail[m].at = "in"
  BY <1>3, <1>4
<1>6. \A m \in DOMAIN mail' : MessageOK(m)'
  BY <1>3, <1>4 DEF MailTyped, MessageOK
<1>7. {m \in DOMAIN mail' : mail'[m].at = "in"} = {m \in DOMAIN mail : mail[m].at = "in"}
  <2>1. DOMAIN mail' = DOMAIN mail
    BY <1>4
  <2> QED
    BY <2>1, <1>5, Zenon
<1>8. MailTyped'
  <2>1. Len(mail') <= MaxMail
    BY <1>4 DEF MailTyped
  <2>2. {arrived'[i] : i \in DOMAIN arrived'} = {m \in DOMAIN mail' : mail'[m].at = "in"}
    BY <1>2, <1>7 DEF MailTyped
  <2> QED
    BY <1>6, <2>1, <2>2 DEF MailTyped
<1>9. RightAgent'
  BY <1>3, <1>4, <1>5 DEF RightAgent
<1> QED
  BY <1>2, <1>4, <1>5, <1>8, <1>9 DEF MailIsQueue, Mails

-----------------------------------------------------------------------------
(* Every step. *)

(* What AnswerReturns and EdgeRules say of a message in a step.            *)
Routed(m) ==
  LET asker == mail[mail[m].re].src IN
  Arrives(m) =>
    /\ mail[m].re # 0 /\ asker \in open /\ Owner(asker) = mail[m].to => mail'[m].dest = asker
    /\ mail[m].at = "held" \/ Edge(m) \in linked \ gated

LEMMA NoneArrives ==
  ASSUME \A m \in DOMAIN mail : mail'[m].at = "in" => mail[m].at = "in"
  PROVE  \A m \in DOMAIN mail : Routed(m)
BY DEF Routed, Arrives

LEMMA RouteStep ==
  ASSUME LinksInv, NEW m \in 1 .. MaxMail,
         Deliver(m) \/ Hold(m) \/ Refuse(m) \/ Approve(m) \/ Reject(m)
  PROVE  LinksInv' /\ \A n \in DOMAIN mail : Routed(n)
<1>1. m \in DOMAIN mail /\ mail[m].at \in {"out", "held"}
  BY DEF Deliver, Hold, Refuse, Approve, Reject, InOutbox, Held
<1>2. ASSUME NEW at \in {"gone", "held"}, Settle(m, at)
      PROVE  LinksInv' /\ \A n \in DOMAIN mail : Routed(n)
  <2>1. LinksInv' /\ \A n \in DOMAIN mail : mail'[n].at = "in" => mail[n].at = "in"
    BY <1>1, <1>2, SettleInv
  <2> QED
    BY <2>1, NoneArrives
<1>3. ASSUME Route(m), mail[m].to \in LivePeers,
             mail[m].at = "held" \/ Edge(m) \in linked \ gated
      PROVE  LinksInv' /\ \A n \in DOMAIN mail : Routed(n)
  <2>1. /\ LinksInv' /\ \A n \in DOMAIN mail : n # m => mail'[n] = mail[n]
        /\ mail'[m].dest = Target(m)
    BY <1>1, <1>3, RouteInv
  <2>2. \A n \in DOMAIN mail : n # m => Routed(n)
    BY <2>1 DEF Routed, Arrives
  <2>3. Routed(m)
    BY <1>3, <2>1, TargetRight DEF Routed, LinksInv
  <2> QED
    BY <2>1, <2>2, <2>3
<1>4. CASE Deliver(m)
  BY <1>3, <1>4 DEF Deliver
<1>5. CASE Hold(m) \/ Refuse(m) \/ Reject(m)
  BY <1>2, <1>5 DEF Hold, Refuse, Reject
<1>6. CASE Approve(m)
  <2>1. mail[m].at = "held"
    BY <1>6 DEF Approve, Held
  <2> QED
    BY <1>2, <1>3, <1>6, <2>1 DEF Approve
<1> QED
  BY <1>4, <1>5, <1>6

LEMMA LinksStep ==
  ASSUME LinksInv, [LinksNext]_linkVars
  PROVE  LinksInv' /\ \A m \in DOMAIN mail : Routed(m)
<1>1. ASSUME EdgesInv', UNCHANGED mailVars
      PROVE  LinksInv' /\ \A m \in DOMAIN mail : Routed(m)
  <2>1. \A m \in DOMAIN mail : mail'[m].at = "in" => mail[m].at = "in"
    BY <1>1 DEF mailVars
  <2> QED
    BY <1>1, <2>1, MailFrame, NoneArrives DEF LinksInv
<1>2. ASSUME NEW g \in Peers, OpenSession(g) PROVE EdgesInv' /\ UNCHANGED mailVars
  BY <1>2, RoomsGrow DEF OpenSession, LinksInv
<1>3. ASSUME NEW s \in Seats, Boot(s) \/ Exit(s) PROVE EdgesInv' /\ UNCHANGED mailVars
  <2>1. UNCHANGED mailVars
    BY <1>3 DEF Boot, Exit
  <2> QED
    BY <1>3, <2>1, RunInv DEF LinksInv
<1>4. ASSUME NEW s \in Seats, NEW g \in Peers, CreateAgent(s, g)
      PROVE  EdgesInv' /\ UNCHANGED mailVars
  BY <1>4, CreateInv DEF CreateAgent, LinksInv
<1>5. ASSUME NEW s \in Seats, NEW g \in Peers, NEW re \in 0 .. MaxMail, Send(s, g, re)
      PROVE  LinksInv' /\ \A m \in DOMAIN mail : Routed(m)
  <2>1. LinksInv'
    BY <1>5, SendInv
  <2>2. mail \in Seq([src : Seats, to : Peers, re : Nat, at : {"out", "held", "in", "gone"},
                      dest : Seats \cup {Nothing}])
    BY DEF LinksInv, MailInv, MailIsQueue
  <2>3. \A m \in DOMAIN mail : mail'[m] = mail[m]
    BY <1>5, <2>2 DEF Send
  <2> QED
    BY <2>1, <2>3, NoneArrives
<1>6. ASSUME Operator PROVE LinksInv' /\ \A m \in DOMAIN mail : Routed(m)
  <2>1. ASSUME NEW e \in Edges, LinkAdd(e) \/ LinkRemove(e) \/ PolicySet(e) \/ PolicyRemove(e)
        PROVE  EdgesInv' /\ UNCHANGED mailVars
    <3>1. UNCHANGED mailVars
      BY <2>1 DEF LinkAdd, LinkRemove, PolicySet, PolicyRemove
    <3> QED
      BY <2>1, <3>1, OperatorInv DEF LinksInv
  <2>2. ASSUME NEW g \in Peers, DeleteGroup(g)
        PROVE  LinksInv' /\ \A m \in DOMAIN mail : Routed(m)
    BY <2>2, DeleteInv, DeleteMailInv, NoneArrives DEF LinksInv
  <2> QED
    BY <1>1, <1>6, <2>1, <2>2 DEF Operator
<1>7. CASE UNCHANGED linkVars
  <2>1. UNCHANGED <<life, linked, gated, open, known, changes>> /\ UNCHANGED mailVars
    BY <1>7 DEF linkVars, edgeVars, seatVars
  <2> QED
    BY <1>1, <2>1, EdgesFrame DEF LinksInv
<1>8. CASE LinksNext
  BY <1>1, <1>2, <1>3, <1>4, <1>5, <1>6, <1>8, RouteStep DEF LinksNext
<1> QED
  BY <1>7, <1>8

LEMMA LinksInductive == LinksSpec => []LinksInv
<1>1. LinksInv /\ [LinksNext]_linkVars => LinksInv'
  BY LinksStep
<1> QED
  BY LinksInitially, <1>1, PTL DEF LinksSpec

(* In every reachable state of the links between agents every variable has *)
(* its type: a message that is in has a session, sessions and links belong *)
(* to groups that exist (deleteAgentGroup).                                *)
THEOREM LinksTyping == LinksSpec => []LinksTypeOK
<1>1. LinksInv => LinksTypeOK
  BY LinksTyped DEF LinksInv, EdgesInv, MailInv
<1> QED
  BY <1>1, LinksInductive, PTL

(* A message ends up with the agent it is addressed to, and no container   *)
(* keeps a name whose link an operator has taken away                      *)
(* (resolveTargetSession, writeDestinations).                              *)
THEOREM LinksAreSafe == LinksSpec => []LinksSafe
<1>1. LinksInv => LinksSafe
  BY DEF LinksInv, EdgesInv, MailInv, LinksSafe
<1> QED
  BY <1>1, LinksInductive, PTL

(* An answer goes back to the session that asked, and what arrives has a   *)
(* link that lets it pass or was let pass by a human (routeAgentMessage,   *)
(* applyA2aMessageGate).                                                   *)
THEOREM RoutesAreRight == LinksSpec => RoutedRight
<1>1. LinksInv /\ [LinksNext]_linkVars => [\A m \in DOMAIN mail : Routed(m)]_linkVars
  BY LinksStep
<1>2. LinksSpec => [][\A m \in DOMAIN mail : Routed(m)]_linkVars
  BY <1>1, LinksInductive, PTL DEF LinksSpec
<1>3. [\A m \in DOMAIN mail : Routed(m)]_linkVars =>
        /\ [\A m \in DOMAIN mail :
              LET asker == mail[mail[m].re].src IN
              Arrives(m) /\ mail[m].re # 0 =>
                (asker \in open /\ Owner(asker) = mail[m].to => mail'[m].dest = asker)]_linkVars
        /\ [\A m \in DOMAIN mail :
              Arrives(m) => mail[m].at = "held" \/ Edge(m) \in linked \ gated]_linkVars
  BY DEF Routed
<1> QED
  BY <1>2, <1>3, PTL DEF RoutedRight, AnswerReturns, EdgeRules

-----------------------------------------------------------------------------
(***************************************************************************)
(* The command line.                                                       *)
(***************************************************************************)

(* The command of a call.                                                  *)
Called(c) == Resolve(ask[c].request).verb
Access(c) == Registry[Called(c)].access

(* Dispatches before the last crash of the host, and since.                *)
Before == MaxTries * outages
Since(c) == CASE ask[c].stage \in {"due", "asking"} -> tries[c]
              [] ask[c].stage = "posting"           -> tries[c] + 1
              [] OTHER                              -> MaxTries

CardRows == [call : Ncls, nr : Nat, frame : Requests, was : Scopes, ran : {"no", "now", "yes"}]

CountsTyped ==
  /\ cards \subseteq CardRows
  /\ runs \in [Ncls -> Nat] /\ carded \in [Ncls -> Nat] /\ approved \in [Ncls -> Nat]
  /\ outages \in Nat /\ DOMAIN reply = Ncls

(* What has been let through is the caller's own group, if its scope is.   *)
OwnFrame(was, frame, by) ==
  /\ was # "disabled"
  /\ was = "group" => frame.target = by /\ (OneSpelling => frame.dashed = None)

Untouched(c) == ask[c] = NoAsk /\ runs[c] = 0 /\ carded[c] = 0 /\ approved[c] = 0

Asked(c) == ask[c].stage \in {"asking", "posting"}

(* Cards that a crash left behind after their handler had run.             *)
Stuck(c) == {k \in cards : k.call = c /\ k.ran = "yes"}

(* A call is either not made or a row; it is dispatched by one access, and *)
(* as often as its row came back; what it ran beyond what was approved,    *)
(* and what it may still run so, was paid for by crashes.                  *)
CallOK(c) ==
  /\ client[c] = "idle" => Untouched(c)
  /\ client[c] # "idle" => ask[c] \in Rows /\ ask[c].request \in Orders
  /\ approved[c] <= runs[c]
  /\ runs[c] > 0 => approved[c] > 0 \/ Access(c) = "open"
  /\ Asked(c) \/ carded[c] > 0 \/ approved[c] > 0 => Access(c) = "approval"
  /\ Asked(c) => OwnFrame(ask[c].was, ask[c].frame, ask[c].by) /\ ask[c].frame.verb = Called(c)
  /\ client[c] # "idle" => /\ carded[c] <= Before + Since(c)
                           /\ Access(c) = "open" => runs[c] <= Before + Since(c)

StuckOK(c) ==
  Called(c) \notin Destined /\ Access(c) = "approval" =>
    IsFiniteSet(Stuck(c)) /\ runs[c] + Cardinality(Stuck(c)) <= approved[c] + outages

CardOK(k) ==
  /\ OwnFrame(k.was, k.frame, ask[k.call].by) /\ k.frame.verb = Called(k.call)
  /\ k.ran # "no" => approved[k.call] > 0
  /\ k.ran = "now" => Called(k.call) \in Destined

OwnGroups == OneSpelling => OwnGroupOnly

CommandsInv ==
  /\ CommandsTypeOK /\ CountsTyped
  /\ \A c \in Ncls : CallOK(c) /\ StuckOK(c)
  /\ \A k \in cards : CardOK(k)
  /\ OwnGroups

CommandBoundsOK ==
  /\ None \notin Groups /\ None \notin People /\ Askers \subseteq Groups
  /\ Orders \subseteq Requests /\ Operations \subseteq Requests
  /\ MaxTries \in Nat /\ MaxTries > 0 /\ Limit \in Nat /\ MaxOps \in Nat /\ MaxFaults \in Nat
  /\ IsFiniteSet(Groups) /\ Dashed \subseteq Groups /\ MaxPresses \in Nat

LEMMA CommandBounds == CommandBoundsOK
BY CommandConstants, FaultBound DEF CommandBoundsOK

LEMMA NatProduct == ASSUME NEW m \in Nat, NEW n \in Nat PROVE m * n \in Nat
OBVIOUS

LEMMA CommandNats ==
  MaxTries \in Nat /\ MaxTries > 0 /\ Limit \in Nat /\ MaxOps \in Nat /\ MaxFaults \in Nat
BY CommandBounds DEF CommandBoundsOK

-----------------------------------------------------------------------------
(* Requests and what the handlers do. *)

Verbs == {"groups-list", "groups-get", "groups-config-update", "groups-delete",
          "members-list", "members-add", "members-remove", "roles-list",
          "destinations-add", "destinations-remove"}
Readers == {"groups-list", "groups-get", "members-list", "roles-list"}

(* The commands that only read are open and filtered, the others neither.  *)
LEMMA RegistryIs ==
  /\ DOMAIN Registry = Verbs
  /\ \A v \in Verbs : /\ Registry[v].access = IF v \in Readers THEN "open" ELSE "approval"
                      /\ Registry[v].generic = (v \in Readers)
<1>1. DOMAIN Registry = Verbs
  BY DEF Registry, Verbs, Open, Groupwise, Destined
<1>2. ASSUME NEW v \in Verbs
      PROVE  /\ Registry[v].access = IF v \in Readers THEN "open" ELSE "approval"
             /\ Registry[v].generic = (v \in Readers)
  <2>1. PICK res : Registry[v] = CommandDef(res, IF v \in Readers THEN "open" ELSE "approval",
                                            v \in Readers)
    BY <1>2 DEF Registry, Verbs, Readers, Open, Groupwise, Destined
  <2> QED
    BY <2>1 DEF CommandDef
<1> QED
  BY <1>1, <1>2

LEMMA RequestFields ==
  ASSUME NEW r \in Requests
  PROVE  /\ r.verb \in Verbs \cup {"nonsense"} /\ r.word \in Groups \cup {None}
         /\ r.target \in Groups \cup {None} /\ r.dashed \in Groups \cup {None}
         /\ r.person \in People \cup {None}
         /\ r.scope \in Scopes \cup {None}
BY RegistryIs DEF Requests

LEMMA ResolvedRequest ==
  ASSUME NEW r \in Requests
  PROVE  /\ Resolve(r) \in Requests /\ Resolve(r).dashed = r.dashed
         /\ Resolve(r).verb \in DOMAIN Registry => Resolve(r).verb = r.verb
         /\ r.word = None => Resolve(r) = r
<1>1. CASE r.word = None
  BY <1>1, CommandBounds DEF Resolve, CommandBoundsOK
<1>2. CASE r.word # None /\ r.word \in Dashed
  <2>1. Resolve(r) = [r EXCEPT !.verb = "nonsense"]
    BY <1>2 DEF Resolve
  <2>2. Resolve(r) \in Requests /\ Resolve(r).verb = "nonsense" /\ Resolve(r).dashed = r.dashed
    BY <2>1 DEF Requests
  <2>3. "nonsense" \notin DOMAIN Registry
    BY RegistryIs DEF Verbs
  <2> QED
    BY <1>2, <2>2, <2>3
<1>3. CASE r.word # None /\ r.word \notin Dashed
  <2>1. Resolve(r) = [r EXCEPT !.word = None, !.target = IF @ = None THEN r.word ELSE @]
    BY <1>3 DEF Resolve
  <2>2. (IF r.target = None THEN r.word ELSE r.target) \in Groups \cup {None}
    BY RequestFields
  <2>3. Resolve(r) \in Requests /\ Resolve(r).dashed = r.dashed /\ Resolve(r).verb = r.verb
    BY <2>1, <2>2 DEF Requests
  <2> QED
    BY <1>3, <2>3
<1> QED
  BY <1>1, <1>2, <1>3

(* A frame of the own group names it once, if the order did.               *)
LEMMA FilledRequest ==
  ASSUME NEW r \in Requests, NEW g \in Groups
  PROVE  /\ Filled(r, g) \in Requests /\ Filled(r, g).verb = r.verb
         /\ ScopeOf(g) = "group" /\ r.target \in {None, g} => Filled(r, g).target = g
         /\ ScopeOf(g) = "group" /\ (r.dashed # None => r.target = None)
              => Filled(r, g).dashed = None
<1>1. CASE ScopeOf(g) = "group" /\ r.target = None
  <2>1. Filled(r, g) = [r EXCEPT !.target = g, !.dashed = None]
    BY <1>1 DEF Filled
  <2> QED
    BY <2>1 DEF Requests
<1>2. CASE ~(ScopeOf(g) = "group" /\ r.target = None)
  BY <1>2, CommandBounds, RequestFields DEF Filled, CommandBoundsOK
<1> QED
  BY <1>1, <1>2

(* What the parser makes of a frame is the same command, and the same      *)
(* frame where the group is named once.                                    *)
LEMMA ParsedRequest ==
  ASSUME NEW r \in Requests
  PROVE  /\ Parsed(r) \in Requests /\ Parsed(r).verb = r.verb
         /\ r.dashed = None => Parsed(r) = r
<1>1. CASE r.verb \in Destined \cup {"members-list"} /\ r.dashed # None
  <2>1. Parsed(r) = [r EXCEPT !.target = r.dashed, !.dashed = None]
    BY <1>1 DEF Parsed
  <2> QED
    BY <1>1, <2>1, RequestFields DEF Requests
<1>2. CASE ~(r.verb \in Destined \cup {"members-list"} /\ r.dashed # None)
  BY <1>2 DEF Parsed
<1> QED
  BY <1>1, <1>2

LEMMA ScopeTyped ==
  ASSUME CommandsTypeOK, NEW g \in Groups
  PROVE  ScopeOf(g) \in Scopes
BY DEF CommandsTypeOK, ScopeOf, Scopes

(* No handler leaves tables that are not tables.                           *)
LEMMA AfterTyped ==
  ASSUME CommandsTypeOK, NEW r \in Requests
  PROVE  After(r) \in [groups : SUBSET Groups, scope : [Groups -> Scopes],
                       members : SUBSET (People \X Groups), destined : SUBSET Groups]
<1> USE CommandBounds, RequestFields DEF CommandBoundsOK
<1> DEFINE Tables == [groups : SUBSET Groups, scope : [Groups -> Scopes],
                      members : SUBSET (People \X Groups), destined : SUBSET Groups]
<1>1. /\ db \in Tables /\ db.groups \subseteq Groups /\ db.scope \in [Groups -> Scopes]
      /\ db.members \subseteq People \X Groups /\ db.destined \subseteq Groups
  <2>1. db \in Tables
    BY DEF CommandsTypeOK
  <2> QED
    BY <2>1
<1>2. CASE Throws(r)
  BY <1>1, <1>2 DEF After
<1>3. CASE ~Throws(r) /\ r.verb = "groups-config-update"
  <2>1. After(r) = [db EXCEPT !.scope[r.target] = r.scope]
    BY <1>3 DEF After
  <2>2. r.target \in Groups /\ r.scope \in Scopes
    BY <1>1, <1>3 DEF Throws
  <2>3. [db.scope EXCEPT ![r.target] = r.scope] \in [Groups -> Scopes]
    BY <1>1, <2>2
  <2>4. After(r) = [db EXCEPT !.scope = [db.scope EXCEPT ![r.target] = r.scope]]
    BY <2>1, Zenon
  <2>5. After(r) = [db EXCEPT !.scope = [db.scope EXCEPT ![r.target] = r.scope]]
          => After(r) \in Tables
    BY <1>1, <2>3
  <2> QED
    BY <2>4, <2>5
<1>4. CASE ~Throws(r) /\ r.verb = "groups-delete"
  <2>1. After(r) = [db EXCEPT !.groups = @ \ {r.target}, !.members = @ \ (People \X {r.target}),
                              !.destined = @ \ {r.target}]
    BY <1>4 DEF After
  <2>2. db.groups \ {r.target} \subseteq Groups
    BY <1>1
  <2>3. db.members \ (People \X {r.target}) \subseteq People \X Groups
    BY <1>1
  <2>4. db.destined \ {r.target} \subseteq Groups
    BY <1>1
  <2>5. After(r) = [groups |-> db.groups \ {r.target}, scope |-> db.scope,
                    members |-> db.members \ (People \X {r.target}),
                    destined |-> db.destined \ {r.target}]
    BY <1>1, <2>1
  <2> QED
    BY <1>1, <2>2, <2>3, <2>4, <2>5
<1>5. CASE ~Throws(r) /\ r.verb = "members-add"
  <2>1. After(r) = [db EXCEPT !.members = @ \cup {<<r.person, r.target>>}]
    BY <1>5 DEF After
  <2>2. r.person \in People /\ r.target \in Groups
    BY <1>1, <1>5 DEF Throws
  <2> QED
    BY <1>1, <2>1, <2>2
<1>6. CASE ~Throws(r) /\ r.verb = "members-remove"
  <2>1. After(r) = [db EXCEPT !.members = @ \ {<<r.person, r.target>>}]
    BY <1>6 DEF After
  <2> QED
    BY <1>1, <2>1
<1>7. CASE ~Throws(r) /\ r.verb = "destinations-add"
  <2>1. After(r) = [db EXCEPT !.destined = @ \cup {r.target}]
    BY <1>7 DEF After
  <2>2. r.target \in Groups
    BY <1>1, <1>7 DEF Throws
  <2> QED
    BY <1>1, <2>1, <2>2
<1>8. CASE ~Throws(r) /\ r.verb = "destinations-remove"
  <2>1. After(r) = [db EXCEPT !.destined = @ \ {r.target}]
    BY <1>8 DEF After
  <2> QED
    BY <1>1, <2>1
<1>9. CASE ~Throws(r) /\ r.verb \notin {"groups-config-update", "groups-delete",
                                        "members-add", "members-remove",
                                        "destinations-add", "destinations-remove"}
  BY <1>1, <1>9 DEF After
<1> QED
  BY <1>2, <1>3, <1>4, <1>5, <1>6, <1>7, <1>8, <1>9

LEMMA ListedTyped ==
  ASSUME CommandsTypeOK, NEW r \in Requests, NEW s \in Listed(r)
  PROVE  s \subseteq Groups
<1>1. db.groups \subseteq Groups /\ db.members \subseteq People \X Groups
  BY DEF CommandsTypeOK
<1>2. Matching(r) \subseteq Groups
  BY <1>1 DEF Matching
<1> QED
  BY <1>2 DEF Listed

-----------------------------------------------------------------------------
(* A dispatch. *)

LEMMA CommandsInitially == CommandsInit => CommandsInv
<1> SUFFICES ASSUME CommandsInit PROVE CommandsInv
  OBVIOUS
<1> USE CommandBounds DEF CommandBoundsOK
<1>1. CommandsTypeOK
  <2>1. db \in [groups : SUBSET Groups, scope : [Groups -> Scopes], members : SUBSET (People \X Groups), destined : SUBSET Groups]
    BY DEF CommandsInit, Scopes
  <2> QED
    BY <2>1 DEF CommandsInit, CommandsTypeOK
<1>2. CountsTyped
  BY DEF CommandsInit, CountsTyped
<1>3. \A c \in Ncls : CallOK(c)
  BY DEF CommandsInit, CallOK, Untouched, Asked, NoAsk
<1>4. (\A k \in cards : CardOK(k)) /\ OwnGroups
  BY DEF CommandsInit, OwnGroupOnly, OwnGroups
<1>5. ASSUME NEW c \in Ncls PROVE StuckOK(c)
  <2>1. Stuck(c) = {}
    BY DEF CommandsInit, Stuck
  <2>2. runs[c] = 0 /\ approved[c] = 0 /\ outages = 0
    BY DEF CommandsInit
  <2> QED
    BY <2>1, <2>2, FS_EmptySet DEF StuckOK
<1> QED
  BY <1>1, <1>2, <1>3, <1>4, <1>5 DEF CommandsInv

LEMMA CommandCounts ==
  ASSUME CommandsInv
  PROVE  /\ tries \in [Ncls -> 0 .. MaxTries - 1]
         /\ runs \in [Ncls -> Nat] /\ carded \in [Ncls -> Nat] /\ approved \in [Ncls -> Nat]
         /\ outages \in Nat /\ ops \in 0 .. MaxOps
BY DEF CommandsInv, CommandsTypeOK, CountsTyped

LEMMA CardCall ==
  ASSUME CommandsInv, NEW k \in cards
  PROVE  /\ k.call \in Ncls /\ k.frame \in Requests /\ k.nr \in 1 .. carded[k.call]
         /\ carded[k.call] > 0 /\ k \in CardRows
<1>0. k \in CardRows
  BY DEF CommandsInv, CountsTyped
<1>1. k.call \in Ncls /\ k.frame \in Requests /\ k.nr \in 1 .. carded[k.call]
  BY DEF CommandsInv, CommandsTypeOK
<1>2. carded[k.call] \in Nat
  BY <1>1, CommandCounts
<1> QED
  BY <1>0, <1>1, <1>2

LEMMA RowFields ==
  ASSUME NEW row \in Rows
  PROVE  /\ row.stage \in {"due", "asking", "posting", "delivered", "failed"}
         /\ row.by \in Groups /\ row.request \in Requests /\ row.frame \in Requests
         /\ row.was \in Scopes
BY DEF Rows

(* A row that is due, or being asked about, is one of a call.              *)
LEMMA RowOfCall ==
  ASSUME CommandsInv, NEW c \in Ncls, ask[c].stage # "none"
  PROVE  ask[c] \in Rows /\ client[c] # "idle" /\ ask[c].request \in Orders
<1>1. CallOK(c)
  BY DEF CommandsInv
<1>2. client[c] # "idle"
  BY <1>1 DEF CallOK, Untouched, NoAsk
<1> QED
  BY <1>1, <1>2 DEF CallOK

(* The end of a dispatch, for the row of c.                                *)
Moved(c, row) ==
  /\ row \in Rows /\ row.by = ask[c].by /\ row.request = ask[c].request
  /\ row.frame = ask[c].frame /\ row.was = ask[c].was
  /\ row.stage \in {"due", "delivered", "failed"}
  /\ ask' = [ask EXCEPT ![c] = row]
  /\ tries' = [tries EXCEPT ![c] = IF row.stage = "due" THEN tries[c] + 1 ELSE 0]
  /\ row.stage = "due" => tries[c] + 1 < MaxTries

LEMMA StageMoved ==
  ASSUME NEW c \in Ncls, ask \in [Ncls -> Rows \cup {NoAsk}], ask[c] \in Rows,
         NEW to \in {"due", "delivered", "failed"}, ask' = [ask EXCEPT ![c].stage = to],
         tries' = [tries EXCEPT ![c] = IF to = "due" THEN tries[c] + 1 ELSE 0],
         to = "due" => tries[c] + 1 < MaxTries
  PROVE  \E row \in Rows : Moved(c, row)
<1>1. PICK row : row = [ask[c] EXCEPT !.stage = to]
  OBVIOUS
<1>2. /\ row \in Rows /\ row.stage = to /\ row.by = ask[c].by /\ row.request = ask[c].request
      /\ row.frame = ask[c].frame /\ row.was = ask[c].was
  BY <1>1 DEF Rows
<1>3. ask' = [ask EXCEPT ![c] = row]
  BY <1>1
<1> QED
  BY <1>2, <1>3 DEF Moved

LEMMA RetryMoves ==
  ASSUME CommandsInv, NEW c \in Ncls, ask[c] \in Rows, Retry(c)
  PROVE  \E row \in Rows : Moved(c, row)
<1>1. ask \in [Ncls -> Rows \cup {NoAsk}] /\ tries \in [Ncls -> 0 .. MaxTries - 1]
  BY DEF CommandsInv, CommandsTypeOK
<1>2. CASE tries[c] + 1 < MaxTries
  BY <1>1, <1>2, StageMoved DEF Retry
<1>3. CASE ~(tries[c] + 1 < MaxTries)
  BY <1>1, <1>3, StageMoved DEF Retry
<1> QED
  BY <1>2, <1>3

FaultsTyped == faults \in 0 .. MaxFaults

LEMMA FaultTyped ==
  ASSUME CommandsTypeOK, Fault \/ UNCHANGED faults
  PROVE  FaultsTyped'
<1>1. faults \in 0 .. MaxFaults /\ MaxFaults \in Nat
  BY CommandBounds DEF CommandBoundsOK, CommandsTypeOK
<1>2. faults' = faults \/ (faults < MaxFaults /\ faults' = faults + 1)
  BY DEF Fault
<1> QED
  BY <1>1, <1>2 DEF FaultsTyped

(* The answer is the first, or the one that is there stays.                *)
LEMMA AnswerMoves ==
  ASSUME CommandsInv, NEW c \in Ncls, ask[c] \in Rows, NEW code, NEW shown, Answer(c, code, shown)
  PROVE  /\ \E row \in Rows : Moved(c, row)
         /\ \/ reply' = reply
            \/ reply[c] = NoReply /\ reply' = [reply EXCEPT ![c] = [code |-> code, shown |-> shown]]
         /\ FaultsTyped'
<1>1. CommandsTypeOK /\ ask \in [Ncls -> Rows \cup {NoAsk}]
  BY DEF CommandsInv, CommandsTypeOK
<1>2. (Fault \/ UNCHANGED faults) => FaultsTyped'
  BY <1>1, FaultTyped
<1>3. Retry(c) => \E row \in Rows : Moved(c, row)
  BY RetryMoves
<1>4. ask' = [ask EXCEPT ![c].stage = "delivered"] /\ tries' = [tries EXCEPT ![c] = 0]
        => \E row \in Rows : Moved(c, row)
  BY <1>1, StageMoved
<1> QED
  BY <1>2, <1>3, <1>4 DEF Answer

LEMMA ReplyTyped ==
  ASSUME CommandsInv, NEW c \in Ncls, NEW code \in Codes, NEW shown \in SUBSET Groups,
         \/ reply' = reply
         \/ reply[c] = NoReply /\ reply' = [reply EXCEPT ![c] = [code |-> code, shown |-> shown]]
  PROVE  /\ DOMAIN reply' = Ncls
         /\ \A d \in Ncls : reply'[d] # NoReply => reply'[d].code \in Codes /\ reply'[d].shown \subseteq Groups
         /\ \A d \in Ncls : reply[d] # NoReply => reply'[d] = reply[d]
<1>1. /\ DOMAIN reply = Ncls
      /\ \A d \in Ncls : reply[d] # NoReply => reply[d].code \in Codes /\ reply[d].shown \subseteq Groups
  BY DEF CommandsInv, CommandsTypeOK, CountsTyped
<1>2. CASE reply' = reply
  BY <1>1, <1>2
<1>3. CASE reply[c] = NoReply /\ reply' = [reply EXCEPT ![c] = [code |-> code, shown |-> shown]]
  <2>1. PICK new : new = [code |-> code, shown |-> shown]
    OBVIOUS
  <2>2. new.code \in Codes /\ new.shown \subseteq Groups
    BY <2>1
  <2>3. DOMAIN reply' = Ncls /\ reply'[c] = new /\ \A d \in Ncls \ {c} : reply'[d] = reply[d]
    BY <1>1, <1>3, <2>1
  <2> QED
    BY <1>1, <1>3, <2>2, <2>3
<1> QED
  BY <1>2, <1>3

(* The rows of the other calls stay what they are.                         *)
LEMMA OthersStay ==
  ASSUME CommandsInv, NEW c \in Ncls, NEW row \in Rows, ask' = [ask EXCEPT ![c] = row],
         row.by = ask[c].by, row.request = ask[c].request
  PROVE  /\ ask' \in [Ncls -> Rows \cup {NoAsk}] /\ ask'[c] = row
         /\ \A d \in Ncls \ {c} : ask'[d] = ask[d]
         /\ \A d \in Ncls : ask'[d].by = ask[d].by /\ Called(d)' = Called(d)
         /\ Access(c)' = Access(c)
<1>1. ask \in [Ncls -> Rows \cup {NoAsk}]
  BY DEF CommandsInv, CommandsTypeOK
<1>2. /\ ask' \in [Ncls -> Rows \cup {NoAsk}] /\ ask'[c] = row
      /\ \A d \in Ncls \ {c} : ask'[d] = ask[d]
  BY <1>1
<1>3. \A d \in Ncls : Called(d)' = Called(d)
  BY <1>2 DEF Called
<1>4. Access(c)' = Access(c)
  BY <1>3 DEF Access
<1> QED
  BY <1>2, <1>3, <1>4

(* What is true of a call stays so while nothing of it changes but its     *)
(* client.                                                                 *)
LEMMA CallStays ==
  ASSUME NEW d \in Ncls, CallOK(d), ask'[d] = ask[d], tries'[d] = tries[d],
         runs'[d] = runs[d], carded'[d] = carded[d], approved'[d] = approved[d],
         outages' = outages, client'[d] = client[d] \/ (client[d] # "idle" /\ client'[d] # "idle")
  PROVE  CallOK(d)'
<1>1. /\ Called(d)' = Called(d) /\ Access(d)' = Access(d) /\ Since(d)' = Since(d)
      /\ Before' = Before /\ (Asked(d)' <=> Asked(d))
  BY DEF Called, Access, Since, Before, Asked
<1> QED
  BY <1>1 DEF CallOK, Untouched

(* The same card, but for whether its handler has run.                     *)
SameCard(k, j) == j.call = k.call /\ j.frame = k.frame /\ j.was = k.was

(* A card keeps what is true of it; a crash that finds its handler awaited *)
(* leaves it as one whose handler has run.                                 *)
LEMMA CardStays ==
  ASSUME CommandsInv, NEW k \in cards, NEW j, SameCard(k, j),
         j.ran = k.ran \/ (k.ran = "now" /\ j.ran = "yes"),
         ask'[k.call].by = ask[k.call].by, Called(k.call)' = Called(k.call),
         approved'[k.call] \in Nat, approved[k.call] <= approved'[k.call]
  PROVE  CardOK(j)'
<1>1. CardOK(k) /\ k.call \in Ncls
  BY DEF CommandsInv, CommandsTypeOK
<1>2. approved[k.call] \in Nat
  BY <1>1, CommandCounts
<1>3. j.ran # "no" => approved'[k.call] > 0
  BY <1>1, <1>2 DEF CardOK
<1>4. OwnFrame(j.was, j.frame, ask'[j.call].by) /\ j.frame.verb = Called(j.call)'
  BY <1>1 DEF CardOK, SameCard, Called
<1>5. j.ran = "now" => Called(j.call)' \in Destined
  BY <1>1 DEF CardOK, SameCard, Called
<1> QED
  BY <1>3, <1>4, <1>5 DEF CardOK, SameCard

LEMMA CardsStay ==
  ASSUME CommandsInv, approved' = approved,
         \A d \in Ncls : ask'[d].by = ask[d].by /\ Called(d)' = Called(d)
  PROVE  \A k \in cards : CardOK(k)'
<1> TAKE k \in cards
<1>1. k.call \in Ncls
  BY CardCall
<1>2. approved[k.call] \in Nat
  BY <1>1, CommandCounts
<1>3. SameCard(k, k) /\ approved'[k.call] \in Nat /\ approved[k.call] <= approved'[k.call]
  BY <1>2 DEF SameCard
<1> QED
  BY <1>1, <1>3, CardStays

(* What was paid for stays so while no card is left behind.                *)
LEMMA StuckStays ==
  ASSUME CommandsInv, NEW d \in Ncls, Called(d)' = Called(d),
         runs'[d] = runs[d], approved'[d] = approved[d],
         outages' \in Nat, outages <= outages',
         Called(d) \notin Destined => Stuck(d)' \subseteq Stuck(d)
  PROVE  StuckOK(d)'
<1> SUFFICES ASSUME Called(d)' \notin Destined, Access(d)' = "approval"
             PROVE  /\ IsFiniteSet(Stuck(d)')
                    /\ runs'[d] + Cardinality(Stuck(d)') <= approved'[d] + outages'
  BY DEF StuckOK
<1>1. Access(d) = "approval"
  BY DEF Access
<1>2. IsFiniteSet(Stuck(d)) /\ runs[d] + Cardinality(Stuck(d)) <= approved[d] + outages
  BY <1>1 DEF CommandsInv, StuckOK
<1>3. IsFiniteSet(Stuck(d)') /\ Cardinality(Stuck(d)') <= Cardinality(Stuck(d))
  BY <1>2, FS_Subset
<1>4. Cardinality(Stuck(d)) \in Nat /\ Cardinality(Stuck(d)') \in Nat
  BY <1>2, <1>3, FS_CardinalityType
<1>5. runs[d] \in Nat /\ approved[d] \in Nat /\ outages \in Nat
  BY CommandCounts
<1> QED
  BY <1>2, <1>3, <1>4, <1>5

(* The rows of the other calls, and the cards, are as they were.           *)
LEMMA StuckSame ==
  ASSUME CommandsInv, NEW d \in Ncls, Called(d)' = Called(d),
         runs'[d] = runs[d], approved'[d] = approved[d], outages' = outages,
         cards' \subseteq cards
  PROVE  StuckOK(d)'
<1>1. Stuck(d)' \subseteq Stuck(d)
  BY DEF Stuck
<1>2. outages \in Nat
  BY CommandCounts
<1> QED
  BY <1>1, <1>2, StuckStays

(* A dispatch ends: it came to at most one more run, or one more card.     *)
LEMMA EndInv ==
  ASSUME CommandsInv, NEW c \in Ncls, NEW row \in Rows, Moved(c, row),
         ask[c] \in Rows, ask[c].stage \in {"due", "asking", "posting"},
         UNCHANGED <<client, cards, carded, approved, outages>>,
         db' \in [groups : SUBSET Groups, scope : [Groups -> Scopes],
                  members : SUBSET (People \X Groups), destined : SUBSET Groups],
         ops' \in 0 .. MaxOps, FaultsTyped', DOMAIN reply' = Ncls,
         \A d \in Ncls : reply'[d] # NoReply =>
            reply'[d].code \in Codes /\ reply'[d].shown \subseteq Groups,
         \/ runs' = runs
         \/ /\ runs' = [runs EXCEPT ![c] = @ + 1]
            /\ ask[c].stage = "due" /\ Access(c) = "open",
         OwnGroups'
  PROVE  CommandsInv'
<1> USE CommandBounds DEF CommandBoundsOK
<1>1. /\ ask' \in [Ncls -> Rows \cup {NoAsk}] /\ ask'[c] = row
      /\ \A d \in Ncls \ {c} : ask'[d] = ask[d]
      /\ \A d \in Ncls : ask'[d].by = ask[d].by /\ Called(d)' = Called(d)
      /\ Access(c)' = Access(c)
  BY OthersStay DEF Moved
<1>2. /\ tries \in [Ncls -> 0 .. MaxTries - 1]
      /\ runs \in [Ncls -> Nat] /\ carded \in [Ncls -> Nat] /\ approved \in [Ncls -> Nat]
      /\ outages \in Nat
  BY DEF CommandsInv, CommandsTypeOK, CountsTyped
<1>3. /\ tries' \in [Ncls -> 0 .. MaxTries - 1]
      /\ tries'[c] = IF row.stage = "due" THEN tries[c] + 1 ELSE 0
      /\ \A d \in Ncls \ {c} : tries'[d] = tries[d]
  <2>1. PICK n : n = IF row.stage = "due" THEN tries[c] + 1 ELSE 0
    OBVIOUS
  <2>2. n \in 0 .. MaxTries - 1 /\ tries' = [tries EXCEPT ![c] = n]
    BY <1>2, <2>1 DEF Moved
  <2> QED
    BY <1>2, <2>1, <2>2
<1>4. /\ runs' \in [Ncls -> Nat] /\ \A d \in Ncls \ {c} : runs'[d] = runs[d]
      /\ \/ runs'[c] = runs[c]
         \/ runs'[c] = runs[c] + 1 /\ ask[c].stage = "due" /\ Access(c) = "open"
  BY <1>2
<1>5. CommandsTypeOK' /\ CountsTyped'
  <2>1. client' \in [Ncls -> {"idle", "polling", "answered", "timed out"}]
    BY DEF CommandsInv, CommandsTypeOK
  <2>2. /\ cards' \subseteq CardRows
        /\ \A k \in cards' : /\ k.call \in Ncls /\ k.nr \in 1 .. carded'[k.call]
                              /\ k.frame \in Requests /\ k.ran \in {"no", "now", "yes"}
    BY DEF CommandsInv, CommandsTypeOK, CountsTyped
  <2> QED
    BY <1>1, <1>2, <1>3, <1>4, <2>1, <2>2 DEF CommandsTypeOK, CountsTyped, FaultsTyped
<1>6. \A d \in Ncls \ {c} : CallOK(d)'
  BY <1>1, <1>3, <1>4, CallStays DEF CommandsInv
<1>7. CallOK(c)'
  <2>1. CallOK(c) /\ client[c] # "idle" /\ ask[c].request \in Orders
    <3>1. ask[c].stage # "none"
      BY RowFields
    <3> QED
      BY <3>1, RowOfCall DEF CommandsInv
  <2>2. Before \in Nat /\ Before' = Before
    BY <1>2 DEF Before
  <2>3. ~Asked(c)' /\ row.stage \in {"due", "delivered", "failed"}
    BY <1>1 DEF Asked, Moved
  <2>4. Since(c)' = IF row.stage = "due" THEN tries[c] + 1 ELSE MaxTries
    BY <1>1, <1>3, <2>3 DEF Since
  <2>5. /\ Since(c) \in Nat /\ Since(c)' \in Nat /\ Since(c) <= Since(c)'
        /\ ask[c].stage = "due" => Since(c) + 1 <= Since(c)'
    <3>1. tries[c] \in 0 .. MaxTries - 1
      BY <1>2
    <3>2. Since(c) \in {tries[c], tries[c] + 1} /\ (ask[c].stage = "due" => Since(c) = tries[c])
      BY DEF Since
    <3> QED
      BY <2>4, <3>1, <3>2
  <2>6. approved'[c] = approved[c] /\ approved[c] \in Nat /\ runs[c] \in Nat
        /\ carded'[c] = carded[c] /\ carded[c] \in Nat /\ client'[c] = client[c]
    BY <1>2
  <2>7. approved'[c] <= runs'[c] /\ (runs'[c] > 0 => approved'[c] > 0 \/ Access(c)' = "open")
    <3>1. approved[c] <= runs[c] /\ (runs[c] > 0 => approved[c] > 0 \/ Access(c) = "open")
      BY <2>1 DEF CallOK
    <3>2. CASE runs'[c] = runs[c]
      BY <1>1, <2>6, <3>1, <3>2
    <3>3. CASE runs'[c] = runs[c] + 1 /\ Access(c) = "open"
      <4>1. approved[c] <= runs[c] + 1
        BY <2>6, <3>1
      <4> QED
        BY <1>1, <2>6, <3>3, <4>1
    <3> QED
      BY <1>4, <3>2, <3>3
  <2>8. carded'[c] <= (Before + Since(c))'
    <3>1. carded[c] <= Before + Since(c)
      BY <2>1 DEF CallOK
    <3> QED
      BY <2>2, <2>5, <2>6, <3>1
  <2>9. Access(c)' = "open" => runs'[c] <= (Before + Since(c))'
    <3>1. Access(c) = "open" => runs[c] <= Before + Since(c)
      BY <2>1 DEF CallOK
    <3>2. CASE runs'[c] = runs[c]
      BY <1>1, <2>2, <2>5, <2>6, <3>1, <3>2
    <3>3. CASE runs'[c] = runs[c] + 1 /\ ask[c].stage = "due"
      BY <1>1, <2>2, <2>5, <2>6, <3>1, <3>3
    <3> QED
      BY <1>4, <3>2, <3>3
  <2>10. ask'[c] \in Rows /\ ask'[c].request \in Orders
    BY <1>1, <2>1 DEF Moved
  <2>11. carded'[c] > 0 \/ approved'[c] > 0 => Access(c)' = "approval"
    BY <1>1, <2>1, <2>6 DEF CallOK
  <2> QED
    BY <2>1, <2>3, <2>6, <2>7, <2>8, <2>9, <2>10, <2>11 DEF CallOK
<1>8. \A k \in cards' : CardOK(k)'
  BY <1>1, CardsStay
<1>9. ASSUME NEW d \in Ncls PROVE StuckOK(d)'
  <2>1. CASE runs'[d] = runs[d]
    BY <1>1, <2>1, StuckSame
  <2>2. CASE runs'[d] # runs[d]
    <3>1. Access(d)' = "open"
      BY <1>1, <1>4, <2>2
    <3> QED
      BY <3>1 DEF StuckOK
  <2> QED
    BY <2>1, <2>2
<1> QED
  BY <1>5, <1>6, <1>7, <1>8, <1>9 DEF CommandsInv
-----------------------------------------------------------------------------
(* The actions: an answer that is there stays, and a list shows an agent   *)
(* its own group.                                                          *)

FirstStands == \A c \in Ncls : reply[c] # NoReply => reply'[c] = reply[c]

OwnListed ==
  \A c \in Ncls :
    /\ reply[c] = NoReply /\ reply'[c] # NoReply
    /\ ask[c].request.verb = "groups-list" /\ reply'[c].code = "ok"
    /\ Cardinality(db.groups) <= Limit
    => ask[c].by \in reply'[c].shown

CommandsStep == CommandsInv' /\ FirstStands /\ OwnListed

LEMMA ReplyStays ==
  ASSUME CommandsInv', reply' = reply
  PROVE  CommandsStep
BY DEF CommandsStep, FirstStands, OwnListed

(* A dispatch that ran nothing. *)
LEMMA RefusedInv ==
  ASSUME CommandsInv, NEW c \in Ncls, ask[c].stage \in {"due", "asking", "posting"},
         NEW code \in Codes \ {"ok"}, Answer(c, code, {}),
         UNCHANGED <<db, client, cards, ops, commandHist>>
  PROVE  CommandsStep
<1>1. ask[c] \in Rows
  BY RowOfCall
<1>2. PICK row \in Rows : Moved(c, row)
  BY <1>1, AnswerMoves
<1>3. /\ \/ reply' = reply
         \/ reply[c] = NoReply /\ reply' = [reply EXCEPT ![c] = [code |-> code, shown |-> {}]]
      /\ FaultsTyped'
  BY <1>1, AnswerMoves
<1>4. /\ DOMAIN reply' = Ncls
      /\ \A d \in Ncls : reply'[d] # NoReply => reply'[d].code \in Codes /\ reply'[d].shown \subseteq Groups
      /\ FirstStands
  BY <1>3, ReplyTyped DEF FirstStands
<1>5. /\ UNCHANGED <<client, cards, runs, carded, approved, outages>>
      /\ db' \in [groups : SUBSET Groups, scope : [Groups -> Scopes], members : SUBSET (People \X Groups), destined : SUBSET Groups]
      /\ ops' \in 0 .. MaxOps /\ OwnGroups'
  BY DEF commandHist, CommandsInv, CommandsTypeOK, OwnGroups, OwnGroupOnly
<1>6. CommandsInv'
  BY <1>1, <1>2, <1>3, <1>4, <1>5, EndInv
<1>7. OwnListed
  <2>1. \A d \in Ncls : reply'[d] = reply[d] \/ reply'[d].code = code
    BY <1>3 DEF CommandsInv, CountsTyped
  <2> QED
    BY <2>1 DEF OwnListed
<1> QED
  BY <1>4, <1>6, <1>7 DEF CommandsStep

LEMMA RefuseInv ==
  ASSUME CommandsInv, NEW c \in Ncls, RefuseCommand(c)
  PROVE  CommandsStep
<1>1. PICK code \in {"forbidden", "unknown-command"} : Answer(c, code, {})
  BY DEF RefuseCommand
<1>2. code \in Codes \ {"ok"}
  BY DEF Codes
<1> QED
  BY <1>1, <1>2, RefusedInv DEF RefuseCommand, Due

LEMMA PendingInv ==
  ASSUME CommandsInv, NEW c \in Ncls, NoAdmin(c) \/ CardOut(c)
  PROVE  CommandsStep
<1>1. "approval-pending" \in Codes \ {"ok"}
  BY DEF Codes
<1> QED
  BY <1>1, RefusedInv DEF NoAdmin, CardOut

(* A command that passes names the group it may reach.                     *)
LEMMA PassingFrame ==
  ASSUME CommandsInv, NEW c \in Ncls, Due(c), Passes(c)
  PROVE  /\ ask[c] \in Rows /\ Frame(c) \in Requests /\ Frame(c).verb \in Verbs
         /\ Frame(c).verb = Resolve(ask[c].request).verb
         /\ Frame(c).verb = ask[c].request.verb
         /\ ScopeOf(ask[c].by) \in Scopes
         /\ OwnFrame(ScopeOf(ask[c].by), Frame(c), ask[c].by)
<1>1. ask[c] \in Rows
  BY RowOfCall DEF Due
<1>2. ask[c].by \in Groups /\ ask[c].request \in Requests
  BY <1>1, RowFields
<1>3. /\ Resolve(ask[c].request) \in Requests
      /\ Resolve(ask[c].request).verb \in Verbs
      /\ Resolve(ask[c].request).verb = ask[c].request.verb
  BY <1>2, ResolvedRequest, RegistryIs DEF Passes, Known
<1>4. /\ Frame(c) \in Requests /\ Frame(c).verb = Resolve(ask[c].request).verb
      /\ ScopeOf(ask[c].by) = "group" /\ Resolve(ask[c].request).target \in {None, ask[c].by}
           => Frame(c).target = ask[c].by
  BY <1>2, <1>3, FilledRequest DEF Frame
<1>5. OwnFrame(ScopeOf(ask[c].by), Frame(c), ask[c].by)
  <2>1. OneSpelling => (ask[c].request.dashed # None
                          => ask[c].request.target = None /\ ask[c].request.word = None)
    BY RowOfCall DEF OneSpelling, Due
  <2>2. OneSpelling => (Resolve(ask[c].request).dashed # None
                          => Resolve(ask[c].request).target = None)
    BY <1>2, <2>1, ResolvedRequest
  <2>3. ScopeOf(ask[c].by) = "group" /\ OneSpelling => Frame(c).dashed = None
    BY <1>2, <1>3, <2>2, FilledRequest DEF Frame
  <2> QED
    BY <1>4, <2>3 DEF OwnFrame, Passes, Forbidden
<1>6. ScopeOf(ask[c].by) \in Scopes
  BY <1>2, ScopeTyped DEF CommandsInv
<1> QED
  BY <1>1, <1>3, <1>4, <1>5, <1>6

LEMMA HandleInv ==
  ASSUME CommandsInv, NEW c \in Ncls, Handle(c)
  PROVE  CommandsStep
<1> DEFINE r == Parsed(Frame(c))
           g == ask[c].by
<1>1. /\ Due(c) /\ Passes(c) /\ ~NeedsApproval(c) /\ db' = After(r)
      /\ runs' = [runs EXCEPT ![c] = @ + 1]
      /\ UNCHANGED <<client, cards, ops, carded, approved, outages>>
  BY DEF Handle
<1>2. /\ ask[c] \in Rows /\ r \in Requests /\ r.verb = ask[c].request.verb
      /\ r.verb = Frame(c).verb /\ r.verb = Called(c)
      /\ ScopeOf(g) # "disabled" /\ g \in Groups /\ ask[c].stage = "due"
  BY <1>1, PassingFrame, ParsedRequest, RowFields DEF Due, Called, OwnFrame
<1>3. r.verb \in Readers /\ Registry[r.verb].access = "open" /\ Registry[r.verb].generic = TRUE
  <2>1. r.verb \in Verbs
    BY <1>1, <1>2, PassingFrame
  <2> QED
    BY <1>1, <1>2, <2>1, RegistryIs DEF NeedsApproval
<1>4. Access(c) = "open" /\ Changes(r) = {}
  BY <1>2, <1>3 DEF Access, Changes
<1>5. \/ Throws(r) /\ Answer(c, "handler-error", {}) /\ UNCHANGED touched
      \/ \E s \in Listed(r) : Answer(c, "ok", Visible(r, s, g)) /\ Touches(g, ScopeOf(g), Visible(r, s, g))
  BY <1>4 DEF Handle
<1> HIDE DEF r, g
<1>6. PICK code \in Codes, shown \in SUBSET Groups :
        /\ Answer(c, code, shown)
        /\ \/ UNCHANGED touched
           \/ Touches(g, ScopeOf(g), shown)
        /\ ScopeOf(g) = "group" => shown \subseteq {g}
        /\ code = "ok" => \E s \in Listed(r) : shown = Visible(r, s, g)
  <2>1. CASE Throws(r) /\ Answer(c, "handler-error", {}) /\ UNCHANGED touched
    <3>1. "handler-error" \in Codes
      BY DEF Codes
    <3> QED
      BY <2>1, <3>1
  <2>2. CASE \E s \in Listed(r) : Answer(c, "ok", Visible(r, s, g)) /\ Touches(g, ScopeOf(g), Visible(r, s, g))
    <3>1. PICK s \in Listed(r) : Answer(c, "ok", Visible(r, s, g)) /\ Touches(g, ScopeOf(g), Visible(r, s, g))
      BY <2>2
    <3>2. s \subseteq Groups
      BY <1>2, ListedTyped DEF CommandsInv
    <3>3. /\ Visible(r, s, g) \subseteq Groups
          /\ ScopeOf(g) = "group" => Visible(r, s, g) \subseteq {g}
      BY <1>3, <3>2 DEF Visible
    <3>4. "ok" \in Codes
      BY DEF Codes
    <3> QED
      BY <3>1, <3>3, <3>4
  <2> QED
    BY <1>5, <2>1, <2>2
<1>7. PICK row \in Rows : Moved(c, row)
  BY <1>2, <1>6, AnswerMoves
<1>8. /\ \/ reply' = reply
         \/ reply[c] = NoReply /\ reply' = [reply EXCEPT ![c] = [code |-> code, shown |-> shown]]
      /\ FaultsTyped'
  BY <1>2, <1>6, AnswerMoves
<1>9. /\ DOMAIN reply' = Ncls
      /\ \A d \in Ncls : reply'[d] # NoReply => reply'[d].code \in Codes /\ reply'[d].shown \subseteq Groups
      /\ FirstStands
  BY <1>8, ReplyTyped DEF FirstStands
<1>10. OwnGroups'
  <2>1. OwnGroups
    BY DEF CommandsInv
  <2>2. ScopeOf(g) # "disabled"
    BY <1>2
  <2>3. touched' \subseteq touched \cup {<<g, ScopeOf(g), h>> : h \in shown}
    BY <1>6 DEF Touches
  <2> QED
    BY <1>6, <2>1, <2>2, <2>3 DEF OwnGroups, OwnGroupOnly
<1>11. /\ db' \in [groups : SUBSET Groups, scope : [Groups -> Scopes], members : SUBSET (People \X Groups), destined : SUBSET Groups]
       /\ ops' \in 0 .. MaxOps
  BY <1>1, <1>2, AfterTyped DEF CommandsInv, CommandsTypeOK, r
<1>12. CommandsInv'
  BY <1>1, <1>2, <1>4, <1>7, <1>8, <1>9, <1>10, <1>11, EndInv
<1>13. OwnListed
  <2> SUFFICES ASSUME NEW d \in Ncls, reply[d] = NoReply, reply'[d] # NoReply,
                      ask[d].request.verb = "groups-list", reply'[d].code = "ok",
                      Cardinality(db.groups) <= Limit
               PROVE  ask[d].by \in reply'[d].shown
    BY DEF OwnListed
  <2>1. d = c /\ reply'[c] = [code |-> code, shown |-> shown]
    BY <1>8 DEF CommandsInv, CountsTyped
  <2>2. code = "ok" /\ reply'[c].shown = shown
    BY <2>1
  <2>3. PICK s \in Listed(r) : shown = Visible(r, s, g)
    BY <1>6, <2>2
  <2>4. r.verb = "groups-list"
    BY <1>2, <2>1
  <2>5. s = db.groups
    BY <2>3, <2>4 DEF Listed, Matching
  <2>6. g \in db.groups
    BY <1>1 DEF Due, g
  <2> QED
    BY <2>1, <2>2, <2>3, <2>5, <2>6 DEF Visible, g
<1> QED
  BY <1>9, <1>12, <1>13 DEF CommandsStep

LEMMA AskInv ==
  ASSUME CommandsInv, NEW c \in Ncls, AskAdmin(c)
  PROVE  CommandsStep
<1>1. /\ ask[c] \in Rows /\ Frame(c) \in Requests /\ Frame(c).verb = Resolve(ask[c].request).verb
      /\ ScopeOf(ask[c].by) \in Scopes /\ OwnFrame(ScopeOf(ask[c].by), Frame(c), ask[c].by)
      /\ ask[c].stage = "due" /\ ask[c].request \in Orders
  BY PassingFrame, RowOfCall DEF AskAdmin, Due
<1>2. Access(c) = "approval"
  BY <1>1 DEF AskAdmin, NeedsApproval, Access, Called
<1>3. PICK row : row = [ask[c] EXCEPT !.stage = "asking", !.frame = Frame(c), !.was = ScopeOf(ask[c].by)]
  OBVIOUS
<1>4. /\ row \in Rows /\ row.stage = "asking" /\ row.frame = Frame(c) /\ row.was = ScopeOf(ask[c].by)
      /\ row.by = ask[c].by /\ row.request = ask[c].request
  BY <1>1, <1>3 DEF Rows
<1>5. /\ ask' = [ask EXCEPT ![c] = row]
      /\ UNCHANGED <<db, client, reply, tries, cards, ops, runs, carded, approved, touched, outages, faults>>
  BY <1>3 DEF AskAdmin, commandHist
<1>6. /\ ask' \in [Ncls -> Rows \cup {NoAsk}] /\ ask'[c] = row
      /\ \A d \in Ncls \ {c} : ask'[d] = ask[d]
      /\ \A d \in Ncls : ask'[d].by = ask[d].by /\ Called(d)' = Called(d)
      /\ Access(c)' = Access(c)
  BY <1>4, <1>5, OthersStay
<1>7. CommandsTypeOK' /\ CountsTyped'
  BY <1>5, <1>6 DEF CommandsInv, CommandsTypeOK, CountsTyped
<1>8. \A d \in Ncls \ {c} : CallOK(d)'
  BY <1>5, <1>6, CallStays DEF CommandsInv
<1>9. CallOK(c)'
  <2>1. CallOK(c) /\ client[c] # "idle"
    BY <1>1, RowOfCall DEF CommandsInv
  <2>2. Since(c)' = Since(c) /\ Before' = Before
    BY <1>1, <1>4, <1>5, <1>6 DEF Since, Before
  <2>3. OwnFrame(ask'[c].was, ask'[c].frame, ask'[c].by)
    BY <1>1, <1>4, <1>6
  <2>4. ask'[c].frame.verb = Called(c)'
    BY <1>1, <1>4, <1>6 DEF Called
  <2> QED
    BY <1>1, <1>2, <1>4, <1>5, <1>6, <2>1, <2>2, <2>3, <2>4 DEF CallOK
<1>10. \A k \in cards' : CardOK(k)'
  BY <1>5, <1>6, CardsStay
<1>11. OwnGroups'
  BY <1>5 DEF CommandsInv, OwnGroups, OwnGroupOnly
<1>12. \A d \in Ncls : StuckOK(d)'
  BY <1>5, <1>6, StuckSame
<1> QED
  BY <1>5, <1>7, <1>8, <1>9, <1>10, <1>11, <1>12, ReplyStays DEF CommandsInv

(* The row of a card is in, with what the admin is asked about.            *)
LEMMA CardRowInv ==
  ASSUME CommandsInv, NEW c \in Ncls, CardRow(c)
  PROVE  CommandsStep
<1> USE CommandNats
<1>1. /\ ask[c].stage = "asking" /\ ask[c] \in Rows /\ ask[c].request \in Orders
      /\ UNCHANGED <<db, client, reply, ops, runs, approved, touched, outages, faults>>
  BY RowOfCall DEF CardRow
<1>2. CASE ask[c].by \notin db.groups
  <2>1. Retry(c) /\ UNCHANGED <<carded, cards>>
    BY <1>2 DEF CardRow
  <2>2. PICK row \in Rows : Moved(c, row)
    BY <1>1, <2>1, RetryMoves
  <2>3. /\ db' \in [groups : SUBSET Groups, scope : [Groups -> Scopes], members : SUBSET (People \X Groups), destined : SUBSET Groups]
        /\ ops' \in 0 .. MaxOps /\ OwnGroups' /\ FaultsTyped' /\ DOMAIN reply' = Ncls
        /\ \A d \in Ncls : reply'[d] # NoReply => reply'[d].code \in Codes /\ reply'[d].shown \subseteq Groups
    BY <1>1 DEF CommandsInv, CommandsTypeOK, CountsTyped, OwnGroups, OwnGroupOnly, FaultsTyped
  <2>4. CommandsInv'
    BY <1>1, <2>1, <2>2, <2>3, EndInv
  <2> QED
    BY <1>1, <2>4, ReplyStays
<1>3. CASE ask[c].by \in db.groups
  <2>1. PICK row : row = [ask[c] EXCEPT !.stage = "posting"]
    OBVIOUS
  <2>2. /\ row \in Rows /\ row.stage = "posting" /\ row.frame = ask[c].frame /\ row.was = ask[c].was
        /\ row.by = ask[c].by /\ row.request = ask[c].request
    BY <1>1, <2>1 DEF Rows
  <2>3. PICK card : card = [call |-> c, nr |-> carded'[c], frame |-> ask[c].frame, was |-> ask[c].was,
                            ran |-> "no"]
    OBVIOUS
  <2>4. /\ ask' = [ask EXCEPT ![c] = row] /\ tries' = tries
        /\ carded' = [carded EXCEPT ![c] = @ + 1]
        /\ cards' = cards \cup {card}
    BY <1>3, <2>1, <2>3 DEF CardRow
  <2>5. /\ ask' \in [Ncls -> Rows \cup {NoAsk}] /\ ask'[c] = row
        /\ \A d \in Ncls \ {c} : ask'[d] = ask[d]
        /\ \A d \in Ncls : ask'[d].by = ask[d].by /\ Called(d)' = Called(d)
        /\ Access(c)' = Access(c)
    BY <2>2, <2>4, OthersStay
  <2>6. /\ carded \in [Ncls -> Nat] /\ carded' \in [Ncls -> Nat] /\ carded'[c] = carded[c] + 1
        /\ \A d \in Ncls \ {c} : carded'[d] = carded[d]
        /\ \A d \in Ncls : carded[d] <= carded'[d]
    BY <2>4 DEF CommandsInv, CountsTyped
  <2>7. /\ card.call = c /\ card.nr = carded[c] + 1 /\ card.frame \in Requests
        /\ card.ran = "no" /\ card \in CardRows
    <3>1. carded'[c] \in Nat /\ ask[c].frame \in Requests /\ ask[c].was \in Scopes
      BY <1>1, <2>6, RowFields
    <3> QED
      BY <2>3, <2>6, <3>1 DEF CardRows
  <2>8. CommandsTypeOK' /\ CountsTyped'
    <3>1. \A k \in cards' : /\ k.call \in Ncls /\ k.nr \in 1 .. carded'[k.call]
                             /\ k.frame \in Requests /\ k.ran \in {"no", "now", "yes"}
      <4>1. \A k \in cards : /\ k.call \in Ncls /\ k.nr \in 1 .. carded'[k.call]
                              /\ k.frame \in Requests /\ k.ran \in {"no", "now", "yes"}
        <5> TAKE k \in cards
        <5>1. /\ k.call \in Ncls /\ k.frame \in Requests /\ k.nr \in 1 .. carded[k.call]
              /\ k.ran \in {"no", "now", "yes"}
          BY CardCall DEF CardRows
        <5>2. carded[k.call] <= carded'[k.call] /\ carded[k.call] \in Nat /\ carded'[k.call] \in Nat
          BY <2>6, <5>1
        <5> QED
          BY <5>1, <5>2
      <4>2. /\ card.call \in Ncls /\ card.nr \in 1 .. carded'[card.call] /\ card.frame \in Requests
            /\ card.ran \in {"no", "now", "yes"}
        BY <2>6, <2>7
      <4> QED
        BY <2>4, <4>1, <4>2
    <3>2. cards' \subseteq CardRows
      BY <2>4, <2>7 DEF CommandsInv, CountsTyped
    <3> QED
      BY <1>1, <2>4, <2>5, <2>6, <3>1, <3>2 DEF CommandsInv, CommandsTypeOK, CountsTyped
  <2>9. \A d \in Ncls \ {c} : CallOK(d)'
    BY <1>1, <2>4, <2>5, <2>6, CallStays DEF CommandsInv
  <2>10. CallOK(c)'
    <3>1. CallOK(c) /\ client[c] # "idle"
      BY <1>1, RowOfCall DEF CommandsInv
    <3>2. tries[c] \in Nat /\ Before' = Before /\ Before \in Nat
      BY <1>1, CommandCounts DEF Before
    <3>3. Since(c) = tries[c] /\ Since(c)' = tries[c] + 1
      BY <1>1, <2>2, <2>4, <2>5 DEF Since
    <3>4. /\ Asked(c) /\ Access(c) = "approval" /\ ask[c].frame.verb = Called(c)
          /\ OwnFrame(ask[c].was, ask[c].frame, ask[c].by)
      BY <1>1, <3>1 DEF Asked, CallOK
    <3>5. runs[c] \in Nat /\ approved[c] \in Nat
      BY DEF CommandsInv, CountsTyped
    <3>6. carded'[c] <= (Before + Since(c))'
      BY <2>6, <3>1, <3>2, <3>3 DEF CallOK
    <3>7. Access(c)' = "approval" /\ "approval" # "open"
      BY <2>5, <3>4
    <3>8. /\ OwnFrame(ask'[c].was, ask'[c].frame, ask'[c].by)
          /\ ask'[c].frame.verb = Called(c)'
          /\ ask'[c].request \in Orders
      BY <1>1, <2>2, <2>5, <3>4
    <3> QED
      BY <1>1, <2>2, <2>5, <3>1, <3>5, <3>6, <3>7, <3>8 DEF CallOK
  <2>11. \A k \in cards' : CardOK(k)'
    <3>1. OwnFrame(card.was, card.frame, ask'[card.call].by) /\ card.frame.verb = Called(card.call)'
      <4>1. CallOK(c) /\ Asked(c)
        BY <1>1 DEF CommandsInv, Asked
      <4>2. Called(c)' = Called(c)
        BY <2>5
      <4> QED
        BY <2>3, <2>5, <2>7, <4>1, <4>2 DEF CallOK, Called
    <3>2. \A k \in cards : CardOK(k)'
      BY <1>1, <2>5, CardsStay
    <3>3. card.ran = "no"
      BY <2>7
    <3>4. CardOK(card)'
      BY <3>1, <3>3 DEF CardOK, Called
    <3> QED
      BY <2>4, <3>2, <3>4
  <2>12. OwnGroups'
    BY <1>1 DEF CommandsInv, OwnGroups, OwnGroupOnly
  <2>13. ASSUME NEW d \in Ncls PROVE StuckOK(d)'
    <3>1. Stuck(d)' \subseteq Stuck(d)
      BY <2>4, <2>7 DEF Stuck
    <3>2. outages' \in Nat /\ outages <= outages'
      BY <1>1, CommandCounts
    <3> QED
      BY <1>1, <2>5, <3>1, <3>2, StuckStays
  <2>14. CommandsInv'
    BY <2>8, <2>9, <2>10, <2>11, <2>12, <2>13 DEF CommandsInv
  <2> QED
    BY <1>1, <2>14, ReplyStays
<1> QED
  BY <1>2, <1>3

(* A command of the host leaves no card without its row.                   *)
LEMMA HostRunInv ==
  ASSUME CommandsInv, NEW r \in Requests, NEW left, RunAsHost(r, left)
  PROVE  /\ db' \in [groups : SUBSET Groups, scope : [Groups -> Scopes],
                     members : SUBSET (People \X Groups), destined : SUBSET Groups]
         /\ cards' \subseteq left
BY AfterTyped DEF RunAsHost, CommandsInv

(* The host forgets the attempts, and may make as many anew.               *)
LEMMA DownFacts ==
  ASSUME CommandsInv, HostDown
  PROVE  /\ FaultsTyped' /\ outages' = outages + 1 /\ outages' \in Nat
         /\ ask' \in [Ncls -> Rows \cup {NoAsk}] /\ tries' \in [Ncls -> 0 .. MaxTries - 1]
         /\ \A c \in Ncls :
              /\ ask'[c].by = ask[c].by /\ Called(c)' = Called(c) /\ ~Asked(c)'
              /\ client[c] # "idle" => ask'[c] \in Rows /\ ask'[c].request = ask[c].request
              /\ client[c] = "idle" => ask'[c] = NoAsk
              /\ client[c] # "idle" => Before + Since(c) <= Before' + Since(c)'
<1> USE CommandNats
<1>1. /\ outages' = outages + 1 /\ tries' = [c \in Ncls |-> 0]
      /\ ask' = [c \in Ncls |-> IF Asked(c) THEN [ask[c] EXCEPT !.stage = "due"] ELSE ask[c]]
  BY DEF HostDown, Asked
<1>2. FaultsTyped'
  BY FaultTyped DEF HostDown, CommandsInv
<1>3. ASSUME NEW c \in Ncls
      PROVE  /\ ask'[c] \in Rows \cup {NoAsk}
             /\ ask'[c].by = ask[c].by /\ Called(c)' = Called(c) /\ ~Asked(c)'
             /\ client[c] # "idle" => ask'[c] \in Rows /\ ask'[c].request = ask[c].request
             /\ client[c] = "idle" => ask'[c] = NoAsk
             /\ client[c] # "idle" => Before + Since(c) <= Before' + Since(c)'
  <2>1. CallOK(c) /\ ask[c] \in Rows \cup {NoAsk} /\ tries[c] \in 0 .. MaxTries - 1
    BY DEF CommandsInv, CommandsTypeOK
  <2>2. outages \in Nat /\ outages' = outages + 1 /\ tries'[c] = 0
    BY <1>1 DEF CommandsInv, CountsTyped
  <2>3. Before \in Nat /\ Before' = Before + MaxTries
    BY <2>2 DEF Before
  <2>4. Since(c) \in Nat /\ Since(c) <= MaxTries
    <3>1. Since(c) \in {tries[c], tries[c] + 1, MaxTries}
      BY DEF Since
    <3> QED
      BY <2>1, <3>1
  <2>5. Since(c)' \in {0, 1, MaxTries}
    BY <2>2 DEF Since
  <2>6. CASE Asked(c)
    <3>1. ask'[c] = [ask[c] EXCEPT !.stage = "due"]
      BY <1>1, <2>6
    <3>2. ask[c] \in Rows /\ client[c] # "idle"
      BY <2>6, RowOfCall DEF Asked
    <3>3. /\ ask'[c] \in Rows /\ ask'[c].by = ask[c].by /\ ask'[c].request = ask[c].request
          /\ ask'[c].stage = "due"
      BY <3>1, <3>2 DEF Rows
    <3>4. ~Asked(c)' /\ Called(c)' = Called(c)
      BY <3>3 DEF Asked, Called
    <3> QED
      BY <2>3, <2>4, <2>5, <3>2, <3>3, <3>4
  <2>7. CASE ~Asked(c)
    <3>1. ask'[c] = ask[c]
      BY <1>1, <2>7
    <3>2. ~Asked(c)' /\ Called(c)' = Called(c)
      BY <2>7, <3>1 DEF Asked, Called
    <3> QED
      BY <2>1, <2>3, <2>4, <2>5, <3>1, <3>2 DEF CallOK, Untouched
  <2> QED
    BY <2>6, <2>7
<1>4. ask' \in [Ncls -> Rows \cup {NoAsk}]
  BY <1>1, <1>3
<1>5. tries' \in [Ncls -> 0 .. MaxTries - 1]
  <2>1. 0 \in 0 .. MaxTries - 1
    OBVIOUS
  <2> QED
    BY <1>1, <2>1
<1>6. outages' \in Nat
  BY <1>1, CommandCounts
<1> QED
  BY <1>1, <1>2, <1>3, <1>4, <1>5, <1>6

(* Of a call that a crash leaves as it was, what is true stays so.         *)
LEMMA DownCall ==
  ASSUME CommandsInv, HostDown, NEW c \in Ncls, client'[c] = client[c], carded'[c] = carded[c],
         \/ runs'[c] = runs[c] /\ approved'[c] = approved[c]
         \/ /\ Access(c) = "approval" /\ client[c] # "idle"
            /\ runs'[c] \in Nat /\ approved'[c] \in Nat
            /\ approved'[c] <= runs'[c] /\ approved'[c] > 0
  PROVE  CallOK(c)'
<1>1. CallOK(c) /\ runs[c] \in Nat /\ carded[c] \in Nat /\ approved[c] \in Nat
  BY DEF CommandsInv, CountsTyped
<1>2. /\ Called(c)' = Called(c) /\ ~Asked(c)'
      /\ client[c] # "idle" => ask'[c] \in Rows /\ ask'[c].request = ask[c].request
      /\ client[c] = "idle" => ask'[c] = NoAsk
      /\ client[c] # "idle" => Before + Since(c) <= Before' + Since(c)'
  BY DownFacts
<1>3. Access(c)' = Access(c)
  BY <1>2 DEF Access
<1>4. client[c] # "idle" => Before + Since(c) \in Int /\ (Before + Since(c))' \in Int
  <2>1. MaxTries \in Nat /\ outages \in Nat /\ outages' \in Nat /\ tries[c] \in Nat /\ tries'[c] \in Nat
    BY DownFacts, CommandCounts, CommandNats
  <2>2. Since(c) \in Nat /\ Since(c)' \in Nat
    <3>1. Since(c) \in {tries[c], tries[c] + 1, MaxTries}
      BY DEF Since
    <3>2. Since(c)' \in {tries'[c], tries'[c] + 1, MaxTries}
      BY DEF Since
    <3> QED
      BY <2>1, <3>1, <3>2
  <2>3. MaxTries * outages \in Nat /\ MaxTries * outages' \in Nat
    BY <2>1, NatProduct
  <2>4. Before \in Nat /\ Before' \in Nat
    BY <2>3 DEF Before
  <2> QED
    BY <2>2, <2>4
<1>5. CASE client[c] = "idle"
  BY <1>1, <1>2, <1>3, <1>5 DEF CallOK, Untouched
<1>6. CASE client[c] # "idle"
  <2>1. carded'[c] <= (Before + Since(c))'
    <3>1. carded[c] <= Before + Since(c)
      BY <1>1, <1>6 DEF CallOK
    <3> QED
      BY <1>1, <1>2, <1>4, <1>6, <3>1
  <2>2. Access(c)' = "open" => runs'[c] <= (Before + Since(c))'
    <3> SUFFICES ASSUME Access(c)' = "open" PROVE runs'[c] <= (Before + Since(c))'
      OBVIOUS
    <3>1. runs'[c] = runs[c] /\ runs[c] <= Before + Since(c)
      BY <1>1, <1>3, <1>6 DEF CallOK
    <3> QED
      BY <1>1, <1>2, <1>4, <1>6, <3>1
  <2>3. /\ approved'[c] <= runs'[c]
        /\ runs'[c] > 0 => approved'[c] > 0 \/ Access(c)' = "open"
        /\ carded'[c] > 0 \/ approved'[c] > 0 => Access(c)' = "approval"
    BY <1>1, <1>3 DEF CallOK
  <2>4. ask'[c] \in Rows /\ ask'[c].request \in Orders
    BY <1>1, <1>2, <1>6 DEF CallOK
  <2> QED
    BY <1>2, <1>6, <2>1, <2>2, <2>3, <2>4 DEF CallOK
<1> QED
  BY <1>5, <1>6

(* What a crash makes of a card. *)
Left(m, j) ==
  /\ SameCard(m, j) /\ j.nr = m.nr /\ j \in CardRows
  /\ j = m \/ (m.ran = "now" /\ j.ran = "yes")

LEMMA AbandonedCards ==
  ASSUME NEW S \in SUBSET CardRows, NEW j \in Abandoned(S)
  PROVE  \E m \in S : Left(m, j)
<1>1. PICK m \in S : j = [m EXCEPT !.ran = IF @ = "now" THEN "yes" ELSE @]
  BY DEF Abandoned
<1>2. CASE m.ran = "now"
  <2>1. j = [m EXCEPT !.ran = "yes"]
    BY <1>1, <1>2
  <2>2. Left(m, j)
    BY <1>2, <2>1 DEF Left, SameCard, CardRows
  <2> QED
    BY <2>2
<1>3. CASE m.ran # "now"
  <2>1. j = m
    BY <1>1, <1>3 DEF CardRows
  <2>2. Left(m, j)
    BY <2>1 DEF Left, SameCard
  <2> QED
    BY <2>2
<1> QED
  BY <1>2, <1>3

(* The cards of a call other than those of a handler that is awaited stay  *)
(* as they are in a crash.                                                 *)
LEMMA CrashInv ==
  ASSUME CommandsInv, HostCrashes
  PROVE  CommandsStep
<1>1. /\ HostDown /\ cards' = Abandoned(cards)
      /\ UNCHANGED <<db, client, reply, ops, runs, carded, approved, touched>>
  BY DEF HostCrashes
<1>2. /\ FaultsTyped' /\ outages' = outages + 1 /\ outages' \in Nat /\ outages \in Nat
      /\ ask' \in [Ncls -> Rows \cup {NoAsk}] /\ tries' \in [Ncls -> 0 .. MaxTries - 1]
      /\ \A d \in Ncls : ask'[d].by = ask[d].by /\ Called(d)' = Called(d)
  BY <1>1, DownFacts, CommandCounts
<1>3. \A j \in cards' : \E m \in cards : Left(m, j)
  BY <1>1, AbandonedCards DEF CommandsInv, CountsTyped
<1>4. CommandsTypeOK' /\ CountsTyped'
  <2>1. /\ cards' \subseteq CardRows
        /\ \A j \in cards' : /\ j.call \in Ncls /\ j.nr \in 1 .. carded'[j.call]
                              /\ j.frame \in Requests /\ j.ran \in {"no", "now", "yes"}
    <3> SUFFICES ASSUME NEW j \in cards'
                 PROVE  /\ j \in CardRows /\ j.nr \in 1 .. carded'[j.call]
      BY DEF CardRows
    <3>1. PICK m \in cards : Left(m, j)
      BY <1>3
    <3>2. m.nr \in 1 .. carded[m.call]
      BY CardCall
    <3> QED
      BY <1>1, <3>1, <3>2 DEF Left, SameCard
  <2> QED
    BY <1>1, <1>2, <2>1 DEF CommandsInv, CommandsTypeOK, CountsTyped, FaultsTyped
<1>5. ASSUME NEW d \in Ncls PROVE CallOK(d)'
  BY <1>1, DownCall
<1>6. ASSUME NEW d \in Ncls PROVE StuckOK(d)'
  <2>1. ASSUME Called(d) \notin Destined, NEW j \in Stuck(d)' PROVE j \in Stuck(d)
    <3>1. j \in cards' /\ j.call = d /\ j.ran = "yes"
      BY <2>1 DEF Stuck
    <3>2. PICK m \in cards : Left(m, j)
      BY <1>3, <3>1
    <3>3. m.call = d /\ m.ran # "now"
      BY <2>1, <3>1, <3>2 DEF Left, SameCard, CommandsInv, CardOK
    <3> QED
      BY <3>1, <3>2, <3>3 DEF Left, Stuck
  <2> QED
    BY <1>1, <1>2, <2>1, StuckStays
<1>7. ASSUME NEW j \in cards' PROVE CardOK(j)'
  <2>1. PICK m \in cards : Left(m, j)
    BY <1>3
  <2>2. m.call \in Ncls /\ approved[m.call] \in Nat
    BY CardCall, CommandCounts
  <2> QED
    BY <1>1, <1>2, <2>1, <2>2, CardStays DEF Left
<1>8. OwnGroups'
  BY <1>1 DEF CommandsInv, OwnGroups, OwnGroupOnly
<1>9. CommandsInv'
  BY <1>4, <1>5, <1>6, <1>7, <1>8 DEF CommandsInv
<1> QED
  BY <1>1, <1>9, ReplyStays

(* What an approval leaves of the cards: the other cards, but for those    *)
(* whose handlers a crash cut off; and the card itself, as one whose       *)
(* handler has run, where its handler is awaited or the host crashed.      *)
LEMMA ApprovedCards ==
  ASSUME CommandsInv, NEW k \in cards, AdminApproves(k), NEW j \in cards'
  PROVE  \/ j \in cards \ {k}
         \/ HostDown /\ \E m \in cards \ {k} : Left(m, j)
         \/ /\ SameCard(k, j) /\ j.nr = k.nr /\ j \in CardRows
            /\ \/ ~HostDown /\ j.ran = "now" /\ Called(k.call) \in Destined
               \/ HostDown /\ j = [k EXCEPT !.ran = "yes"] /\ j.ran = "yes"
<1> DEFINE r == Parsed(k.frame)
<1>1. k \in CardRows /\ k.frame \in Requests /\ r \in Requests /\ r.verb = k.frame.verb
  BY CardCall, ParsedRequest
<1>2. r.verb = Called(k.call)
  BY <1>1 DEF CommandsInv, CardOK
<1>3. ASSUME NEW how \in {"now", "yes"}, NEW x, x = [k EXCEPT !.ran = how]
      PROVE  SameCard(k, x) /\ x.nr = k.nr /\ x \in CardRows /\ x.ran = how
  BY <1>1, <1>3 DEF SameCard, CardRows
<1>4. \/ /\ IF r.verb \in Destined THEN RunAsHost(r, Ran(k, "now"))
                                   ELSE RunAsHost(r, cards \ {k})
         /\ UNCHANGED outages
      \/ RunAsHost(r, Abandoned(Ran(k, "yes"))) /\ HostDown
  BY DEF AdminApproves
<1> HIDE DEF r
<1>5. UNCHANGED outages => ~HostDown
  BY CommandCounts DEF HostDown
<1>6. CASE r.verb \in Destined /\ RunAsHost(r, Ran(k, "now")) /\ UNCHANGED outages
  <2>1. j \in cards \ {k} \/ j = [k EXCEPT !.ran = "now"]
    BY <1>1, <1>6, HostRunInv DEF Ran
  <2>2. CASE j = [k EXCEPT !.ran = "now"]
    <3>1. SameCard(k, j) /\ j.nr = k.nr /\ j \in CardRows /\ j.ran = "now"
      BY <1>3, <2>2
    <3> QED
      BY <1>2, <1>5, <1>6, <3>1
  <2> QED
    BY <2>1, <2>2
<1>7. CASE RunAsHost(r, cards \ {k})
  BY <1>1, <1>7, HostRunInv
<1>8. CASE RunAsHost(r, Abandoned(Ran(k, "yes"))) /\ HostDown
  <2>1. j \in Abandoned(Ran(k, "yes"))
    BY <1>1, <1>8, HostRunInv
  <2>2. Ran(k, "yes") \subseteq CardRows
    <3>1. [k EXCEPT !.ran = "yes"] \in CardRows
      BY <1>3
    <3> QED
      BY <3>1 DEF Ran, CommandsInv, CountsTyped
  <2>3. PICK m \in Ran(k, "yes") : Left(m, j)
    BY <2>1, <2>2, AbandonedCards
  <2>4. CASE m = [k EXCEPT !.ran = "yes"]
    <3>1. SameCard(k, m) /\ m.nr = k.nr /\ m \in CardRows /\ m.ran = "yes"
      BY <1>3, <2>4
    <3>2. j = m
      BY <2>3, <3>1 DEF Left
    <3> QED
      BY <1>8, <2>4, <3>1, <3>2
  <2>5. CASE m \in cards \ {k}
    BY <1>8, <2>3, <2>5
  <2> QED
    BY <2>3, <2>4, <2>5 DEF Ran
<1> QED
  BY <1>4, <1>6, <1>7, <1>8

(* A command with neither a card that was left behind nor a crash ran for  *)
(* an approval of its own.                                                 *)
LEMMA ApprovalPaid ==
  ASSUME CommandsInv, NEW k \in cards, AdminApproves(k), StuckOK(k.call),
         Called(k.call) \notin Destined, Access(k.call) = "approval"
  PROVE  /\ IsFiniteSet(Stuck(k.call)')
         /\ runs'[k.call] + Cardinality(Stuck(k.call)') <= approved'[k.call] + outages'
<1> DEFINE c == k.call
<1>1. /\ c \in Ncls /\ k \in CardRows /\ CardOK(k)
      /\ runs \in [Ncls -> Nat] /\ approved \in [Ncls -> Nat] /\ outages \in Nat
  BY CardCall, CommandCounts DEF CommandsInv
<1>2. /\ k.ran \in {"no", "yes"}
      /\ runs'[c] = runs[c] + 1
      /\ approved'[c] = IF k.ran = "no" THEN approved[c] + 1 ELSE approved[c]
  BY <1>1 DEF AdminApproves, CardOK, CardRows
<1>3. IsFiniteSet(Stuck(c)) /\ runs[c] + Cardinality(Stuck(c)) <= approved[c] + outages
  BY DEF StuckOK
<1>4. Cardinality(Stuck(c)) \in Nat
  BY <1>3, FS_CardinalityType
<1>5. outages' = outages \/ HostDown
  BY DEF AdminApproves
<1>6. HostDown => outages' = outages + 1
  BY DEF HostDown
<1>7. ASSUME NEW j \in Stuck(c)'
      PROVE  j \in Stuck(c) \ {k} \/ (HostDown /\ j = [k EXCEPT !.ran = "yes"])
  <2>1. j \in cards' /\ j.call = c /\ j.ran = "yes"
    BY <1>7 DEF Stuck
  <2>2. CASE j \in cards \ {k}
    BY <2>1, <2>2 DEF Stuck
  <2>3. ASSUME NEW m \in cards \ {k}, Left(m, j) PROVE j \in Stuck(c) \ {k}
    <3>1. m.call = c /\ m.ran # "now"
      BY <2>1, <2>3 DEF Left, SameCard, CommandsInv, CardOK
    <3> QED
      BY <2>1, <2>3, <3>1 DEF Left, Stuck
  <2> QED
    BY <2>1, <2>2, <2>3, ApprovedCards
<1> HIDE DEF c
<1>8. CASE k.ran = "yes"
  <2>1. k \in Stuck(c)
    BY <1>8 DEF Stuck, c
  <2>2. [k EXCEPT !.ran = "yes"] = k
    BY <1>1, <1>8 DEF CardRows
  <2>3. HostDown => Stuck(c)' \subseteq Stuck(c)
    BY <1>7, <2>1, <2>2
  <2>4. ~HostDown => Stuck(c)' \subseteq Stuck(c) \ {k}
    BY <1>7
  <2>5. /\ IsFiniteSet(Stuck(c) \ {k})
        /\ Cardinality(Stuck(c) \ {k}) = Cardinality(Stuck(c)) - 1
    BY <1>3, <2>1, FS_RemoveElement
  <2>6. CASE HostDown
    <3>1. IsFiniteSet(Stuck(c)') /\ Cardinality(Stuck(c)') <= Cardinality(Stuck(c))
      BY <1>3, <2>3, <2>6, FS_Subset
    <3>2. Cardinality(Stuck(c)') \in Nat
      BY <3>1, FS_CardinalityType
    <3>3. runs'[c] + Cardinality(Stuck(c)') <= approved'[c] + outages'
      BY <1>1, <1>2, <1>3, <1>4, <1>6, <1>8, <2>6, <3>1, <3>2
    <3> QED
      BY <3>1, <3>3 DEF c
  <2>7. CASE ~HostDown
    <3>1. IsFiniteSet(Stuck(c)') /\ Cardinality(Stuck(c)') <= Cardinality(Stuck(c)) - 1
      BY <2>4, <2>5, <2>7, FS_Subset
    <3>2. Cardinality(Stuck(c)') \in Nat
      BY <3>1, FS_CardinalityType
    <3>3. runs'[c] + Cardinality(Stuck(c)') <= approved'[c] + outages'
      BY <1>1, <1>2, <1>3, <1>4, <1>5, <1>8, <2>7, <3>1, <3>2
    <3> QED
      BY <3>1, <3>3 DEF c
  <2> QED
    BY <2>6, <2>7
<1>9. CASE k.ran = "no"
  <2>1. CASE HostDown
    <3>1. Stuck(c)' \subseteq Stuck(c) \cup {[k EXCEPT !.ran = "yes"]}
      BY <1>7
    <3>2. /\ IsFiniteSet(Stuck(c) \cup {[k EXCEPT !.ran = "yes"]})
          /\ \/ Cardinality(Stuck(c) \cup {[k EXCEPT !.ran = "yes"]}) = Cardinality(Stuck(c))
             \/ Cardinality(Stuck(c) \cup {[k EXCEPT !.ran = "yes"]}) = Cardinality(Stuck(c)) + 1
      BY <1>3, FS_AddElement
    <3>3. /\ IsFiniteSet(Stuck(c)')
          /\ Cardinality(Stuck(c)') <= Cardinality(Stuck(c) \cup {[k EXCEPT !.ran = "yes"]})
      BY <3>1, <3>2, FS_Subset
    <3>4. Cardinality(Stuck(c)') \in Nat
      BY <3>3, FS_CardinalityType
    <3>5. Cardinality(Stuck(c)') <= Cardinality(Stuck(c)) + 1
      BY <1>4, <3>2, <3>3, <3>4
    <3>6. runs'[c] + Cardinality(Stuck(c)') <= approved'[c] + outages'
      BY <1>1, <1>2, <1>3, <1>4, <1>6, <1>9, <2>1, <3>4, <3>5
    <3> QED
      BY <3>3, <3>6 DEF c
  <2>2. CASE ~HostDown
    <3>1. Stuck(c)' \subseteq Stuck(c)
      BY <1>7, <2>2
    <3>2. IsFiniteSet(Stuck(c)') /\ Cardinality(Stuck(c)') <= Cardinality(Stuck(c))
      BY <1>3, <3>1, FS_Subset
    <3>3. Cardinality(Stuck(c)') \in Nat
      BY <3>2, FS_CardinalityType
    <3>4. runs'[c] + Cardinality(Stuck(c)') <= approved'[c] + outages'
      BY <1>1, <1>2, <1>3, <1>4, <1>5, <1>9, <2>2, <3>2, <3>3
    <3> QED
      BY <3>2, <3>4 DEF c
  <2> QED
    BY <2>1, <2>2
<1> QED
  BY <1>2, <1>8, <1>9

LEMMA ApproveInv ==
  ASSUME CommandsInv, NEW k \in cards, AdminApproves(k)
  PROVE  CommandsStep
<1> DEFINE c == k.call
           r == Parsed(k.frame)
<1>1. /\ c \in Ncls /\ carded[c] > 0 /\ r \in Requests /\ r.verb = k.frame.verb
      /\ r.target = k.frame.target \/ k.frame.dashed # None
      /\ runs \in [Ncls -> Nat] /\ approved \in [Ncls -> Nat] /\ carded \in [Ncls -> Nat]
      /\ k \in CardRows /\ outages \in Nat
  BY CardCall, CommandCounts, ParsedRequest
<1>2. CallOK(c) /\ CardOK(k) /\ StuckOK(c)
  BY <1>1 DEF CommandsInv
<1>3. Access(c) = "approval" /\ approved[c] <= runs[c] /\ client[c] # "idle"
  BY <1>1, <1>2 DEF CallOK, Untouched
<1>4. /\ UNCHANGED <<client, reply, ops, carded>>
      /\ runs' = [runs EXCEPT ![c] = @ + 1]
      /\ approved' = [approved EXCEPT ![c] = IF k.ran = "no" THEN @ + 1 ELSE @]
      /\ \/ UNCHANGED <<ask, tries, outages, faults>>
         \/ HostDown
      /\ \/ UNCHANGED touched
         \/ Touches(ask[c].by, k.was, Changes(r))
      /\ \E left \in {Ran(k, "now"), cards \ {k}, Abandoned(Ran(k, "yes"))} : RunAsHost(r, left)
  BY DEF AdminApproves, rowVars
<1>5. /\ runs' \in [Ncls -> Nat] /\ runs'[c] = runs[c] + 1 /\ \A d \in Ncls \ {c} : runs'[d] = runs[d]
      /\ approved' \in [Ncls -> Nat] /\ approved'[c] \in {approved[c], approved[c] + 1}
      /\ k.ran = "no" => approved'[c] = approved[c] + 1
      /\ \A d \in Ncls \ {c} : approved'[d] = approved[d]
  BY <1>1, <1>4
<1>6. db' \in [groups : SUBSET Groups, scope : [Groups -> Scopes],
               members : SUBSET (People \X Groups), destined : SUBSET Groups]
  BY <1>1, <1>4, HostRunInv
<1>7. /\ FaultsTyped' /\ outages' \in Nat /\ outages <= outages'
      /\ ask' \in [Ncls -> Rows \cup {NoAsk}] /\ tries' \in [Ncls -> 0 .. MaxTries - 1]
      /\ \A d \in Ncls : ask'[d].by = ask[d].by /\ Called(d)' = Called(d)
  <2>1. CASE HostDown
    BY <1>1, <2>1, DownFacts
  <2>2. CASE UNCHANGED <<ask, tries, outages, faults>>
    <3>1. /\ faults \in 0 .. MaxFaults /\ ask \in [Ncls -> Rows \cup {NoAsk}]
          /\ tries \in [Ncls -> 0 .. MaxTries - 1]
      BY DEF CommandsInv, CommandsTypeOK
    <3>2. FaultsTyped' /\ \A d \in Ncls : Called(d)' = Called(d)
      BY <2>2, <3>1 DEF FaultsTyped, Called
    <3>3. outages' \in Nat /\ outages <= outages'
      BY <1>1, <2>2
    <3> QED
      BY <2>2, <3>1, <3>2, <3>3
  <2> QED
    BY <1>4, <2>1, <2>2
<1>8. approved'[c] <= runs'[c] /\ approved'[c] > 0
  <2>1. k.ran # "no" => approved[c] > 0
    BY <1>2 DEF CardOK
  <2> QED
    BY <1>1, <1>3, <1>5, <2>1
<1> HIDE DEF c, r
<1>9. ASSUME NEW j \in cards'
      PROVE  j \in CardRows /\ j.nr \in 1 .. carded'[j.call] /\ CardOK(j)'
  <2>1. \A d \in Ncls : approved'[d] \in Nat /\ approved[d] <= approved'[d]
    BY <1>1, <1>5
  <2>2. CASE \E m \in cards : Left(m, j)
    <3>1. PICK m \in cards : Left(m, j)
      BY <2>2
    <3>2. m.call \in Ncls /\ m.nr \in 1 .. carded[m.call]
      BY CardCall
    <3>3. CardOK(j)'
      BY <1>7, <2>1, <3>1, <3>2, CardStays DEF Left
    <3> QED
      BY <1>4, <3>1, <3>2, <3>3 DEF Left, SameCard
  <2>3. CASE j \in cards
    <3>1. Left(j, j)
      BY <2>3 DEF Left, SameCard, CommandsInv, CountsTyped
    <3> QED
      BY <2>2, <2>3, <3>1
  <2>4. CASE /\ SameCard(k, j) /\ j.nr = k.nr /\ j \in CardRows
             /\ \/ j.ran = "now" /\ Called(k.call) \in Destined
                \/ j.ran = "yes"
    <3>1. k.nr \in 1 .. carded[k.call]
      BY CardCall
    <3>2. j.call = c /\ approved'[c] > 0
      BY <1>8, <2>4 DEF SameCard, c
    <3>3. OwnFrame(j.was, j.frame, ask'[j.call].by) /\ j.frame.verb = Called(j.call)'
      BY <1>1, <1>2, <1>7, <2>4, <3>2 DEF CardOK, SameCard, c
    <3>4. j.ran = "now" => Called(j.call)' \in Destined
      BY <1>1, <1>7, <2>4, <3>2 DEF c
    <3>5. CardOK(j)'
      BY <3>2, <3>3, <3>4 DEF CardOK
    <3> QED
      BY <1>4, <2>4, <3>1, <3>5 DEF SameCard
  <2> QED
    BY <2>2, <2>3, <2>4, ApprovedCards
<1>10. CommandsTypeOK' /\ CountsTyped'
  <2>1. cards' \subseteq CardRows /\ \A j \in cards' : j.nr \in 1 .. carded'[j.call]
    BY <1>9
  <2>2. \A j \in cards' : j.call \in Ncls /\ j.frame \in Requests /\ j.ran \in {"no", "now", "yes"}
    BY <2>1 DEF CardRows
  <2> QED
    BY <1>4, <1>5, <1>6, <1>7, <2>1, <2>2 DEF CommandsInv, CommandsTypeOK, CountsTyped, FaultsTyped
<1>11. ASSUME NEW d \in Ncls PROVE CallOK(d)'
  <2>1. CASE d = c
    <3>1. CASE HostDown
      BY <1>3, <1>4, <1>5, <1>8, <2>1, <3>1, DownCall
    <3>2. CASE UNCHANGED <<ask, tries, outages, faults>>
      <4>1. /\ Called(c)' = Called(c) /\ Access(c)' = Access(c) /\ Since(c)' = Since(c)
            /\ Before' = Before /\ (Asked(c)' <=> Asked(c))
        BY <3>2 DEF Called, Access, Since, Before, Asked
      <4> QED
        BY <1>2, <1>3, <1>4, <1>5, <1>8, <2>1, <3>2, <4>1 DEF CallOK
    <3> QED
      BY <1>4, <3>1, <3>2
  <2>2. CASE d # c
    <3>1. CASE HostDown
      BY <1>4, <1>5, <2>2, <3>1, DownCall
    <3>2. CASE UNCHANGED <<ask, tries, outages, faults>>
      BY <1>4, <1>5, <2>2, <3>2, CallStays DEF CommandsInv
    <3> QED
      BY <1>4, <3>1, <3>2
  <2> QED
    BY <2>1, <2>2
<1>12. ASSUME NEW d \in Ncls PROVE StuckOK(d)'
  <2>1. CASE d = c
    <3>1. Access(c)' = Access(c) /\ Called(c)' = Called(c)
      BY <1>1, <1>7 DEF Access
    <3>2. Called(c) \notin Destined /\ Access(c) = "approval" =>
            IsFiniteSet(Stuck(c)') /\ runs'[c] + Cardinality(Stuck(c)') <= approved'[c] + outages'
      BY <1>2, ApprovalPaid DEF c
    <3> QED
      BY <2>1, <3>1, <3>2 DEF StuckOK
  <2>2. CASE d # c
    <3>1. ASSUME Called(d) \notin Destined, NEW j \in Stuck(d)' PROVE j \in Stuck(d)
      <4>1. j \in cards' /\ j.call = d /\ j.ran = "yes"
        BY <3>1 DEF Stuck
      <4>2. ASSUME NEW m \in cards, Left(m, j) PROVE j \in Stuck(d)
        <5>1. m.call = d /\ m.ran # "now"
          BY <3>1, <4>1, <4>2 DEF Left, SameCard, CommandsInv, CardOK
        <5> QED
          BY <4>1, <4>2, <5>1 DEF Left, Stuck
      <4>3. ~SameCard(k, j)
        BY <2>2, <4>1 DEF SameCard, c
      <4> QED
        BY <4>1, <4>2, <4>3, ApprovedCards DEF Stuck
    <3> QED
      BY <1>5, <1>7, <2>2, <3>1, StuckStays
  <2> QED
    BY <2>1, <2>2
<1>13. OwnGroups'
  <2> SUFFICES ASSUME OneSpelling PROVE OwnGroupOnly'
    BY DEF OwnGroups
  <2>1. k.was # "disabled" /\ (k.was = "group" => k.frame.target = ask[c].by /\ k.frame.dashed = None)
    BY <1>2 DEF CardOK, OwnFrame, c
  <2>2. k.was = "group" => r.target = ask[c].by
    BY <1>1, <2>1
  <2>3. touched' \subseteq touched \cup {<<ask[c].by, k.was, h>> : h \in {r.target}}
    BY <1>4 DEF Touches, Changes
  <2>4. OwnGroupOnly
    BY DEF CommandsInv, OwnGroups
  <2> QED
    BY <2>1, <2>2, <2>3, <2>4 DEF OwnGroupOnly
<1>14. CommandsInv'
  BY <1>9, <1>10, <1>11, <1>12, <1>13 DEF CommandsInv
<1> QED
  BY <1>4, <1>14, ReplyStays

(* Whatever only takes cards away, or changes the tables or a client.      *)
LEMMA AsideInv ==
  ASSUME CommandsInv, UNCHANGED <<ask, tries, reply, commandHist>>, FaultsTyped',
         cards' \subseteq cards, ops' \in 0 .. MaxOps,
         db' \in [groups : SUBSET Groups, scope : [Groups -> Scopes], members : SUBSET (People \X Groups), destined : SUBSET Groups],
         client' \in [Ncls -> {"idle", "polling", "answered", "timed out"}],
         \A d \in Ncls : client'[d] = client[d] \/ (client[d] # "idle" /\ client'[d] # "idle")
  PROVE  CommandsStep
<1>1. UNCHANGED <<runs, carded, approved, touched, outages>>
  BY DEF commandHist
<1>2. CommandsTypeOK' /\ CountsTyped'
  BY <1>1 DEF CommandsInv, CommandsTypeOK, CountsTyped, FaultsTyped
<1>3. \A d \in Ncls : CallOK(d)'
  BY <1>1, CallStays DEF CommandsInv
<1>4. \A d \in Ncls : Called(d)' = Called(d)
  BY DEF Called
<1>5. \A k \in cards' : CardOK(k)'
  BY <1>1, <1>4, CardsStay
<1>6. OwnGroups'
  BY <1>1 DEF CommandsInv, OwnGroups, OwnGroupOnly
<1>7. \A d \in Ncls : StuckOK(d)'
  BY <1>1, <1>4, StuckSame
<1>8. CommandsInv'
  BY <1>2, <1>3, <1>5, <1>6, <1>7 DEF CommandsInv
<1> QED
  BY <1>8, ReplyStays

LEMMA OtherCommandInv ==
  ASSUME CommandsInv,
         \/ \E k \in cards : HandlerReturns(k) \/ AdminRejects(k)
         \/ \E r \in Operations : Operate(r)
         \/ \E c \in Ncls : Receive(c) \/ TimesOut(c)
         \/ UNCHANGED commandsVars
  PROVE  CommandsStep
<1> USE CommandNats
<1>1. /\ db \in [groups : SUBSET Groups, scope : [Groups -> Scopes], members : SUBSET (People \X Groups), destined : SUBSET Groups]
      /\ client \in [Ncls -> {"idle", "polling", "answered", "timed out"}]
      /\ ops \in 0 .. MaxOps
  BY DEF CommandsInv, CommandsTypeOK
<1>2. UNCHANGED faults => FaultsTyped'
  BY FaultTyped DEF CommandsInv
<1>3. ASSUME NEW k \in cards, HandlerReturns(k) \/ AdminRejects(k) PROVE CommandsStep
  BY <1>1, <1>2, <1>3, AsideInv DEF HandlerReturns, AdminRejects, rowVars
<1>4. ASSUME NEW r \in Operations, Operate(r) PROVE CommandsStep
  <2>1. Parsed(Resolve(r)) \in Requests
    BY ResolvedRequest, ParsedRequest, CommandBounds DEF CommandBoundsOK
  <2>2. /\ db' \in [groups : SUBSET Groups, scope : [Groups -> Scopes], members : SUBSET (People \X Groups), destined : SUBSET Groups]
        /\ cards' \subseteq cards
    BY <1>4, <2>1, HostRunInv DEF Operate
  <2>3. ops' \in 0 .. MaxOps
    <3>1. ops < MaxOps /\ ops' = ops + 1
      BY <1>4 DEF Operate
    <3>2. ops \in 0 .. MaxOps
      BY <1>1
    <3> QED
      BY <3>1, <3>2
  <2> QED
    BY <1>1, <1>2, <1>4, <2>2, <2>3, AsideInv DEF Operate, rowVars
<1>5. ASSUME NEW c \in Ncls, Receive(c) \/ TimesOut(c) PROVE CommandsStep
  <2>1. /\ UNCHANGED <<db, ask, tries, reply, cards, ops, commandHist, faults>>
        /\ client[c] = "polling"
        /\ client' = [client EXCEPT ![c] = "answered"] \/ client' = [client EXCEPT ![c] = "timed out"]
    BY <1>5 DEF Receive, TimesOut, rowVars
  <2>2. /\ client' \in [Ncls -> {"idle", "polling", "answered", "timed out"}]
        /\ \A d \in Ncls : client'[d] = client[d] \/ (client[d] # "idle" /\ client'[d] # "idle")
    BY <1>1, <2>1
  <2> QED
    BY <1>1, <1>2, <2>1, <2>2, AsideInv
<1>6. CASE UNCHANGED commandsVars
  BY <1>1, <1>2, <1>6, AsideInv DEF commandsVars
<1> QED
  BY <1>3, <1>4, <1>5, <1>6

(* A call is made once. *)
LEMMA CallInv ==
  ASSUME CommandsInv, NEW c \in Ncls, NEW g \in Askers, NEW r \in Orders, Call(c, g, r)
  PROVE  CommandsStep
<1> USE CommandNats
<1>1. PICK row : row = [stage |-> "due", by |-> g, request |-> r, frame |-> r, was |-> ScopeOf(g)]
  OBVIOUS
<1>2. row \in Rows /\ row.stage = "due"
  <2>1. ScopeOf(g) \in Scopes /\ g \in Groups /\ r \in Requests
    BY ScopeTyped, CommandBounds DEF CommandsInv, CommandBoundsOK
  <2> QED
    BY <1>1, <2>1 DEF Rows
<1>3. /\ client[c] = "idle" /\ client' = [client EXCEPT ![c] = "polling"]
      /\ ask' = [ask EXCEPT ![c] = row]
      /\ UNCHANGED <<db, reply, tries, cards, ops, runs, carded, approved, touched, outages, faults>>
  BY <1>1 DEF Call, commandHist
<1>4. /\ client \in [Ncls -> {"idle", "polling", "answered", "timed out"}]
      /\ ask \in [Ncls -> Rows \cup {NoAsk}] /\ tries \in [Ncls -> 0 .. MaxTries - 1]
  BY DEF CommandsInv, CommandsTypeOK
<1>5. /\ ask' \in [Ncls -> Rows \cup {NoAsk}] /\ ask'[c] = row
      /\ \A d \in Ncls \ {c} : ask'[d] = ask[d]
      /\ client' \in [Ncls -> {"idle", "polling", "answered", "timed out"}] /\ client'[c] # "idle"
      /\ \A d \in Ncls \ {c} : client'[d] = client[d]
  BY <1>2, <1>3, <1>4
<1>6. CallOK(c) /\ Untouched(c)
  BY <1>3 DEF CommandsInv, CallOK
<1>7. CommandsTypeOK' /\ CountsTyped'
  BY <1>3, <1>5 DEF CommandsInv, CommandsTypeOK, CountsTyped
<1>8. \A d \in Ncls \ {c} : CallOK(d)'
  BY <1>3, <1>5, CallStays DEF CommandsInv
<1>9. CallOK(c)'
  <2>1. runs'[c] = 0 /\ carded'[c] = 0 /\ approved'[c] = 0 /\ ~Asked(c)'
    <3>1. ask'[c].stage = "due"
      BY <1>2, <1>5
    <3> QED
      BY <1>3, <1>6, <3>1 DEF Untouched, Asked
  <2>2. Before' \in Nat /\ Since(c)' \in Nat
    <3>1. ask'[c].stage = "due" /\ tries'[c] \in Nat
      <4>1. ask'[c].stage = "due"
        BY <1>2, <1>5
      <4>2. tries'[c] = tries[c]
        BY <1>3
      <4>3. tries[c] \in Nat
        BY CommandCounts
      <4> QED
        BY <4>1, <4>2, <4>3
    <3>2. Since(c)' \in Nat
      BY <3>1 DEF Since
    <3>3. outages \in Nat
      BY CommandCounts
    <3>4. Before \in Nat /\ Before' = Before
      <4>1. MaxTries * outages \in Nat
        BY <3>3
      <4>2. outages' = outages
        BY <1>3
      <4> QED
        BY <4>1, <4>2 DEF Before
    <3> QED
      BY <3>2, <3>4
  <2>3. ask'[c] \in Rows /\ client'[c] # "idle"
    BY <1>2, <1>5
  <2>4. 0 <= Before' + Since(c)'
    BY <2>2
  <2>5. /\ carded'[c] <= (Before + Since(c))' /\ runs'[c] <= (Before + Since(c))'
        /\ approved'[c] <= runs'[c] /\ ~(runs'[c] > 0)
        /\ ~(carded'[c] > 0) /\ ~(approved'[c] > 0)
    BY <2>1, <2>4
  <2>6. ask'[c].request \in Orders
    <3>1. row.request = r
      BY <1>1
    <3> QED
      BY <1>5, <3>1
  <2> QED
    BY <2>1, <2>3, <2>5, <2>6 DEF CallOK
<1>10. \A k \in cards : k.call \in Ncls /\ k.call # c
  BY <1>6, CardCall DEF Untouched
<1>11. \A d \in Ncls \ {c} : Called(d)' = Called(d)
  BY <1>5 DEF Called
<1>12. \A k \in cards' : CardOK(k)'
  <2> SUFFICES ASSUME NEW k \in cards PROVE CardOK(k)'
    BY <1>3
  <2>1. ask'[k.call] = ask[k.call] /\ Called(k.call)' = Called(k.call) /\ k.call \in Ncls
    BY <1>5, <1>10, <1>11
  <2>2. approved[k.call] \in Nat
    BY <2>1, CommandCounts
  <2> QED
    BY <1>3, <2>1, <2>2, CardStays DEF SameCard
<1>13. ASSUME NEW d \in Ncls PROVE StuckOK(d)'
  <2>1. CASE d # c
    BY <1>3, <1>11, <2>1, StuckSame
  <2>2. CASE d = c
    <3>1. Stuck(c)' = {}
      BY <1>3, <1>10 DEF Stuck
    <3>2. runs'[c] = 0 /\ approved'[c] = 0 /\ outages' \in Nat
      BY <1>3, <1>6, CommandCounts DEF Untouched
    <3>3. IsFiniteSet(Stuck(c)') /\ Cardinality(Stuck(c)') = 0
      BY <3>1, FS_EmptySet
    <3> QED
      BY <2>2, <3>2, <3>3 DEF StuckOK
  <2> QED
    BY <2>1, <2>2
<1>14. OwnGroups'
  BY <1>3 DEF CommandsInv, OwnGroups, OwnGroupOnly
<1>15. CommandsInv'
  BY <1>7, <1>8, <1>9, <1>12, <1>13, <1>14 DEF CommandsInv
<1> QED
  BY <1>3, <1>15, ReplyStays

LEMMA CommandsStepInv ==
  ASSUME CommandsInv, [CommandsNext]_commandsVars
  PROVE  CommandsStep
<1>1. ASSUME NEW c \in Ncls, Serve(c) PROVE CommandsStep
  BY <1>1, RefuseInv, HandleInv, AskInv, CardRowInv, PendingInv DEF Serve
<1>2. ASSUME NEW c \in Ncls, NoAdmin(c) PROVE CommandsStep
  BY <1>2, PendingInv
<1> QED
  BY <1>1, <1>2, CallInv, ApproveInv, CrashInv, OtherCommandInv DEF CommandsNext

LEMMA CommandsInductive == CommandsSpec => []CommandsInv
<1>1. CommandsInv /\ [CommandsNext]_commandsVars => CommandsInv'
  BY CommandsStepInv DEF CommandsStep
<1> QED
  BY CommandsInitially, <1>1, PTL DEF CommandsSpec

(* A call is dispatched by one way only, open or by approval, and at most  *)
(* MaxTries times between two crashes: so whatever an agent asks for, what *)
(* an admin approved runs once for each approval, and once more at most    *)
(* for each crash between a handler and the deletion of its card, and what *)
(* fails is repeated a bounded number of times (handleRegisteredApproval,  *)
(* deliverSessionMessages).                                                *)
THEOREM RunsAreBounded == CommandsSpec => [](RunsOnApproval /\ RepeatsBounded)
<1>1. CommandsInv => RunsOnApproval /\ RepeatsBounded
  <2> SUFFICES ASSUME CommandsInv PROVE RunsOnApproval /\ RepeatsBounded
    OBVIOUS
  <2>1. RunsOnApproval
    <3> SUFFICES ASSUME NEW c \in Ncls, ask[c] # NoAsk
                 PROVE  /\ approved[c] > 0 => Access(c) = "approval"
                        /\ runs[c] > 0 /\ Access(c) = "approval"
                             => /\ approved[c] \in 1 .. runs[c]
                                /\ Called(c) \notin Destined => runs[c] <= approved[c] + outages
      BY DEF RunsOnApproval, Access, Called
    <3>1. CallOK(c) /\ StuckOK(c) /\ runs[c] \in Nat /\ approved[c] \in Nat /\ outages \in Nat
      BY CommandCounts DEF CommandsInv
    <3>2. runs[c] > 0 /\ Access(c) = "approval" => approved[c] \in 1 .. runs[c]
      <4>1. "approval" # "open"
        OBVIOUS
      <4>2. runs[c] > 0 /\ Access(c) = "approval" => approved[c] > 0 /\ approved[c] <= runs[c]
        BY <3>1, <4>1 DEF CallOK
      <4> QED
        BY <3>1, <4>2
    <3>3. Access(c) = "approval" /\ Called(c) \notin Destined => runs[c] <= approved[c] + outages
      <4> SUFFICES ASSUME Access(c) = "approval", Called(c) \notin Destined
                   PROVE  runs[c] <= approved[c] + outages
        OBVIOUS
      <4>1. IsFiniteSet(Stuck(c)) /\ runs[c] + Cardinality(Stuck(c)) <= approved[c] + outages
        BY <3>1 DEF StuckOK
      <4>2. Cardinality(Stuck(c)) \in Nat
        BY <4>1, FS_CardinalityType
      <4> QED
        BY <3>1, <4>1, <4>2
    <3>4. approved[c] > 0 => Access(c) = "approval"
      BY <3>1 DEF CallOK
    <3> QED
      BY <3>2, <3>3, <3>4
  <2>2. RepeatsBounded
    <3> SUFFICES ASSUME NEW c \in Ncls
                 PROVE  /\ carded[c] <= MaxTries * (outages + 1)
                        /\ approved[c] = 0 => runs[c] <= MaxTries * (outages + 1)
      BY DEF RepeatsBounded
    <3>1. /\ tries[c] \in 0 .. MaxTries - 1 /\ outages \in Nat
          /\ runs[c] \in Nat /\ carded[c] \in Nat /\ approved[c] \in Nat
      BY CommandCounts
    <3>2. MaxTries \in Nat /\ MaxTries > 0
      BY CommandNats
    <3>3. Since(c) \in Nat /\ Since(c) <= MaxTries
      <4>1. Since(c) \in {tries[c], tries[c] + 1, MaxTries}
        BY DEF Since
      <4> QED
        BY <3>1, <3>2, <4>1
    <3>4. MaxTries * (outages + 1) = Before + MaxTries /\ Before \in Nat
      BY <3>1, <3>2 DEF Before
    <3>5. CASE client[c] = "idle"
      <4>1. runs[c] = 0 /\ carded[c] = 0 /\ approved[c] = 0
        BY <3>5 DEF CommandsInv, CallOK, Untouched
      <4> QED
        BY <3>2, <3>4, <4>1
    <3>6. CASE client[c] # "idle"
      <4>1. carded[c] <= Before + Since(c)
        BY <3>6 DEF CommandsInv, CallOK
      <4>2. approved[c] = 0 => runs[c] <= Before + Since(c)
        <5>1. approved[c] = 0 /\ runs[c] > 0 => Access(c) = "open"
          BY <3>1 DEF CommandsInv, CallOK
        <5>2. Access(c) = "open" => runs[c] <= Before + Since(c)
          BY <3>6 DEF CommandsInv, CallOK
        <5> QED
          BY <3>1, <3>3, <3>4, <5>1, <5>2
      <4> QED
        BY <3>1, <3>2, <3>3, <3>4, <4>1, <4>2
    <3> QED
      BY <3>5, <3>6
  <2> QED
    BY <2>1, <2>2
<1> QED
  BY <1>1, CommandsInductive, PTL

(* Where no order names its group in both spellings, an agent stays in its *)
(* own group besides (dispatch, normalizeArgs).                            *)
THEOREM CommandsAreSafe ==
  ASSUME OneSpelling
  PROVE  CommandsSpec => []CommandsSafe
<1>1. CommandsInv => OwnGroupOnly
  BY DEF CommandsInv, OwnGroups
<1>2. CommandsInv /\ RunsOnApproval /\ RepeatsBounded => CommandsSafe
  BY <1>1 DEF CommandsSafe
<1> QED
  BY <1>2, CommandsInductive, RunsAreBounded, PTL

(* The answer a run of ncl may have read is never replaced (the id         *)
(* cli-resp-<request>).                                                    *)
THEOREM AnswersStand == CommandsSpec => FirstAnswerStands
<1>1. CommandsInv /\ [CommandsNext]_commandsVars =>
        [\A c \in Ncls : reply[c] # NoReply => reply'[c] = reply[c]]_commandsVars
  BY CommandsStepInv DEF CommandsStep, FirstStands
<1> QED
  BY <1>1, CommandsInductive, PTL DEF CommandsSpec, FirstAnswerStands

(* A list of the groups that is not cut off shows an agent its own group   *)
(* (the filter of dispatch after a generic handler).                       *)
THEOREM OwnGroupShown == CommandsSpec => OwnGroupListed
<1>1. CommandsInv /\ [CommandsNext]_commandsVars =>
        [\A c \in Ncls :
           /\ reply[c] = NoReply /\ reply'[c] # NoReply
           /\ ask[c].request.verb = "groups-list" /\ reply'[c].code = "ok"
           /\ Cardinality(db.groups) <= Limit
           => ask[c].by \in reply'[c].shown]_commandsVars
  BY CommandsStepInv DEF CommandsStep, OwnListed
<1> QED
  BY <1>1, CommandsInductive, PTL DEF CommandsSpec, OwnGroupListed

(* Requests, tables, rows and answers keep their types through every       *)
(* command and every crash of the host.                                    *)
THEOREM CommandsTyped == CommandsSpec => []CommandsTypeOK
<1>1. CommandsInv => CommandsTypeOK
  BY DEF CommandsInv
<1> QED
  BY <1>1, CommandsInductive, PTL

-----------------------------------------------------------------------------
(***************************************************************************)
(* The six services side by side.  Tasks and commands share the budget of  *)
(* faults: a step of the one leaves the other as it is, but for it.        *)
(***************************************************************************)

ServicesInv ==
  /\ TypeOK /\ NumbersInv /\ LinksInv /\ ChatInv /\ CommandsInv
  /\ SchedulingTypeOK
  /\ part = "tasks" => SeriesInv

LEMMA SchedulingFrame ==
  ASSUME SchedulingTypeOK, UNCHANGED schedVars, faults' \in 0 .. MaxFaults
  PROVE  SchedulingTypeOK' /\ \A o \in Occurrences : ~Claim(o)
<1>1. /\ UNCHANGED <<occurrence, cron, ack, synced, cloning>>
      /\ UNCHANGED <<commands, standing, late, torn, stopped>>
  BY DEF schedVars, seriesVars, tickVars, schedHistVars
<1>2. SchedulingTypeOK'
  BY <1>1 DEF SchedulingTypeOK
<1>3. \A o \in Occurrences : ~Claim(o)
  BY <1>1 DEF SchedulingTypeOK, Claim
<1> QED
  BY <1>2, <1>3

LEMMA CommandsFrame ==
  ASSUME CommandsInv, UNCHANGED ncl, faults' \in 0 .. MaxFaults
  PROVE  CommandsStep
<1> USE CommandNats
<1>1. /\ db \in [groups : SUBSET Groups, scope : [Groups -> Scopes], members : SUBSET (People \X Groups), destined : SUBSET Groups]
      /\ client \in [Ncls -> {"idle", "polling", "answered", "timed out"}]
      /\ ops \in 0 .. MaxOps
  BY DEF CommandsInv, CommandsTypeOK
<1>2. UNCHANGED <<db, ask, client, reply, tries, cards, ops, commandHist>>
  BY DEF ncl
<1>3. FaultsTyped'
  BY DEF FaultsTyped
<1> QED
  BY <1>1, <1>2, <1>3, AsideInv

(* The variables of all six, and what their properties say of a step.      *)
servicesVars == <<vars, numbersVars, linkVars, chatVars, schedVars, ncl, faults, part>>

PauseStep == standing = "paused" /\ ~late => \A o \in Occurrences : ~Claim(o)
WinStep == callers' # callers => \E w \in wins' : w.bot \in callers' \ callers
MailStep == \A m \in DOMAIN mail : Routed(m)

LEMMA ServicesStep ==
  ASSUME ServicesInv, [ServicesNext]_servicesVars
  PROVE  ServicesInv' /\ PauseStep /\ WinStep /\ MailStep /\ FirstStands /\ OwnListed
<1> USE DEF ServicesInv
<1>1. [Next]_vars => TypeOK'
  BY TypeStep
<1>2. [NumbersNext]_numbersVars => NumbersInv'
  BY NumbersStep
<1>3. [LinksNext]_linkVars => LinksInv' /\ MailStep
  BY LinksStep DEF MailStep
<1>4. [ChatNext]_chatVars => ChatInv' /\ WinStep
  BY ChatStep DEF WinStep
<1>5. ASSUME UNCHANGED schedVars, faults' \in 0 .. MaxFaults, part # "tasks", part' = part
      PROVE  SchedulingTypeOK' /\ (part' = "tasks" => SeriesInv') /\ PauseStep
  BY <1>5, SchedulingFrame DEF PauseStep
<1>6. ASSUME UNCHANGED ncl, faults' \in 0 .. MaxFaults
      PROVE  CommandsInv' /\ FirstStands /\ OwnListed
  BY <1>6, CommandsFrame DEF CommandsStep
<1>7. faults \in 0 .. MaxFaults
  BY DEF SchedulingTypeOK
<1>8. ASSUME part = "tasks", SchedulingNext \/ UNCHANGED schedulingVars
      PROVE  SeriesInv' /\ SchedulingTypeOK' /\ PauseStep /\ faults' \in 0 .. MaxFaults
  <2>1. SeriesInv'
    BY <1>8, SchedulingStep
  <2>2. PauseStep
    BY <1>8 DEF SeriesInv, Rests, Claim, PauseStep
  <2> QED
    BY <2>1, <2>2 DEF SeriesInv, SchedulingTypeOK
<1>9. CASE part = "tasks" /\ SchedulingNext /\ UNCHANGED <<vars, numbersVars, linkVars, chatVars, ncl, part>>
  BY <1>1, <1>2, <1>3, <1>4, <1>6, <1>8, <1>9
<1>10. CASE part = "commands" /\ CommandsNext
            /\ UNCHANGED <<vars, numbersVars, linkVars, chatVars, schedVars, part>>
  <2>1. CommandsInv' /\ FirstStands /\ OwnListed
    BY <1>10, CommandsStepInv DEF CommandsStep
  <2>2. faults' \in 0 .. MaxFaults
    BY <2>1 DEF CommandsInv, CommandsTypeOK
  <2> QED
    BY <1>1, <1>2, <1>3, <1>4, <1>5, <1>10, <2>1, <2>2
<1>11. CASE UNCHANGED <<schedVars, ncl, faults, part>> /\ [Next]_vars
            /\ [NumbersNext]_numbersVars /\ [LinksNext]_linkVars /\ [ChatNext]_chatVars
  <2>1. UNCHANGED schedVars /\ UNCHANGED ncl /\ faults' \in 0 .. MaxFaults /\ part' = part
    BY <1>7, <1>11
  <2>2. UNCHANGED schedulingVars
    BY <1>11 DEF schedulingVars, schedVars
  <2>3. SchedulingTypeOK' /\ (part' = "tasks" => SeriesInv') /\ PauseStep
    BY <1>5, <1>8, <2>1, <2>2
  <2> QED
    BY <1>1, <1>2, <1>3, <1>4, <1>6, <1>11, <2>1, <2>3
<1>12. UNCHANGED servicesVars
       => UNCHANGED <<schedVars, ncl, faults, part>> /\ [Next]_vars
          /\ [NumbersNext]_numbersVars /\ [LinksNext]_linkVars /\ [ChatNext]_chatVars
  BY DEF servicesVars
<1> QED
  BY <1>9, <1>10, <1>11, <1>12 DEF ServicesNext, ChatNext

LEMMA ServicesStart == ServicesInit => ServicesInv
<1>1. SeriesInv => SchedulingTypeOK
  BY DEF SeriesInv
<1> QED
  BY <1>1, TypeInit, NumbersStart, LinksInitially, ChatStarts, SchedulingStarts, CommandsInitially
     DEF ServicesInit, ServicesInv

LEMMA ServicesInductive == ServicesSpec => []ServicesInv
<1>1. ServicesInv /\ [ServicesNext]_servicesVars => ServicesInv'
  BY ServicesStep
<1> QED
  BY ServicesStart, <1>1, PTL DEF ServicesSpec, servicesVars

(* The six services keep their types beside one another.                   *)
THEOREM ServicesTyped == ServicesSpec => []ServicesTypeOK
<1>1. LinksInv => LinksTypeOK
  BY LinksTyped DEF LinksInv, EdgesInv, MailInv
<1>2. ServicesInv => ServicesTypeOK
  BY <1>1, ChatInvTyped DEF ServicesInv, NumbersInv, CommandsInv, ServicesTypeOK
<1> QED
  BY <1>2, ServicesInductive, PTL

(* No step of a service runs a paused task, answers a command twice, lists *)
(* another group's rows, or takes the first report of a message for a      *)
(* second.                                                                 *)
THEOREM ServicesKept == ServicesSpec => ServiceSteps
<1>1. ServicesInv /\ [ServicesNext]_servicesVars =>
        /\ [PauseStep]_schedulingVars
        /\ [FirstStands]_commandsVars
        /\ [OwnListed]_commandsVars
        /\ [WinStep]_chatVars
  BY ServicesStep
<1> QED
  BY <1>1, ServicesInductive, PTL
     DEF ServicesSpec, servicesVars, ServiceSteps, PauseHolds, FirstAnswerStands, OwnGroupListed,
         FirstReportWins, PauseStep, FirstStands, OwnListed, WinStep

(* Beside the other services, too, each bot's queue is a bounded FIFO.     *)
THEOREM ServicesQueues == ServicesSpec => QueuesAreFifo
<1>1. ServicesInit => ChatInit
  BY DEF ServicesInit
<1>2. [ServicesNext]_servicesVars => [ChatNext]_chatVars
  <2>1. UNCHANGED servicesVars => UNCHANGED chatVars
    BY DEF servicesVars
  <2>2. ServicesNext => ChatNext \/ UNCHANGED chatVars
    BY DEF ServicesNext, ChatNext
  <2> QED
    BY <2>1, <2>2
<1>3. ServicesSpec => ChatSpec
  BY <1>1, <1>2, PTL DEF ServicesSpec, ChatSpec, servicesVars
<1> QED
  BY <1>3, QueuesKept

=============================================================================
