---------------------------- MODULE Registration ----------------------------
(***************************************************************************)
(* The registration of an unknown chat: the bot is addressed where no      *)
(* agent is wired, an approver gets a card, and connects the chat to an    *)
(* agent, names a new one, or rejects it.                                  *)
(*                                                                         *)
(* A button carries the index of its option.  A press is resolved against  *)
(* the options of the pending row, then the card is edited (awaited), and  *)
(* then the handler runs.                                                  *)
(***************************************************************************)
EXTENDS Naturals, FiniteSets, Sequences, Faults

CONSTANTS
  MaxGroups,    (* agent groups that exist before                           *)
  MaxMentions,  (* messages that address the bot (bound)                    *)
  MaxPresses    (* presses of buttons and new agents (bound)                *)

AgentGroups == 1 .. MaxGroups
Mentions == 1 .. MaxMentions

(* A registration may also create an agent group of its own.               *)
Created == MaxGroups + 1

ASSUME RegistrationConstants ==
  /\ MaxGroups \in Nat \ {0} /\ MaxMentions \in Nat \ {0}
  /\ MaxPresses \in Nat

VARIABLES
  chat,      (* the messaging group: absent, open, or denied_at is set      *)
  wired,     (* agent groups wired to the chat                              *)
  heard,     (* how many messages have arrived                              *)
  requests,  (* calls of requestChannelApproval before their row            *)
  pending,   (* pending_channel_approvals: no row, or its message and menu  *)
  posting,   (* menus of cards on their way to the approver                 *)
  buttons,   (* menus of the cards that show their buttons                  *)
  presses,   (* presses resolved, their card's edit awaited                 *)
  choosing,  (* an answer "choose existing" awaits the approver's address   *)
  asking,    (* an answer "new agent" awaits the approver's address         *)
  naming,    (* awaitingNameInput of the approver: which chat it is for     *)
  used,      (* presses and names used up                                   *)
  wirings,   (* history: the messages whose registration wired an agent     *)
  misread    (* history: presses resolved to another option than their      *)
             (* label                                                       *)

cardVars == <<posting, buttons>>
answerVars == <<presses, choosing, asking, naming, used>>
regHistVars == <<wirings, misread>>
registrationVars ==
  <<chat, wired, heard, requests, pending, cardVars, answerVars, regHistVars, faults>>

Menus == {"first", "agents"}

Connect(g) == <<"connect", g>>

(* buildApprovalOptions and buildAgentSelectionOptions for an approver who *)
(* administers every agent group.                                          *)
Options(menu) ==
  IF menu = "first"
  THEN << IF MaxGroups = 1 THEN Connect(1) ELSE <<"choose">>, <<"new">>, <<"reject">> >>
  ELSE [i \in 1 .. MaxGroups + 1 |-> IF i <= MaxGroups THEN Connect(i) ELSE <<"reject">>]

Values == {<<"choose">>, <<"new">>, <<"reject">>, <<"none">>} \cup {Connect(g) : g \in AgentGroups}

NotPending == [menu |-> "none"]

RegistrationInit ==
  /\ chat = "absent" /\ wired = {} /\ heard = 0
  /\ requests = {} /\ pending = NotPending
  /\ posting = {} /\ buttons = {}
  /\ presses = {} /\ choosing = FALSE /\ asking = FALSE /\ naming = "no" /\ used = 0
  /\ wirings = <<>> /\ misread = FALSE
  /\ faults = 0

(* Every variable has its type.                                            *)
RegistrationTypeOK ==
  /\ chat \in {"absent", "open", "denied"}
  /\ wired \subseteq AgentGroups \cup {Created}
  /\ heard \in 0 .. MaxMentions
  /\ requests \subseteq 1 .. heard
  /\ pending \in [menu : Menus, msg : 1 .. heard] \cup {NotPending}
  /\ posting \subseteq Menus /\ buttons \subseteq Menus
  /\ presses \subseteq [menu : Menus, label : Values, value : Values]
  /\ choosing \in BOOLEAN /\ asking \in BOOLEAN
  /\ naming \in {"no", "here", "elsewhere"}
  /\ used \in 0 .. MaxPresses
  /\ wirings \in Seq(1 .. heard)
  /\ misread \in BOOLEAN
  /\ faults \in 0 .. MaxFaults

-----------------------------------------------------------------------------
(* The router and the request.                                             *)

(* A message addresses the bot: the chat's row is created on first sight;  *)
(* without a wiring and unless the chat is denied the gate is called, and  *)
(* returns at once when a card is pending.                                 *)
Address ==
  /\ heard < MaxMentions
  /\ heard' = heard + 1
  /\ chat' = IF chat = "absent" THEN "open" ELSE chat
  /\ requests' = requests \cup
       {m \in {heard + 1} : wired = {} /\ chat # "denied" /\ pending = NotPending}
  /\ UNCHANGED <<wired, pending, cardVars, answerVars, regHistVars, faults>>

(* The chat's name and the approver's address have been awaited: the row   *)
(* is inserted, and the card sent, unless a row exists by now (its key is  *)
(* the chat, so that the insertion throws).                                *)
OpenRow(m) ==
  /\ m \in requests
  /\ requests' = requests \ {m}
  /\ IF pending = NotPending
     THEN pending' = [menu |-> "first", msg |-> m] /\ posting' = posting \cup {"first"}
     ELSE UNCHANGED <<pending, posting>>
  /\ UNCHANGED <<chat, wired, heard, buttons, answerVars, regHistVars, faults>>

(* No approver, or no way to reach one: no row.                            *)
NobodyToAsk(m) ==
  /\ m \in requests
  /\ requests' = requests \ {m}
  /\ UNCHANGED <<chat, wired, heard, pending, cardVars, answerVars, regHistVars, faults>>

Posted(menu) ==
  /\ menu \in posting
  /\ posting' = posting \ {menu}
  /\ buttons' = buttons \cup {menu}
  /\ UNCHANGED <<chat, wired, heard, requests, pending, answerVars, regHistVars, faults>>

(* The adapter throws or is missing.                                       *)
PostFails(menu) ==
  /\ Fault
  /\ menu \in posting
  /\ posting' = posting \ {menu}
  /\ UNCHANGED <<chat, wired, heard, requests, pending, buttons, answerVars, regHistVars>>

-----------------------------------------------------------------------------
(* The approver.                                                           *)

(* resolveSelectedOption: the index counts in the options of the row as it *)
(* is now; without such an option the index itself is the value.           *)
Resolve(i) ==
  IF pending # NotPending /\ i \in DOMAIN Options(pending.menu)
  THEN Options(pending.menu)[i] ELSE <<"none">>

Press(menu, i) ==
  /\ used < MaxPresses /\ used' = used + 1
  /\ menu \in buttons /\ i \in DOMAIN Options(menu)
  /\ presses' = presses \cup {[menu |-> menu, label |-> Options(menu)[i], value |-> Resolve(i)]}
  /\ misread' = (misread \/ Resolve(i) \notin {Options(menu)[i], <<"none">>})
  /\ UNCHANGED <<chat, wired, heard, requests, pending, cardVars>>
  /\ UNCHANGED <<choosing, asking, naming, wirings, faults>>

(* The edit of the card settles, and with it its buttons go, unless it     *)
(* failed; then the handler is called.                                     *)
Edited(p) ==
  /\ p \in presses /\ presses' = presses \ {p}
  /\ \/ buttons' = buttons \ {p.menu} /\ UNCHANGED faults
     \/ Fault /\ UNCHANGED buttons

(* Mutant of Register: the row goes after the replay, in a later step. *)
RegisterKeep(g) ==
  /\ wired' = wired \cup {g}
  /\ wirings' = Append(wirings, pending.msg)
  /\ UNCHANGED pending

(* The wiring is created, the sender admitted, the row deleted and the     *)
(* stored message routed again (see Admission).                            *)
Register(g) ==
  /\ wired' = wired \cup {g}
  /\ wirings' = Append(wirings, pending.msg)
  /\ pending' = NotPending

(* connect: the wiring is UNIQUE, so that a second one of the pair throws. *)
(* When the group has been deleted since, with its wirings, the row goes.  *)
AnswerConnect(p, g) ==
  /\ Edited(p) /\ p.value = Connect(g) /\ pending # NotPending
  /\ \/ g \in wired /\ UNCHANGED <<wired, wirings, pending>>
     \/ g \notin wired /\ Register(g)
     \/ wired' = wired \ {g} /\ pending' = NotPending /\ UNCHANGED wirings
  /\ UNCHANGED <<chat, heard, requests, posting, choosing, asking, naming, used, misread>>

AnswerReject(p) ==
  /\ Edited(p) /\ p.value = <<"reject">> /\ pending # NotPending
  /\ chat' = "denied" /\ pending' = NotPending
  /\ UNCHANGED <<wired, heard, requests, posting, choosing, asking, naming, used, regHistVars>>

(* choose_existing and new_agent first await the approver's address.       *)
AnswerLater(p) ==
  /\ Edited(p) /\ pending # NotPending
  /\ \/ p.value = <<"choose">> /\ choosing' = TRUE /\ UNCHANGED asking
     \/ p.value = <<"new">> /\ asking' = TRUE /\ UNCHANGED choosing
  /\ UNCHANGED <<chat, wired, heard, requests, pending, posting, naming, used, regHistVars>>

(* Nobody claims a press when the row is gone or the option unknown.       *)
AnswerNothing(p) ==
  /\ Edited(p) /\ (pending = NotPending \/ p.value = <<"none">>)
  /\ UNCHANGED <<chat, wired, heard, requests, pending, posting, choosing, asking, naming>>
  /\ UNCHANGED <<used, regHistVars>>

(* The menu of the row changes, if it is still there, and a second card    *)
(* goes out; or the approver has no address.                               *)
Choose ==
  /\ choosing /\ choosing' = FALSE
  /\ \/ /\ pending' = IF pending = NotPending THEN pending ELSE [pending EXCEPT !.menu = "agents"]
        /\ posting' = posting \cup {"agents"}
        /\ UNCHANGED faults
     \/ Fault /\ UNCHANGED <<pending, posting>>
  /\ UNCHANGED <<chat, wired, heard, requests, buttons, presses, asking, naming, used, regHistVars>>

(* The next message of the approver will be the name, if the prompt can be *)
(* sent; a failing prompt forgets whatever name was awaited.               *)
AskName ==
  /\ asking /\ asking' = FALSE
  /\ \/ naming' = "here" /\ UNCHANGED faults
     \/ Fault /\ naming' \in {"no", naming}
  /\ UNCHANGED <<chat, wired, heard, requests, pending, cardVars, presses, choosing, used, regHistVars>>

(* Another chat's card asks the same approver for a name: one name per     *)
(* approver is awaited.                                                    *)
AskNameElsewhere ==
  /\ used < MaxPresses /\ used' = used + 1
  /\ naming' = "elsewhere"
  /\ UNCHANGED <<chat, wired, heard, requests, pending, cardVars, presses, choosing, asking>>
  /\ UNCHANGED <<regHistVars, faults>>

(* The approver's reply: taken whatever it is; an empty one creates        *)
(* nothing, nor does one whose row is gone.                                *)
Name(empty) ==
  /\ naming # "no" /\ naming' = "no"
  /\ IF naming = "here" /\ ~empty /\ pending # NotPending
     THEN Register(Created) ELSE UNCHANGED <<wired, wirings, pending>>
  /\ UNCHANGED <<chat, heard, requests, cardVars, presses, choosing, asking, used, misread, faults>>

(* An operator wires the chat from the command line.                       *)
OperatorWires(g) ==
  /\ chat # "absent" /\ g \notin wired
  /\ wired' = wired \cup {g}
  /\ UNCHANGED <<chat, heard, requests, pending, cardVars, answerVars, regHistVars, faults>>

(* The host dies: calls in flight and the awaited name are lost, and       *)
(* whether a card on its way was posted is open.                           *)
HostDies ==
  /\ Fault
  /\ requests' = {} /\ presses' = {} /\ choosing' = FALSE /\ asking' = FALSE /\ naming' = "no"
  /\ \E sent \in SUBSET posting : buttons' = buttons \cup sent
  /\ posting' = {}
  /\ UNCHANGED <<chat, wired, heard, pending, used, regHistVars>>

-----------------------------------------------------------------------------
Asks == \E m \in Mentions : OpenRow(m) \/ NobodyToAsk(m)

Cards == \E menu \in Menus : Posted(menu) \/ PostFails(menu)

Approver ==
  \/ \E menu \in Menus, i \in 1 .. MaxGroups + 2 : Press(menu, i)
  \/ \E empty \in BOOLEAN : Name(empty)
  \/ AskNameElsewhere

Answer ==
  \/ \E p \in presses :
       \/ \E g \in AgentGroups : AnswerConnect(p, g)
       \/ AnswerReject(p) \/ AnswerLater(p) \/ AnswerNothing(p)
  \/ Choose \/ AskName

RegistrationNext ==
  \/ Address \/ Asks \/ Cards \/ Approver \/ Answer
  \/ \E g \in AgentGroups : OperatorWires(g)
  \/ HostDies

RegistrationSpec == RegistrationInit /\ [][RegistrationNext]_registrationVars

-----------------------------------------------------------------------------
(***************************************************************************)
(* Properties.                                                             *)
(***************************************************************************)

(* One request, one wiring: however often and on how many cards the        *)
(* approver answers, and whatever name arrives late, the message that was  *)
(* asked about wires one agent and is replayed once.                       *)
WiredOnce ==
  \A i, j \in DOMAIN wirings : wirings[i] = wirings[j] => i = j

(* The message a card asks about stays the one its answer replays: a       *)
(* later request, begun before the card was pending, does not take over.   *)
AskedMessageStays ==
  [][pending # NotPending /\ pending' # NotPending
       => pending'.msg = pending.msg]_registrationVars

(* What does not hold.  pending-channel-approvals.ts: "A row exists while  *)
(* an owner-approval card is outstanding", so that the approver can always *)
(* still decide: with a button, with a name, or because an answer is being *)
(* worked on.                                                              *)
StillDecidable ==
  pending # NotPending =>
    \/ buttons # {} \/ posting # {} \/ presses # {}
    \/ choosing \/ asking \/ naming = "here"

(* chat-sdk-bridge.ts: the handlers "resolve the index back to the real    *)
(* value": a button means what it says.                                    *)
ButtonsMeanWhatTheySay == ~misread

=============================================================================
