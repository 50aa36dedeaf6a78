--------------------------- MODULE MCSessionQueue ---------------------------
(* Instances of SessionQueue for TLC: which kinds of message arrive, and   *)
(* where a container may hang.                                             *)
EXTENDS SessionQueue

Everything == AllClasses
Mixed == {"chat", "task", "command"}
Background == {"task", "context"}

(* Tasks and commands, two at most, and faults; or chats without faults,   *)
(* the third of which comes after the first one's stream has ended.        *)
WorkOrTalk ==
  /\ OfClass({"chat"}) = {} \/ (OfClass({"task", "command"}) = {} /\ faults = 0)
  /\ class[3] = "none" \/ (class[3] = "chat" /\ outcome[1] = "closed")

InQuery == {"query"}
Nowhere == {}
=============================================================================
