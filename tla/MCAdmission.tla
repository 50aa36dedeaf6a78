---------------------------- MODULE MCAdmission ----------------------------
(* Instances of Admission for TLC: how two agents are wired to a chat, and *)
(* what is written there.                                                  *)
EXTENDS Admission

W(mode, known, accumulate) == [mode |-> mode, known |-> known, accumulate |-> accumulate]

(* What a registration wires, and what an operator may have set up.        *)
Registered == W("sticky", TRUE, TRUE)
Strict == W("sticky", FALSE, FALSE)
Listener == W("all", FALSE, FALSE)
Watcher == W("pattern", FALSE, FALSE)

Pairs == {<<Registered, Watcher>>, <<Strict, Registered>>, <<Listener, Strict>>}

E(kind, sender, thread, mention) ==
  [kind |-> kind, sender |-> sender, thread |-> thread, mention |-> mention, hit |-> mention]

Talk ==
  {E("chat", "stranger", "t1", TRUE), E("admin", "stranger", "t1", TRUE),
   E("chat", "nobody", "t1", TRUE),
   E("chat", "owner", "t1", FALSE), E("chat", "owner", "t2", TRUE)}

(* Both agents answer mentions, and a stranger mentions them once.         *)
Mentioned == {<<W("mention", FALSE, FALSE), W("mention", FALSE, FALSE)>>}
OneMention == {E("chat", "stranger", "t1", TRUE)}
=============================================================================
