----------------------------- MODULE MCAccounts -----------------------------
(* Small instances of Accounts and of Push, whose liveness is checked too: a *)
(* behaviour is one of the component "part", and the other stands still.     *)
EXTENDS Accounts, Push, TLC

CONSTANTS u1, u2, j1, j2, h1, h2, note1, phone1, phone2, browser

VARIABLE part
all == <<vars, pushVars, part>>

Begins ==
  /\ part \in {"accounts", "push"}
  /\ Init /\ PushInit
  /\ part = "accounts" => queueCapable

\* The requests are used up and every handler has returned; the push has ended.
Rests ==
  \/ part = "accounts" /\ \A h \in Handlers : task[h] = NoTask
  \/ part = "push" /\ \A n \in Notes : PushIs(n, "done") \/ PushIs(n, "failed")

Continues ==
  /\ UNCHANGED part
  /\ \/ part = "accounts" /\ Next /\ UNCHANGED pushVars
     \/ part = "push" /\ PushNext /\ UNCHANGED vars
     \/ Rests /\ UNCHANGED all

\* A handler runs on once started, and so does the worker that sends a push.
Fair ==
  /\ \A h \in Handlers : WF_all(part = "accounts" /\ Step(h) /\ UNCHANGED <<pushVars, part>>)
  /\ \A n \in Notes : WF_all(part = "push" /\ Sending(n) /\ UNCHANGED <<vars, part>>)

Runs == Begins /\ [][Continues]_all /\ Fair
=============================================================================
