---------------------------- MODULE JobLifecycle ----------------------------
(***************************************************************************)
(* What a client and a pro are promised about a job, with none of the      *)
(* machinery that looks for the pro: a posted job is open until exactly    *)
(* one pro takes it, taking it and being charged the acceptance fee are    *)
(* one event, and from then on the pro never changes and the job only      *)
(* moves to done or cancelled.  Matching implements this specification.    *)
(***************************************************************************)
CONSTANTS Orders, Masters, NoMaster

VARIABLES
  stage,    \* "absent", "open", "accepted", "done" or "cancelled"
  pro,      \* the pro who holds the job, NoMaster before that
  charged   \* the <<job, pro>> pairs an acceptance fee was taken for

lifecycleVars == <<stage, pro, charged>>

Stages == {"absent", "open", "accepted", "done", "cancelled"}

LifecycleTypeOK ==
  /\ stage \in [Orders -> Stages]
  /\ pro \in [Orders -> Masters \cup {NoMaster}]
  /\ charged \subseteq Orders \X Masters

LInit ==
  /\ stage = [o \in Orders |-> "absent"]
  /\ pro = [o \in Orders |-> NoMaster]
  /\ charged = {}

LPost(o) ==
  /\ stage[o] = "absent"
  /\ stage' = [stage EXCEPT ![o] = "open"]
  /\ UNCHANGED <<pro, charged>>

LTake(o, m) ==
  /\ stage[o] = "open"
  /\ stage' = [stage EXCEPT ![o] = "accepted"]
  /\ pro' = [pro EXCEPT ![o] = m]
  /\ charged' = charged \cup {<<o, m>>}

LComplete(o) ==
  /\ stage[o] = "accepted"
  /\ stage' = [stage EXCEPT ![o] = "done"]
  /\ UNCHANGED <<pro, charged>>

LCancel(o) ==
  /\ stage[o] \in {"open", "accepted"}
  /\ stage' = [stage EXCEPT ![o] = "cancelled"]
  /\ UNCHANGED <<pro, charged>>

LNext ==
  \E o \in Orders :
    \/ LPost(o)
    \/ \E m \in Masters : LTake(o, m)
    \/ LComplete(o)
    \/ LCancel(o)

LSpec == LInit /\ [][LNext]_lifecycleVars
=============================================================================
