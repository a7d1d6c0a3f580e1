----------------------------- MODULE MCServices -----------------------------
(* Small instances of the components around the jobs, one after the other:   *)
(* a behaviour is one of the component "part", and the others stand still.   *)
EXTENDS Chat, Reviews, Presence, Traffic, Server, Tokens, Candidates, Phone, Stats, Paging, TLC

\* The same model values serve every component, so that few permutations do: x and
\* y are its members, devices, authors and pros, h1 and h2 its requests.
CONSTANTS x, y, h1, h2, p1, p2, done, pro, shelf

VARIABLE part
aroundJobs == <<chatVars, reviewVars, presenceVars, trafficVars, serverVars>>
reading == <<typed, statsVars, pagingVars>>
services == <<aroundJobs, sessionVars, candidateVars, reading, part>>

\* The review of one job, and two authors' reviews of one product.
Rated == (done :> pro) @@ (x :> shelf) @@ (y :> shelf)

\* The operator codes that are made of the digits typed here.
Codes == {<<8, 8>>, <<9, 8>>, <<9, 9>>}

Init ==
  /\ part \in {"chat", "reviews", "presence", "traffic", "server",
               "tokens", "reset", "candidates", "phone", "stats", "paging"}
  /\ ChatInit /\ ReviewInit /\ PresenceInit /\ TrafficInit /\ ServerInit
  /\ SessionInit /\ CandidatesInit /\ PhoneInit
  /\ StatsInit /\ PagingInit
  /\ part # "traffic" => \A r, s \in Reports : report[r].process = report[s].process
  /\ part # "server" => keys = {} /\ ~before
  /\ part # "candidates" => order = [located |-> FALSE, region |-> NoRegion, client |-> Stranger]
  /\ part # "paging" => nature = NatureOf(ListLogs, NewestFirst) /\ rows = 0

AroundJobs ==
  \/ /\ part = "chat" /\ ChatNext
     /\ UNCHANGED <<reviewVars, presenceVars, trafficVars, serverVars>>
  \/ /\ part = "reviews" /\ ReviewNext
     /\ UNCHANGED <<chatVars, presenceVars, trafficVars, serverVars>>
  \/ /\ part = "presence" /\ PresenceNext
     /\ UNCHANGED <<chatVars, reviewVars, trafficVars, serverVars>>
  \/ /\ part = "traffic" /\ TrafficNext
     /\ UNCHANGED <<chatVars, reviewVars, presenceVars, serverVars>>
  \/ /\ part = "server" /\ ServerNext
     /\ UNCHANGED <<chatVars, reviewVars, presenceVars, trafficVars>>

\* The clock stands still while passwords are reset, and nobody resets one while it runs.
SessionsNext ==
  \/ part = "tokens" /\ (Tick \/ \E c \in Calls : TokenStep(c))
  \/ /\ part = "reset"
     /\ \/ CodeExpires \/ AttemptsExpire
        \/ \E c \in Calls : ResetStep(c) \/ EndScan(c) \/ GiveUp(c)

\* What is only computed or read; at its end a part stands still.
ReadingNext ==
  \/ part = "phone" /\ PhoneNext /\ UNCHANGED <<statsVars, pagingVars>>
  \/ part = "stats" /\ StatsNext /\ UNCHANGED <<typed, pagingVars>>
  \/ part = "paging" /\ PagingNext /\ UNCHANGED <<typed, statsVars>>

Ended ==
  \/ part = "candidates" /\ changes = MaxChanges
  \/ part = "paging" /\ (Finished \/ slipped)

Next ==
  /\ UNCHANGED part
  /\ \/ AroundJobs /\ UNCHANGED <<sessionVars, candidateVars, reading>>
     \/ SessionsNext /\ UNCHANGED <<aroundJobs, candidateVars, reading>>
     \/ part = "candidates" /\ CandidatesNext /\ UNCHANGED <<aroundJobs, sessionVars, reading>>
     \/ ReadingNext /\ UNCHANGED <<aroundJobs, sessionVars, candidateVars>>
     \/ Ended /\ UNCHANGED services

Spec == Init /\ [][Next]_services

Symmetry == Permutations({h1, h2}) \cup Permutations({x, y}) \cup Permutations({p1, p2})

\* The state of every component that moves has the shape its schema and its code give it.
ServicesTypeOK ==
  CASE part = "chat" -> ChatTypeOK
    [] part = "reviews" -> ReviewTypeOK
    [] part = "presence" -> PresenceTypeOK
    [] part = "traffic" -> TrafficTypeOK
    [] part = "server" -> ServerTypeOK
    [] part \in {"tokens", "reset"} -> SessionTypeOK
    [] part = "candidates" -> CandidatesTypeOK
    [] part = "stats" -> StatsTypeOK
    [] part = "paging" -> PagingTypeOK
    [] part = "phone" -> TRUE

\* What the comment of buildCandidates and the two lists promise, whatever pros change.
OffersKeepPromises ==
  part = "candidates" => /\ ListedMayAccept /\ FeedMayAccept /\ FarIsNeverListed
                         /\ BestFirst /\ TopIsBest

\* What is read is what is there: a number has one account however it is typed, the
\* figures of the dashboard add up, and no row is lost between the pages of a list.
ReadsAreRight ==
  /\ part = "phone" => NumbersAgree
  /\ part = "stats" => FiguresAddUp
  /\ part = "paging" => PagesMissNothing
=============================================================================
