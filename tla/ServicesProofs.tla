--------------------------- MODULE ServicesProofs ---------------------------
(***************************************************************************)
(* Proofs about the components around the jobs, each for any number of     *)
(* members, requests, processes and keys: Server, Reviews, Tokens,         *)
(* Presence, Traffic, Chat and Push.  They share no variable; a section    *)
(* per component states its inductive invariant and what follows from it.  *)
(***************************************************************************)
EXTENDS Server, Reviews, Tokens, Presence, Traffic, Chat, Push,
        TLAPS, FiniteSetTheorems, SequenceTheorems, SumTheorems

-----------------------------------------------------------------------------
(* The maintenance of Redis and the processes that serve: the marker is a  *)
(* lock while it says "running" and a seal once it says "done", and only   *)
(* what is sealed is served.                                               *)

\* Who maintains holds the marker, alone; who has started has found it done; and
\* before it is done nothing of this deployment is in Redis.
Started == {"up", "stopping"} \cup Serving
SIInv ==
  /\ ServerTypeOK
  /\ \A p \in Servers : server[p] \in Maintaining => marker = "running"
  /\ \A p, q \in Servers : server[p] \in Maintaining /\ server[q] \in Maintaining => p = q
  /\ \A p \in Servers : server[p] \in Started => marker = "done"
  /\ marker # "done" => fresh = {}
  /\ fresh \subseteq keys

LEMMA SIInvInit == ServerInit => SIInv
BY DEF ServerInit, SIInv, ServerTypeOK, Places, Maintaining, Serving, Started

\* A process that only moves keeps the invariant if where it comes to is no
\* better than where it was.
LEMMA MoveKeeps ==
  ASSUME SIInv, NEW p \in Servers, NEW from \in Places, NEW to \in Places,
         ServerGoes(p, from, to),
         UNCHANGED <<marker, keys, before, fresh>>,
         found' \in [Servers -> SUBSET RedisKeys], ready' \subseteq Servers,
         to \in Maintaining => from \in Maintaining,
         to \in Started => from \in Started \/ marker = "done"
  PROVE SIInv'
<1>1. server[p] = from /\ server' = [server EXCEPT ![p] = to] /\ server \in [Servers -> Places]
  BY DEF ServerGoes, SIInv, ServerTypeOK
<1>2. \A q \in Servers : server'[q] = IF q = p THEN to ELSE server[q]
  BY <1>1
<1>3. ServerTypeOK'
  BY <1>1 DEF SIInv, ServerTypeOK
<1>4. \A q \in Servers : server'[q] \in Maintaining => server[q] \in Maintaining
  BY <1>1, <1>2
<1>5. \A q \in Servers : server'[q] \in Started => server[q] \in Started \/ marker = "done"
  BY <1>1, <1>2
<1> QED BY <1>3, <1>4, <1>5 DEF SIInv

LEMMA SIInvNext == SIInv /\ [ServerNext]_serverVars => SIInv'
<1> SUFFICES ASSUME SIInv, [ServerNext]_serverVars PROVE SIInv'
  OBVIOUS
<1>1. CASE UNCHANGED serverVars
  BY <1>1 DEF serverVars, SIInv, ServerTypeOK
<1>2. CASE BeforeServes \/ BeforeStops
  BY <1>2 DEF BeforeServes, BeforeStops, SIInv, ServerTypeOK
<1>3. ASSUME NEW p \in Servers,
             \/ Fork(p) \/ ConnectBoth(p) \/ ReadMarker(p) \/ WaitForMarker(p) \/ StopWaiting(p)
             \/ AllDeleted(p) \/ VerifyEmpty(p) \/ CloseConnections(p) \/ ExitCleanly(p)
      PROVE SIInv'
  <2>1. /\ UNCHANGED <<marker, keys, before, found, ready, fresh>>
        /\ found' \in [Servers -> SUBSET RedisKeys] /\ ready' \subseteq Servers
    BY <1>3 DEF Fork, ConnectBoth, ReadMarker, WaitForMarker, StopWaiting, AllDeleted,
                VerifyEmpty, CloseConnections, ExitCleanly, SIInv, ServerTypeOK
  <2>2. PICK from \in Places, to \in Places :
          /\ ServerGoes(p, from, to)
          /\ to \in Maintaining => from \in Maintaining
          /\ to \in Started => from \in Started \/ marker = "done"
    BY <1>3 DEF Fork, ConnectBoth, ReadMarker, WaitForMarker, StopWaiting, AllDeleted, VerifyEmpty,
                CloseConnections, ExitCleanly, Places, Maintaining, Serving, Started
  <2> QED BY <2>1, <2>2, MoveKeeps
<1>4. ASSUME NEW p \in Servers, ScanKeys(p) \/ Listen(p) \/ BeginShutdown(p)
      PROVE SIInv'
  <2>1. /\ UNCHANGED <<marker, keys, before, fresh>>
        /\ found' \in [Servers -> SUBSET RedisKeys] /\ ready' \subseteq Servers
    BY <1>4 DEF ScanKeys, Listen, BeginShutdown, SIInv, ServerTypeOK
  <2>2. PICK from \in Places, to \in Places :
          /\ ServerGoes(p, from, to)
          /\ to \in Maintaining => from \in Maintaining
          /\ to \in Started => from \in Started \/ marker = "done"
    BY <1>4 DEF ScanKeys, Listen, BeginShutdown, Places, Maintaining, Serving, Started
  <2> QED BY <2>1, <2>2, MoveKeeps
\* The marker is free: nobody maintains, so the process is alone.
<1>5. ASSUME NEW p \in Servers, AcquireMarker(p) PROVE SIInv'
  BY <1>5 DEF AcquireMarker, ServerGoes, SIInv, ServerTypeOK, Places, Maintaining, Serving, Started
\* Who deletes holds the marker: nothing of this deployment is there yet.
<1>6. ASSUME NEW p \in Servers, DeleteBatch(p) PROVE SIInv'
  BY <1>6 DEF DeleteBatch, SIInv, ServerTypeOK, Maintaining
<1>7. ASSUME NEW p \in Servers, FinishReset(p) PROVE SIInv'
  BY <1>7 DEF FinishReset, ServerGoes, SIInv, ServerTypeOK, Places, Maintaining, Serving, Started
<1>8. ASSUME NEW p \in Servers, ResetFails(p) PROVE SIInv'
  BY <1>8 DEF ResetFails, SIInv, ServerTypeOK, Places, Maintaining, Serving, Started
<1>9. ASSUME NEW p \in Servers, Serve(p) PROVE SIInv'
  BY <1>9 DEF Serve, SIInv, ServerTypeOK, Serving, Started
<1>10. ASSUME NEW p \in Servers, Die(p) PROVE SIInv'
  BY <1>10 DEF Die, SIInv, ServerTypeOK, Places, Maintaining, Serving, Started
<1> QED
  BY <1>1, <1>2, <1>3, <1>4, <1>5, <1>6, <1>7, <1>8, <1>9, <1>10 DEF ServerNext

THEOREM ServerInvariant == ServerSpec => []SIInv
BY SIInvInit, SIInvNext, PTL DEF ServerSpec

\* Every variable of the processes' life keeps its type.
THEOREM ServerTypes == ServerSpec => []ServerTypeOK
<1>1. SIInv => ServerTypeOK
  BY DEF SIInv
<1> QED BY <1>1, ServerInvariant, PTL

\* No key written by a process of this deployment is deleted by the maintenance,
\* however many processes start, die and are replaced while it runs.
THEOREM WrittenSurvives == ServerSpec => []FreshSurvives
<1>1. SIInv => FreshSurvives
  BY DEF SIInv, FreshSurvives
<1> QED BY <1>1, ServerInvariant, PTL

\* No process serves requests while another one deletes keys.
THEOREM ServesUndisturbed == ServerSpec => []NoResetWhileServing
<1>1. SIInv => NoResetWhileServing
  BY DEF SIInv, NoResetWhileServing, Started
<1> QED BY <1>1, ServerInvariant, PTL

-----------------------------------------------------------------------------
(* Ratings and reviews.  What Summary computes is not looked into: the     *)
(* proofs only need that it is a function of the visible reviews.          *)

Summaries == {Summary(S) : S \in SUBSET (Keys \X (Stars \cup {0}))} \cup {NoRating}
Shapes == [pc : {"idle", "create", "mark", "aggregate", "write"}, key : Keys \cup {NoKey},
           stars : Stars \cup {0}, summary : Summaries, stale : BOOLEAN]

\* The part of the types the proofs need.
ReviewShape ==
  /\ review \in [Keys -> ReviewStates]
  /\ isRated \subseteq JobKeys
  /\ rating \in [Targets -> Summaries]
  /\ reviewTask \in [ReviewHandlers -> Shapes]

\* A handler that is busy has a key, and stars to store; one about to mark a job has stored its
\* review; and an average nobody has overtaken is the average.
Busy == \A h \in ReviewHandlers :
          /\ ~ReviewAt(h, "idle") => reviewTask[h].key \in Keys
          /\ ReviewAt(h, "create") => reviewTask[h].stars \in Stars
Marking == \A h \in ReviewHandlers :
             ReviewAt(h, "mark") => reviewTask[h].key \in JobKeys /\ Written(reviewTask[h].key)
Averaged == \A h \in ReviewHandlers, t \in Targets :
              ReviewAt(h, "write") /\ ~reviewTask[h].stale /\ TargetOfTask(h) = t
                => reviewTask[h].summary = Summary(Visible(t))

RIInv == ReviewShape /\ Busy /\ Marking /\ Averaged /\ RatingFollowsReviews /\ RatedWithReview

-----------------------------------------------------------------------------
LEMMA VisibleSame == ASSUME UNCHANGED review, NEW t PROVE Visible(t)' = Visible(t)
BY DEF Visible

\* A change to one review shows in the reviews of its own target only.
LEMMA VisibleElsewhere ==
  ASSUME ReviewShape, NEW k \in Keys, NEW x, review' = [review EXCEPT ![k] = x],
         NEW t \in Targets, TargetOf[k] # t
  PROVE Visible(t)' = Visible(t)
<1>1. \A j \in Keys : TargetOf[j] = t => review'[j] = review[j]
  BY DEF ReviewShape
<1> QED BY <1>1 DEF Visible

LEMMA VisibleInside == ASSUME ReviewShape, NEW t PROVE Visible(t) \in SUBSET (Keys \X (Stars \cup {0}))
BY DEF ReviewShape, ReviewStates, Visible

LEMMA SummaryIn == ASSUME ReviewShape, NEW t PROVE Summary(Visible(t)) \in Summaries
BY VisibleInside DEF Summaries

LEMMA RIInvInit == ReviewInit => RIInv
<1> SUFFICES ASSUME ReviewInit PROVE RIInv
  OBVIOUS
<1>1. ReviewShape
  <2>1. NoRating \in Summaries
    BY DEF Summaries
  <2> QED BY <2>1, ReviewsAssumption DEF ReviewInit, ReviewShape, ReviewStates, Shapes, NoReviewTask, Keys
<1>2. \A t \in Targets : rating[t] = Summary(Visible(t))
  <2>1. ASSUME NEW t \in Targets PROVE Visible(t) = {}
    BY DEF ReviewInit, Visible
  <2> QED BY <2>1 DEF Summary, ReviewInit
<1> QED
  BY <1>1, <1>2 DEF ReviewInit, RIInv, Busy, Marking, Averaged, RatingFollowsReviews,
     RatedWithReview, ReviewAt, NoReviewTask, Written, Keys

-----------------------------------------------------------------------------
\* A step of one handler that leaves the reviews alone.
LEMMA QuietStep ==
  ASSUME RIInv, NEW h \in ReviewHandlers, NEW next \in Shapes, ReviewBecome(h, next),
         UNCHANGED review,
         isRated' \subseteq JobKeys, isRated \subseteq isRated',
         \A k \in isRated' : Written(k),
         cutShort \subseteq cutShort',
         rating' \in [Targets -> Summaries],
         next.pc # "idle" => next.key \in Keys,
         next.pc = "create" => next.stars \in Stars,
         next.pc # "mark",
         \A t \in Targets : next.pc = "write" /\ TargetOf[next.key] = t =>
                             next.summary = Summary(Visible(t)),
         \A t \in Targets : \/ rating'[t] = Summary(Visible(t)) \/ t \in outdated'
                            \/ next.pc \in {"mark", "aggregate", "write"} /\ TargetOf[next.key] = t
                            \/ /\ rating'[t] = rating[t]
                               /\ t \in outdated => t \in outdated'
                               /\ ReviewAt(h, "idle") \/ ReviewAt(h, "create") \/ TargetOfTask(h) # t,
         ReviewAt(h, "mark") => reviewTask[h].key \in isRated' \cup cutShort'
  PROVE RIInv'
<1> USE DEF ReviewAt, TargetOfTask, Written
<1>1. /\ reviewTask'[h] = next
      /\ \A g \in ReviewHandlers \ {h} : reviewTask'[g] = reviewTask[g]
  BY DEF RIInv, ReviewShape, ReviewBecome
<1>2. ReviewShape'
  BY DEF RIInv, ReviewShape, ReviewBecome
<1>3. Busy'
  BY <1>1 DEF RIInv, Busy
<1>4. Marking'
  BY <1>1 DEF RIInv, Marking
<1>5. \A t : Summary(Visible(t))' = Summary(Visible(t))
  <2> TAKE t
  <2>1. Visible(t)' = Visible(t)
    BY VisibleSame
  <2> QED BY <2>1
<1>6. Averaged'
  <2> SUFFICES ASSUME NEW g \in ReviewHandlers, NEW t \in Targets, ReviewAt(g, "write")',
                      ~reviewTask'[g].stale, TargetOf[reviewTask'[g].key] = t
               PROVE reviewTask'[g].summary = Summary(Visible(t))'
    BY DEF Averaged
  <2>1. CASE g = h
    BY <2>1, <1>1, <1>5
  <2>2. CASE g # h
    BY <2>2, <1>1, <1>5 DEF RIInv, Averaged
  <2> QED BY <2>1, <2>2
<1>7. RatingFollowsReviews'
  <2> SUFFICES ASSUME NEW t \in Targets
               PROVE rating'[t] = Summary(Visible(t)) \/ Pending(t)' \/ t \in outdated'
    BY <1>5 DEF RatingFollowsReviews
  <2>1. CASE next.pc \in {"mark", "aggregate", "write"} /\ TargetOf[next.key] = t
    BY <2>1, <1>1 DEF Pending
  <2>2. CASE /\ rating'[t] = rating[t]
             /\ t \in outdated => t \in outdated'
             /\ ReviewAt(h, "idle") \/ ReviewAt(h, "create") \/ TargetOfTask(h) # t
    <3>1. Pending(t) => Pending(t)'
      BY <2>2, <1>1 DEF Pending
    <3> QED BY <2>2, <3>1 DEF RIInv, RatingFollowsReviews
  <2> QED BY <2>1, <2>2
<1>8. RatedWithReview'
  BY <1>1 DEF RIInv, RatedWithReview, Keys
<1> QED BY <1>2, <1>3, <1>4, <1>6, <1>7, <1>8 DEF RIInv

\* A step that writes one review: the handler goes on to recompute its target,
\* and every average of that target is out of date.
LEMMA WritingStep ==
  ASSUME RIInv, NEW h \in ReviewHandlers, NEW k \in Keys, NEW x \in ReviewStates,
         x.stars # 0,
         review' = [review EXCEPT ![k] = x],
         NEW next \in Shapes, ChangeReviews(h, TargetOf[k], next),
         next.pc \in {"mark", "aggregate"}, next.key = k,
         k \in JobKeys => next.pc = "mark" \/ Written(k),
         next.pc = "mark" => k \in JobKeys,
         ReviewAt(h, "idle") \/ ReviewAt(h, "create"),
         UNCHANGED <<isRated, rating, outdated, cutShort>>
  PROVE RIInv'
<1> USE DEF ReviewAt, TargetOfTask, Written
<1>1. /\ reviewTask'[h] = next
      /\ \A g \in ReviewHandlers \ {h} :
           /\ reviewTask'[g] \in Shapes
           /\ reviewTask'[g].pc = reviewTask[g].pc /\ reviewTask'[g].key = reviewTask[g].key
           /\ reviewTask'[g].summary = reviewTask[g].summary
           /\ ~reviewTask'[g].stale =>
                ~reviewTask[g].stale /\ ~(ReviewAt(g, "write") /\ TargetOfTask(g) = TargetOf[k])
  BY DEF RIInv, ReviewShape, Shapes, ChangeReviews
<1>2. ReviewShape'
  <2>1. reviewTask' \in [ReviewHandlers -> Shapes]
    BY <1>1 DEF ChangeReviews
  <2> QED BY <2>1 DEF RIInv, ReviewShape
<1>3. \A j \in Keys : Written(j) => Written(j)'
  BY DEF RIInv, ReviewShape
<1>4. Written(k)'
  BY DEF RIInv, ReviewShape
<1>5. \A t \in Targets \ {TargetOf[k]} : Summary(Visible(t))' = Summary(Visible(t))
  <2> TAKE t \in Targets \ {TargetOf[k]}
  <2>1. Visible(t)' = Visible(t)
    BY VisibleElsewhere DEF RIInv
  <2> QED BY <2>1
<1>6. Busy'
  <2>1. \A g \in ReviewHandlers \ {h} : reviewTask'[g].stars = reviewTask[g].stars
    BY DEF RIInv, ReviewShape, Shapes, ChangeReviews
  <2> QED BY <1>1, <2>1 DEF RIInv, Busy
<1>7. Marking'
  BY <1>1, <1>3, <1>4 DEF RIInv, Marking, Keys
<1>8. Averaged'
  <2> SUFFICES ASSUME NEW g \in ReviewHandlers, NEW t \in Targets, ReviewAt(g, "write")',
                      ~reviewTask'[g].stale, TargetOf[reviewTask'[g].key] = t
               PROVE reviewTask'[g].summary = Summary(Visible(t))'
    BY DEF Averaged
  <2>1. g # h
    BY <1>1
  <2>2. t # TargetOf[k]
    BY <2>1, <1>1
  <2>3. reviewTask[g].summary = Summary(Visible(t))
    BY <2>1, <1>1 DEF RIInv, Averaged
  <2> QED BY <2>1, <2>2, <2>3, <1>1, <1>5
<1>9. RatingFollowsReviews'
  <2> SUFFICES ASSUME NEW t \in Targets
               PROVE rating[t] = Summary(Visible(t))' \/ Pending(t)' \/ t \in outdated
    BY DEF RatingFollowsReviews
  <2>1. CASE t = TargetOf[k]
    BY <2>1, <1>1 DEF Pending
  <2>2. CASE t # TargetOf[k]
    <3>1. Pending(t) => Pending(t)'
      BY <1>1 DEF Pending
    <3> QED BY <2>2, <3>1, <1>5 DEF RIInv, RatingFollowsReviews
  <2> QED BY <2>1, <2>2
<1>10. RatedWithReview'
  <2> SUFFICES ASSUME NEW j \in JobKeys
               PROVE /\ j \in isRated => Written(j)'
                     /\ Written(j)' =>
                          \/ j \in isRated \cup cutShort
                          \/ \E g \in ReviewHandlers : ReviewAt(g, "mark")' /\ reviewTask'[g].key = j
    BY DEF RatedWithReview
  <2>1. j \in Keys
    BY DEF Keys
  <2>2. CASE j = k
    BY <2>2, <1>1, <1>4 DEF RIInv, RatedWithReview
  <2>3. CASE j # k
    BY <2>1, <2>3, <1>1, <1>3 DEF RIInv, RatedWithReview, ReviewShape
  <2> QED BY <2>2, <2>3
<1> QED BY <1>2, <1>6, <1>7, <1>8, <1>9, <1>10 DEF RIInv

-----------------------------------------------------------------------------
LEMMA RIInvNext == RIInv /\ [ReviewNext]_reviewVars => RIInv'
<1> SUFFICES ASSUME RIInv, [ReviewNext]_reviewVars PROVE RIInv'
  OBVIOUS
<1> USE DEF ReviewAt, TargetOfTask
<1>1. /\ \A g \in ReviewHandlers : reviewTask[g] \in Shapes
      /\ NoReviewTask \in Shapes
      /\ \A k \in isRated : Written(k)
      /\ rating \in [Targets -> Summaries]
      /\ isRated \subseteq JobKeys
  BY DEF RIInv, ReviewShape, RatedWithReview, Shapes, Summaries, NoReviewTask
<1>2. ASSUME UNCHANGED <<review, isRated, rating, outdated, cutShort, reviewTask>> PROVE RIInv'
  <2>1. \A t : Visible(t)' = Visible(t)
    BY <1>2 DEF Visible
  <2>2. \A t : Summary(Visible(t))' = Summary(Visible(t))
    BY <2>1
  <2> QED BY <1>2, <2>2 DEF RIInv, ReviewShape, Busy, Marking, Averaged, RatingFollowsReviews,
             RatedWithReview, Pending, Written
<1>3. CASE UNCHANGED reviewVars
  BY <1>2, <1>3 DEF reviewVars
<1>4. ASSUME NEW t \in Targets, Withdraw(t) PROVE RIInv'
  BY <1>2, <1>4 DEF Withdraw
<1>5. ASSUME NEW h \in ReviewHandlers, NEW k \in Keys, NEW s \in Stars,
             RateMaster(h, k, s) \/ RateProduct(h, k, s)
      PROVE RIInv'
  <2> DEFINE next == [NoReviewTask EXCEPT !.pc = "create", !.key = k, !.stars = s]
  <2>1. next \in Shapes /\ next.pc = "create" /\ next.key = k /\ next.stars = s
    BY <1>1 DEF Shapes, NoReviewTask
  <2>2. /\ ReviewAt(h, "idle") /\ ReviewBecome(h, next)
        /\ UNCHANGED <<review, isRated, rating, outdated, cutShort>>
    BY <1>5 DEF RateMaster, RateProduct
  <2> HIDE DEF next
  <2> QED BY <1>1, <2>1, <2>2, QuietStep
<1>6. ASSUME NEW h \in ReviewHandlers, CreateReview(h) PROVE RIInv'
  <2> DEFINE t == reviewTask[h]
             x == [stars |-> t.stars, visible |-> TRUE]
             next == [t EXCEPT !.pc = IF t.key \in JobKeys THEN "mark" ELSE "aggregate"]
  <2>1. t \in Shapes /\ t.pc = "create" /\ t.key \in Keys /\ t.stars \in Stars
    BY <1>1, <1>6 DEF CreateReview, RIInv, Busy
  <2>2. CASE Written(t.key)
    <3>1. /\ ReviewBecome(h, NoReviewTask) /\ ReviewAt(h, "create")
          /\ UNCHANGED <<review, isRated, rating, outdated, cutShort>>
      BY <1>6, <2>2 DEF CreateReview, ReviewReturn
    <3> QED BY <1>1, <3>1, QuietStep DEF NoReviewTask
  <2>3. CASE ~Written(t.key)
    <3>1. /\ review' = [review EXCEPT ![t.key] = x]
          /\ ChangeReviews(h, TargetOf[t.key], next)
          /\ UNCHANGED <<isRated, rating, outdated, cutShort>>
      BY <1>6, <2>3 DEF CreateReview
    <3>2. next \in Shapes /\ next.key = t.key
          /\ next.pc = IF t.key \in JobKeys THEN "mark" ELSE "aggregate"
      BY <2>1 DEF Shapes
    <3>3. x \in ReviewStates /\ x.stars # 0
      BY <2>1, ReviewsAssumption DEF ReviewStates
    <3>4. t.key \in JobKeys => next.pc = "mark" \/ Written(t.key)
      BY <3>2
    <3> HIDE DEF x, next
    <3> QED BY <2>1, <3>1, <3>2, <3>3, <3>4, WritingStep
  <2> QED BY <2>2, <2>3
<1>7. ASSUME NEW h \in ReviewHandlers, MarkRated(h) PROVE RIInv'
  <2> DEFINE next == [reviewTask[h] EXCEPT !.pc = "aggregate"]
  <2>1. next \in Shapes /\ next.pc = "aggregate" /\ next.key = reviewTask[h].key
    BY <1>1 DEF Shapes
  <2>2. /\ ReviewAt(h, "mark") /\ ReviewBecome(h, next)
        /\ isRated' = isRated \cup {reviewTask[h].key}
        /\ UNCHANGED <<review, rating, outdated, cutShort>>
    BY <1>7 DEF MarkRated
  <2>3. reviewTask[h].key \in JobKeys /\ reviewTask[h].key \in Keys /\ Written(reviewTask[h].key)
    BY <2>2 DEF RIInv, Marking, Busy
  <2> HIDE DEF next
  <2> QED BY <1>1, <2>1, <2>2, <2>3, QuietStep
<1>8. ASSUME NEW h \in ReviewHandlers, Aggregate(h) PROVE RIInv'
  <2> DEFINE sum == Summary(Visible(TargetOfTask(h)))
             next == [reviewTask[h] EXCEPT !.pc = "write", !.stale = FALSE, !.summary = sum]
  <2>1. sum \in Summaries
    BY SummaryIn DEF RIInv
  <2>2. ReviewAt(h, "aggregate") /\ ReviewBecome(h, next)
    BY <1>8 DEF Aggregate
  <2>3. UNCHANGED <<review, isRated, rating, outdated, cutShort>>
    BY <1>8 DEF Aggregate
  <2>4. reviewTask[h].key \in Keys
    BY <2>2 DEF RIInv, Busy
  <2>5. \A t \in Targets : TargetOf[reviewTask[h].key] = t => sum = Summary(Visible(t))
    OBVIOUS
  <2> HIDE DEF sum
  <2>6. /\ next \in Shapes /\ next.pc = "write" /\ next.key = reviewTask[h].key
        /\ next.summary = sum
    BY <1>1, <2>1 DEF Shapes
  <2> HIDE DEF next
  <2> QED BY <1>1, <2>2, <2>3, <2>4, <2>5, <2>6, QuietStep
<1>9. ASSUME NEW h \in ReviewHandlers, WriteRating(h) PROVE RIInv'
  <2> DEFINE tt == TargetOf[reviewTask[h].key]
  <2>1. /\ ReviewAt(h, "write") /\ ReviewBecome(h, NoReviewTask)
        /\ rating' = [rating EXCEPT ![tt] = reviewTask[h].summary]
        /\ outdated' = IF reviewTask[h].stale THEN outdated \cup {tt} ELSE outdated \ {tt}
        /\ UNCHANGED <<review, isRated, cutShort>>
    BY <1>9 DEF WriteRating, ReviewReturn
  <2>2. reviewTask[h].summary \in Summaries
    BY <1>1 DEF Shapes
  <2>3. tt \in Targets
    BY <2>1, ReviewsAssumption DEF RIInv, Busy
  <2>4. rating' \in [Targets -> Summaries] /\ rating'[tt] = reviewTask[h].summary
    BY <1>1, <2>1, <2>2, <2>3
  <2>5. \A t \in Targets : \/ rating'[t] = Summary(Visible(t)) \/ t \in outdated'
                            \/ /\ rating'[t] = rating[t]
                               /\ t \in outdated => t \in outdated'
                               /\ tt # t
    <3> SUFFICES ASSUME NEW t \in Targets
                 PROVE \/ rating'[t] = Summary(Visible(t)) \/ t \in outdated'
                       \/ /\ rating'[t] = rating[t]
                          /\ t \in outdated => t \in outdated'
                          /\ tt # t
      OBVIOUS
    <3>1. CASE t # tt
      BY <1>1, <2>1, <3>1
    <3>2. CASE t = tt /\ reviewTask[h].stale
      BY <2>1, <3>2
    <3>3. CASE t = tt /\ ~reviewTask[h].stale
      <4>1. reviewTask[h].summary = Summary(Visible(t))
        BY <2>1, <3>3 DEF RIInv, Averaged
      <4> QED BY <2>4, <3>3, <4>1
    <3> QED BY <3>1, <3>2, <3>3
  <2> QED BY SMTT(20), <1>1, <2>1, <2>4, <2>5, QuietStep DEF NoReviewTask
<1>10. ASSUME NEW h \in ReviewHandlers, NEW k \in Keys, NEW v \in BOOLEAN, SetReviewVisible(h, k, v)
       PROVE RIInv'
  <2> DEFINE x == [review[k] EXCEPT !.visible = v]
             next == [NoReviewTask EXCEPT !.pc = "aggregate", !.key = k]
  <2>1. /\ ReviewAt(h, "idle") /\ Written(k)
        /\ ChangeReviews(h, TargetOf[k], next)
        /\ UNCHANGED <<isRated, rating, outdated, cutShort>>
    BY <1>10 DEF SetReviewVisible
  <2>2. review' = [review EXCEPT ![k] = x]
    BY <1>10 DEF SetReviewVisible
  <2>3. review[k] \in ReviewStates
    BY DEF RIInv, ReviewShape
  <2>4. x \in ReviewStates /\ x.stars # 0
    BY <2>1, <2>3 DEF ReviewStates, Written
  <2>5. next \in Shapes /\ next.pc = "aggregate" /\ next.key = k
    BY <1>1 DEF Shapes, NoReviewTask
  <2> HIDE DEF x, next
  <2> QED BY <2>1, <2>2, <2>4, <2>5, WritingStep
<1>11. ASSUME NEW h \in ReviewHandlers, ReviewCrash(h) PROVE RIInv'
  <2>1. /\ ReviewBecome(h, NoReviewTask) /\ ~ReviewAt(h, "idle")
        /\ UNCHANGED <<review, isRated, rating>>
        /\ outdated' = IF ReviewAt(h, "create") THEN outdated ELSE outdated \cup {TargetOfTask(h)}
        /\ cutShort' = IF ReviewAt(h, "mark") THEN cutShort \cup {reviewTask[h].key} ELSE cutShort
    BY <1>11 DEF ReviewCrash, ReviewReturn
  <2> QED BY <1>1, <2>1, QuietStep DEF NoReviewTask
<1> QED
  BY <1>3, <1>4, <1>5, <1>6, <1>7, <1>8, <1>9, <1>10, <1>11 DEF ReviewNext

-----------------------------------------------------------------------------
\* The inductive invariant holds of every behaviour of the review handlers
\* (rateMaster, rateProduct, setReviewVisible and the crashes of each).
THEOREM ReviewInvariant == ReviewSpec => []RIInv
BY RIInvInit, RIInvNext, PTL DEF ReviewSpec

\* review.service.ts 18-37: a stored rating is the average of the visible
\* reviews, unless a recomputation is under way, was overtaken, or died.
THEOREM RatingsFollow == ReviewSpec => []RatingFollowsReviews
<1>1. RIInv => RatingFollowsReviews
  BY DEF RIInv
<1> QED BY <1>1, ReviewInvariant, PTL

\* review.service.ts 63-73: Order.isRated agrees with the stored reviews, but
\* for a handler between the two writes and for those that died there.
THEOREM ReviewedIsRated == ReviewSpec => []RatedWithReview
<1>1. RIInv => RatedWithReview
  BY DEF RIInv
<1> QED BY <1>1, ReviewInvariant, PTL

\* An average is a number, and so is what it counts.
LEMMA SummariesAreRatings == Summaries \subseteq Ratings
<1>1. NoRating \in Ratings
  BY DEF NoRating, Ratings
<1>2. ASSUME NEW S \in SUBSET (Keys \X (Stars \cup {0})), S # {}
      PROVE  Summary(S) \in Ratings
  <2>1. IsFiniteSet(S)
    <3>1. IsFiniteSet(0..5) /\ IsFiniteSet(Keys)
      <4>1. 0 \in Int /\ 5 \in Int
        OBVIOUS
      <4>2. IsFiniteSet(0..5)
        BY <4>1, FS_Interval
      <4> QED BY <4>2, ReviewsAssumption
    <3>2. IsFiniteSet(Keys \X (0..5))
      BY <3>1, FS_Product
    <3>3. S \subseteq Keys \X (0..5)
      <4>1. Stars \cup {0} \subseteq 0..5
        BY ReviewsAssumption
      <4> QED BY <4>1
    <3> QED BY <3>2, <3>3, FS_Subset
  <2>2. PICK f : f = [r \in S |-> r[2]]
    OBVIOUS
  <2>3. DOMAIN f = S /\ \A r \in S : f[r] \in Nat
    <3>1. Stars \cup {0} \subseteq Nat
      BY ReviewsAssumption
    <3>2. \A r \in S : r[2] \in Nat
      BY <3>1
    <3> QED BY <2>2, <3>2
  <2>4. SumFunctionOnSet(f, S) \in Nat
    BY <2>1, <2>3, SumNat
  <2>5. PICK sum \in Nat, count \in Nat \ {0} : sum = SumFunction([r \in S |-> r[2]]) /\ count = Cardinality(S)
    <3>1. Cardinality(S) \in Nat /\ Cardinality(S) # 0
      BY <1>2, <2>1, FS_CardinalityType, FS_EmptySet
    <3> QED BY <2>2, <2>3, <2>4, <3>1 DEF SumFunction
  <2>6. (20 * sum + count) \div (2 * count) \in Nat
    <3>1. PICK n \in Nat, m \in Nat \ {0} : n = 20 * sum + count /\ m = 2 * count
      OBVIOUS
    <3>2. n \div m \in Nat
      OBVIOUS
    <3> QED BY <3>1, <3>2
  <2> QED BY <1>2, <2>5, <2>6 DEF Summary, Ratings
<1>3. Summary({}) = NoRating
  BY DEF Summary
<1> QED BY <1>1, <1>2, <1>3 DEF Summaries

ReviewRest ==
  /\ onSale \subseteq Targets /\ outdated \subseteq Targets
  /\ cutShort \subseteq JobKeys /\ reviewCrashes \in 0..MaxReviewCrashes

\* Reviews, ratings and those who write them keep the shape of the schema (review.model.ts,
\* rateMaster, rateProduct, recomputeRating).
THEOREM ReviewTypes == ReviewSpec => []ReviewTypeOK
<1>1. ReviewInit => ReviewRest
  <2>1. 0 \in 0..MaxReviewCrashes /\ \A k \in ProductKeys : TargetOf[k] \in Targets
    BY ReviewsAssumption DEF Keys
  <2> QED BY <2>1 DEF ReviewInit, ReviewRest
<1>2. ASSUME RIInv, ReviewRest, [ReviewNext]_reviewVars PROVE ReviewRest'
  <2>1. \A h \in ReviewHandlers : ~ReviewAt(h, "idle") => TargetOfTask(h) \in Targets
    BY <1>2, ReviewsAssumption DEF RIInv, Busy, TargetOfTask
  <2>2. \A h \in ReviewHandlers : ReviewAt(h, "mark") => reviewTask[h].key \in JobKeys
    BY <1>2 DEF RIInv, Marking
  <2> USE <1>2 DEF ReviewRest
  <2>3. ASSUME NEW h \in ReviewHandlers, NEW k, NEW v,
               RateMaster(h, k, v) \/ RateProduct(h, k, v) \/ SetReviewVisible(h, k, v)
        PROVE  ReviewRest'
    BY <2>3 DEF RateMaster, RateProduct, SetReviewVisible
  <2>4. ASSUME NEW h \in ReviewHandlers, CreateReview(h) \/ MarkRated(h) \/ Aggregate(h) PROVE ReviewRest'
    BY <2>4 DEF CreateReview, MarkRated, Aggregate
  <2>5. ASSUME NEW h \in ReviewHandlers, WriteRating(h) PROVE ReviewRest'
    BY <2>1, <2>5 DEF WriteRating, ReviewAt
  <2>6. ASSUME NEW h \in ReviewHandlers, ReviewCrash(h) PROVE ReviewRest'
    <3>1. reviewCrashes' \in 0..MaxReviewCrashes
      BY <2>6, ReviewsAssumption DEF ReviewCrash
    <3> QED BY <2>1, <2>2, <2>6, <3>1 DEF ReviewCrash
  <2>7. ASSUME NEW t, Withdraw(t) PROVE ReviewRest'
    BY <2>7 DEF Withdraw
  <2>8. CASE UNCHANGED reviewVars
    BY <2>8 DEF reviewVars
  <2> QED BY <2>3, <2>4, <2>5, <2>6, <2>7, <2>8 DEF ReviewNext
<1>3. RIInv /\ ReviewRest => ReviewTypeOK
  BY SummariesAreRatings DEF RIInv, ReviewShape, ReviewRest, ReviewTypeOK, Shapes, ReviewTasks
<1> QED BY <1>1, <1>2, <1>3, RIInvInit, RIInvNext, PTL DEF ReviewSpec

-----------------------------------------------------------------------------
(* Sessions and the reset of a password.  What a request carries along is  *)
(* bounded by what has happened: it never read a later clock and stores no *)
(* id that was not issued.                                                 *)

CallStates == [at : CallPlaces, id : RefreshIds \cup {NoId}, n : Nat,
               guess : 0..MaxCodes,
               owed : SUBSET RefreshIds, then : CallPlaces]

CarriesOn(c) ==
  /\ At(c, "marking") => call[c].n <= tick
  /\ At(c, "storing") => call[c].id \in issued
  /\ At(c, "scanning") => call[c].then \in {"idle", "cutting"}

HistoryOK == looked \in Nat /\ resets \in Nat /\ stragglers \in Nat /\ clearers \in Nat

SessionShape ==
  /\ tick \in Nat /\ tick <= MaxTicks
  /\ ended \in Nat /\ ended <= tick
  /\ refreshTokens \subseteq issued /\ issued \subseteq RefreshIds
  /\ signed \subseteq 0..MaxTicks
  /\ revokedBefore \in [second : Nat, until : Nat]
  /\ call \in [Calls -> CallStates]
  /\ codes \in Nat /\ codes <= MaxCodes
  /\ smsCode \in Nat /\ smsCode <= codes
  /\ smsAttempts \in Nat /\ smsAttempts <= MaxCounted
  /\ HistoryOK

SessionInv == SessionShape /\ \A c \in Calls : CarriesOn(c)

\* The cut-off in Redis is that of the sign-out that read the clock last.
CutOffInv ==
  /\ ended <= tick
  /\ ~reordered /\ ended > 0 =>
       /\ revokedBefore.second = CutOff(ended)
       /\ revokedBefore.until >= ended + 2 * MarkerTTL

LEMMA IdleCall == Idle \in CallStates
BY TokensAssumption DEF Idle, CallStates, CallPlaces

LEMMA RecordFields ==
  ASSUME NEW place
  PROVE  LET t == [Idle EXCEPT !.at = place]
         IN /\ t.at = place /\ t.id = NoId /\ t.n = 0 /\ t.guess = 0
            /\ t.owed = {} /\ t.then = "idle"
            /\ place \in CallPlaces => t \in CallStates
BY TokensAssumption DEF Idle, CallStates, CallPlaces

\* One request changes what it carries.
LEMMA PutMoves ==
  ASSUME SessionShape, NEW c \in Calls, NEW t, Put(c, t)
  PROVE  /\ call'[c] = t
         /\ \A d \in Calls \ {c} : call'[d] = call[d]
         /\ t \in CallStates => call' \in [Calls -> CallStates]
BY DEF SessionShape, Put, CallStates

LEMMA BecomeCall ==
  ASSUME SessionShape, NEW c \in Calls, NEW place \in CallPlaces,
         Become(c, place) \/ (place = "idle" /\ Return(c))
  PROVE  /\ call' \in [Calls -> CallStates]
         /\ call'[c].at = place
         /\ \A d \in Calls \ {c} : call'[d] = call[d]
<1>1. CASE Become(c, place)
  <2> DEFINE t == [Idle EXCEPT !.at = place]
  <2>1. t.at = place /\ t \in CallStates
    BY RecordFields
  <2>2. Put(c, t)
    BY <1>1 DEF Become
  <2> HIDE DEF t
  <2> QED BY <2>1, <2>2, PutMoves
<1>2. CASE place = "idle" /\ Return(c)
  <2>1. Idle.at = "idle" /\ Idle \in CallStates
    BY TokensAssumption DEF Idle, CallStates, CallPlaces
  <2> QED BY <1>2, <2>1, PutMoves DEF Return
<1> QED BY <1>1, <1>2

LEMMA ScanCall ==
  ASSUME SessionShape, NEW c \in Calls, NEW next \in CallPlaces, Scan(c, next)
  PROVE  /\ call' \in [Calls -> CallStates]
         /\ call'[c].at = "scanning" /\ call'[c].then = next
         /\ \A d \in Calls \ {c} : call'[d] = call[d]
<1> DEFINE t == [Idle EXCEPT !.at = "scanning", !.owed = refreshTokens, !.then = next]
<1>1. t.at = "scanning" /\ t.then = next
  BY DEF Idle
<1>2. t \in CallStates
  <2>1. refreshTokens \in SUBSET RefreshIds
    BY DEF SessionShape
  <2> QED BY <2>1, IdleCall DEF CallStates, CallPlaces
<1>3. Put(c, t)
  BY DEF Scan
<1> HIDE DEF t
<1> QED BY <1>1, <1>2, <1>3, PutMoves

\* The places of the reset, where a guess or a code is under way.
Resetting == {"clearing", "expiring", "guessing"}

\* What a request of the first kind carries along, and that it is none of the second.
LEMMA TokenStepMoves ==
  ASSUME SessionInv, NEW c \in Calls, TokenStep(c)
  PROVE  /\ call' \in [Calls -> CallStates] /\ CarriesOn(c)'
         /\ call'[c].at \notin Resetting
         /\ \A d \in Calls \ {c} : call'[d] = call[d]
<1> USE DEF SessionInv, Resetting
<1>1. CASE Authenticated(c) \/ Rotate(c) \/ StoreRefreshToken(c) \/ GiveUp(c) \/ EndScan(c)
  <2>1. \E place \in {"signing", "idle", "cutting"} : Become(c, place) \/ (place = "idle" /\ Return(c))
    BY <1>1 DEF Authenticated, Rotate, StoreRefreshToken, GiveUp, EndScan, CarriesOn
  <2>2. codes \in Nat
    BY TokensAssumption DEF SessionShape
  <2>3. {"signing", "idle", "cutting"} \subseteq CallPlaces
    BY DEF CallPlaces
  <2>4. codes' = codes
    BY <1>1 DEF Authenticated, Rotate, StoreRefreshToken, GiveUp, EndScan, resetVars
  <2> QED BY <2>1, <2>2, <2>3, <2>4, BecomeCall DEF CarriesOn, At
<1>2. CASE LogoutEverywhere(c)
  BY <1>2, ScanCall, TokensAssumption
     DEF LogoutEverywhere, CarriesOn, At, CallPlaces, resetVars, SessionShape
<1>3. ASSUME NEW id \in RefreshIds, Refresh(c, id)
      PROVE  /\ call' \in [Calls -> CallStates] /\ CarriesOn(c)'
             /\ call'[c].at \notin Resetting
             /\ \A d \in Calls \ {c} : call'[d] = call[d]
  <2>1. UNCHANGED codes /\ codes \in Nat
    BY <1>3, TokensAssumption DEF Refresh, resetVars, SessionShape
  <2>2. CASE Scan(c, "idle")
    BY <2>1, <2>2, ScanCall DEF CarriesOn, At, CallPlaces
  <2>3. CASE Put(c, [Idle EXCEPT !.at = "rotating", !.id = id])
    <3> DEFINE t == [Idle EXCEPT !.at = "rotating", !.id = id]
    <3>1. t.at = "rotating"
      BY DEF Idle
    <3>3. t \in CallStates
      BY IdleCall DEF CallStates, CallPlaces
    <3>2. Put(c, t)
      BY <2>3
    <3> HIDE DEF t
    <3> QED BY <2>1, <3>1, <3>2, <3>3, PutMoves DEF CarriesOn, At
  <2> QED BY <1>3, <2>2, <2>3 DEF Refresh
<1>4. ASSUME NEW id \in RefreshIds, Logout(c, id)
      PROVE  /\ call' \in [Calls -> CallStates] /\ CarriesOn(c)'
             /\ call'[c].at \notin Resetting
             /\ \A d \in Calls \ {c} : call'[d] = call[d]
  BY <1>4 DEF Logout, CarriesOn, At, tokenVars, resetVars, SessionShape, CallStates
<1>5. CASE IssueTokenPair(c)
  <2>1. PICK id \in RefreshIds \ issued :
          issued' = issued \cup {id} /\ Put(c, [Idle EXCEPT !.at = "storing", !.id = id])
    BY <1>5 DEF IssueTokenPair
  <2> DEFINE t == [Idle EXCEPT !.at = "storing", !.id = id]
  <2>2. t.at = "storing" /\ t.id = id
    BY DEF Idle
  <2>5. t \in CallStates
    BY IdleCall DEF CallStates, CallPlaces
  <2>3. Put(c, t)
    BY <2>1
  <2>4. UNCHANGED codes /\ codes \in Nat
    BY <1>5, TokensAssumption DEF IssueTokenPair, resetVars, SessionShape
  <2> HIDE DEF t
  <2> QED BY <2>1, <2>2, <2>3, <2>4, <2>5, PutMoves DEF CarriesOn, At
<1>6. CASE ScanBatch(c)
  <2>1. PICK batch \in SUBSET refreshTokens : Put(c, [call[c] EXCEPT !.owed = @ \ batch])
    BY <1>6 DEF ScanBatch
  <2> DEFINE t == [call[c] EXCEPT !.owed = @ \ batch]
  <2>2. t.at = call[c].at /\ t.then = call[c].then /\ t \in CallStates
    BY DEF SessionShape, CallStates
  <2>3. Put(c, t) /\ call[c].at = "scanning" /\ UNCHANGED codes
    BY <1>6, <2>1 DEF ScanBatch, At, resetVars
  <2> HIDE DEF t
  <2> QED BY <2>2, <2>3, PutMoves DEF CarriesOn, At
<1>7. CASE ReadClock(c)
  <2> DEFINE t == [Idle EXCEPT !.at = "marking", !.n = tick]
  <2>1. t.at = "marking" /\ t.n = tick
    BY DEF Idle
  <2>3. t \in CallStates
    <3>1. tick \in Nat
      BY TokensAssumption DEF SessionShape
    <3> QED BY <3>1, IdleCall DEF CallStates, CallPlaces
  <2>2. Put(c, t) /\ UNCHANGED <<tick, codes>> /\ tick \in Nat /\ codes \in Nat
    BY <1>7, TokensAssumption DEF ReadClock, tokenVars, resetVars, SessionShape
  <2> HIDE DEF t
  <2> QED BY <2>1, <2>2, <2>3, PutMoves DEF CarriesOn, At
<1>8. CASE WriteCutOff(c)
  <2>1. UNCHANGED codes /\ codes \in Nat
    BY <1>8, TokensAssumption DEF WriteCutOff, resetVars, SessionShape
  <2> QED BY <1>8, <2>1, BecomeCall DEF WriteCutOff, CarriesOn, At, CallPlaces
<1> QED BY <1>1, <1>2, <1>3, <1>4, <1>5, <1>6, <1>7, <1>8 DEF TokenStep

LEMMA GuessMoves ==
  ASSUME SessionInv, NEW c \in Calls, NEW guess \in 0..codes, CountGuess(c, guess)
  PROVE  /\ call' \in [Calls -> CallStates]
         /\ call'[c].at \in {"expiring", "guessing"}
         /\ call'[c].n = smsAttempts'
         /\ \A d \in Calls \ {c} : call'[d] = call[d]
<1> USE DEF SessionInv
<1> DEFINE t == [Idle EXCEPT !.at = IF smsAttempts = 0 THEN "expiring" ELSE "guessing",
                             !.n = smsAttempts', !.guess = guess]
<1>1. t.at \in {"expiring", "guessing"} /\ t.n = smsAttempts'
  BY DEF Idle
<1>2. t \in CallStates
  <2>1. smsAttempts' \in Nat /\ guess \in 0..MaxCodes
    BY TokensAssumption DEF CountGuess, SessionShape
  <2>2. (IF smsAttempts = 0 THEN "expiring" ELSE "guessing") \in CallPlaces
    BY DEF CallPlaces
  <2> QED BY <2>1, <2>2, IdleCall DEF CallStates
<1>3. Put(c, t)
  BY DEF CountGuess
<1> HIDE DEF t
<1> QED BY <1>1, <1>2, <1>3, PutMoves

LEMMA ExpireMoves ==
  ASSUME SessionInv, NEW c \in Calls, ExpireCounter(c)
  PROVE  /\ call' \in [Calls -> CallStates]
         /\ call'[c].at = "guessing"
         /\ call'[c].n = call[c].n
         /\ \A d \in Calls \ {c} : call'[d] = call[d]
<1> DEFINE t == [call[c] EXCEPT !.at = "guessing"]
<1>1. t.at = "guessing" /\ t.n = call[c].n /\ t \in CallStates
  BY DEF SessionInv, SessionShape, CallStates, CallPlaces
<1>2. Put(c, t)
  BY DEF ExpireCounter
<1> HIDE DEF t
<1> QED BY <1>1, <1>2, PutMoves DEF SessionInv

\* A request of the second kind; its own state stays within what was drawn.
LEMMA ResetStepMoves ==
  ASSUME SessionInv, NEW c \in Calls, ResetStep(c)
  PROVE  /\ call' \in [Calls -> CallStates] /\ CarriesOn(c)'
         /\ \A d \in Calls \ {c} : call'[d] = call[d]
<1> USE DEF SessionInv
<1>1. CASE RequestPasswordReset(c) \/ ClearAttempts(c) \/ TooManyRequests(c) \/ CompareCode(c)
  <2>1. \E place \in {"clearing", "idle", "cleaning"} : Become(c, place) \/ (place = "idle" /\ Return(c))
    BY <1>1 DEF RequestPasswordReset, ClearAttempts, TooManyRequests, CompareCode
  <2>2. codes' \in Nat /\ {"clearing", "idle", "cleaning"} \subseteq CallPlaces
    <3>1. codes' \in {codes, codes + 1}
      BY <1>1, Zenon DEF RequestPasswordReset, ClearAttempts, TooManyRequests, CompareCode
    <3> QED BY <3>1 DEF SessionShape, CallPlaces
  <2> QED BY <2>1, <2>2, BecomeCall DEF CarriesOn, At
<1>2. CASE ExpireCounter(c)
  BY <1>2, ExpireMoves DEF ExpireCounter, CarriesOn, At
<1>3. CASE CleanUp(c)
  <2>1. codes' \in Nat /\ "idle" \in CallPlaces
    BY <1>3, TokensAssumption DEF CleanUp, SessionShape, CallPlaces
  <2> QED BY <1>3, <2>1, ScanCall DEF CleanUp, CarriesOn, At
<1>4. ASSUME NEW guess \in 0..codes, CountGuess(c, guess)
      PROVE  /\ call' \in [Calls -> CallStates] /\ CarriesOn(c)'
             /\ \A d \in Calls \ {c} : call'[d] = call[d]
  <2> QED BY <1>4, GuessMoves DEF CarriesOn, At
<1> QED BY <1>1, <1>2, <1>3, <1>4 DEF ResetStep

\* What becomes of the histories of a code.
LEMMA HistoryMoves ==
  ASSUME HistoryOK
  PROVE  /\ codeHistory' = codeHistory => HistoryOK'
         /\ ForgetGuesses => HistoryOK'
BY DEF HistoryOK, codeHistory, ForgetGuesses

LEMMA ResettersFinite ==
  /\ IsFiniteSet(Awaited) /\ Cardinality(Awaited) \in Nat
  /\ IsFiniteSet(Awaited') /\ Cardinality(Awaited') \in Nat
  /\ IsFiniteSet(Clearing) /\ Cardinality(Clearing) \in Nat
  /\ IsFiniteSet(Clearing') /\ Cardinality(Clearing') \in Nat
<1>1. /\ Awaited \subseteq Calls /\ Awaited' \subseteq Calls /\ IsFiniteSet(Calls)
      /\ Clearing \subseteq Calls /\ Clearing' \subseteq Calls
  BY TokensAssumption DEF Awaited, Clearing
<1>2. IsFiniteSet(Awaited) /\ IsFiniteSet(Awaited') /\ IsFiniteSet(Clearing) /\ IsFiniteSet(Clearing')
  BY <1>1, FS_Subset
<1> QED BY <1>2, FS_CardinalityType

LEMMA ResetStepHistory ==
  ASSUME SessionInv, NEW c \in Calls, ResetStep(c)
  PROVE  HistoryOK'
<1>1. HistoryOK
  BY DEF SessionInv, SessionShape
<1>2. CASE RequestPasswordReset(c)
  BY <1>1, <1>2, ResettersFinite DEF RequestPasswordReset, HistoryOK
<1>3. CASE ClearAttempts(c)
  BY <1>1, <1>3, HistoryMoves DEF ClearAttempts
<1>4. CASE CompareCode(c)
  BY <1>1, <1>4 DEF CompareCode, HistoryOK
<1>5. CASE ExpireCounter(c) \/ TooManyRequests(c) \/ CleanUp(c) \/ \E guess \in 0..codes : CountGuess(c, guess)
  <2>1. codeHistory' = codeHistory
    BY <1>5 DEF ExpireCounter, TooManyRequests, CleanUp, CountGuess
  <2> QED BY <1>1, <2>1, HistoryMoves
<1> QED BY <1>2, <1>3, <1>4, <1>5 DEF ResetStep

LEMMA NextSession == SessionInv /\ [SessionNext]_sessionVars => SessionInv'
<1> SUFFICES ASSUME SessionInv, [SessionNext]_sessionVars PROVE SessionInv'
  OBVIOUS
<1> USE DEF SessionInv
<1>0. MaxTicks \in Nat /\ MaxCodes \in Nat /\ MaxAttempts \in Nat /\ MaxCounted \in Nat /\ MarkerTTL \in Nat
      /\ MaxAttempts < MaxCounted
  BY TokensAssumption
<1>1. CASE UNCHANGED sessionVars
  BY <1>1, HistoryMoves DEF sessionVars, tokenVars, resetVars, SessionShape, CarriesOn, At
<1>2. CASE Tick
  <2>1. tick' \in Nat /\ tick < tick' /\ tick' <= MaxTicks
    BY <1>0, <1>2 DEF Tick, SessionShape
  <2>2. UNCHANGED <<issued, refreshTokens, signed, revokedBefore, call, ended, resetVars>>
    BY <1>2 DEF Tick
  <2>3. \A c \in Calls : CarriesOn(c)'
    BY <2>1, <2>2 DEF SessionShape, CallStates, CarriesOn, At, resetVars
  <2> QED BY <2>1, <2>2, <2>3, HistoryMoves DEF SessionShape, resetVars
<1>5. CASE CodeExpires \/ AttemptsExpire
  <2>1. /\ smsAttempts' \in {0, smsAttempts} /\ smsCode' \in {0, smsCode}
        /\ UNCHANGED <<tokenVars, refreshTokens, call, codes>>
    BY <1>5, Zenon DEF CodeExpires, AttemptsExpire, ForgetGuesses
  <2>2. HistoryOK'
    BY <1>5, HistoryMoves DEF CodeExpires, AttemptsExpire, SessionShape
  <2> QED BY <1>0, <2>1, <2>2 DEF SessionShape, CarriesOn, At, tokenVars
<1>3. ASSUME NEW c \in Calls, TokenStep(c) PROVE SessionInv'
  <2>1. UNCHANGED <<tick, resetVars>> /\ issued \subseteq issued'
    BY <1>3 DEF TokenStep, Authenticated, IssueTokenPair, StoreRefreshToken, Rotate, LogoutEverywhere,
                ScanBatch, EndScan, ReadClock, WriteCutOff, GiveUp, Refresh, Logout, tokenVars
  <2>2. \A d \in Calls : CarriesOn(d)'
    BY <1>3, <2>1, TokenStepMoves DEF CarriesOn, At, resetVars
  <2>3. call' \in [Calls -> CallStates]
    BY <1>3, TokenStepMoves
  <2>4. /\ ended' \in Nat /\ ended' <= tick
        /\ signed' \subseteq 0..MaxTicks
        /\ revokedBefore' \in [second : Nat, until : Nat]
    <3>1. CASE WriteCutOff(c)
      <4>1. call[c].n \in Nat /\ call[c].n <= tick /\ tick \in Nat
        BY <3>1 DEF WriteCutOff, SessionShape, CarriesOn, CallStates
      <4>2. CutOff(call[c].n) \in Nat /\ tick + 2 * MarkerTTL \in Nat
        BY <1>0, <4>1 DEF CutOff
      <4> QED BY <1>0, <3>1, <4>1, <4>2 DEF WriteCutOff, SessionShape
    <3>2. CASE IssueTokenPair(c)
      BY <1>0, <3>2 DEF IssueTokenPair, SessionShape
    <3>3. CASE ~WriteCutOff(c) /\ ~IssueTokenPair(c)
      BY <1>3, <3>3 DEF TokenStep, Authenticated, StoreRefreshToken, Rotate,
                LogoutEverywhere, ScanBatch, EndScan, ReadClock, GiveUp, Refresh, Logout, tokenVars,
                SessionShape
    <3> QED BY <3>1, <3>2, <3>3
  <2>5. refreshTokens' \subseteq issued' /\ issued' \subseteq RefreshIds
    BY <1>3 DEF TokenStep, Authenticated, IssueTokenPair, StoreRefreshToken, Rotate,
                LogoutEverywhere, ScanBatch, EndScan, ReadClock, WriteCutOff, GiveUp, Refresh, Logout,
                tokenVars, SessionShape, CarriesOn
  <2> QED BY <2>1, <2>2, <2>3, <2>4, <2>5, HistoryMoves DEF SessionShape, resetVars
<1>4. ASSUME NEW c \in Calls, ResetStep(c) PROVE SessionInv'
  <2>1. UNCHANGED tokenVars /\ refreshTokens' \subseteq refreshTokens
    BY <1>4 DEF ResetStep, RequestPasswordReset, ClearAttempts, ExpireCounter, TooManyRequests,
                CompareCode, CleanUp, CountGuess
  <2>2. /\ codes' \in Nat /\ codes <= codes' /\ codes' <= MaxCodes
        /\ smsCode' \in Nat /\ smsCode' <= codes'
        /\ smsAttempts' \in Nat /\ smsAttempts' <= MaxCounted
    <3>1. CASE \E guess \in 0..codes : CountGuess(c, guess)
      BY <1>0, <3>1 DEF CountGuess, SessionShape
    <3>2. CASE RequestPasswordReset(c)
      BY <1>0, <3>2 DEF RequestPasswordReset, SessionShape
    <3>3. CASE ClearAttempts(c) \/ CleanUp(c) \/ ExpireCounter(c)
      <4>1. smsAttempts' \in {0, smsAttempts} /\ smsCode' \in {0, smsCode} /\ UNCHANGED codes
        BY <3>3, Zenon DEF ClearAttempts, CleanUp, ExpireCounter, ForgetGuesses
      <4> QED BY <1>0, <4>1 DEF SessionShape
    <3>4. CASE TooManyRequests(c) \/ CompareCode(c)
      BY <1>0, <3>4 DEF TooManyRequests, CompareCode, SessionShape
    <3> QED BY <1>4, <3>1, <3>2, <3>3, <3>4 DEF ResetStep
  <2>3. \A d \in Calls : CarriesOn(d)'
    BY <1>4, <2>1, ResetStepMoves DEF CarriesOn, At, tokenVars
  <2>4. call' \in [Calls -> CallStates]
    BY <1>4, ResetStepMoves
  <2>5. HistoryOK'
    BY <1>4, ResetStepHistory
  <2> QED BY <2>1, <2>2, <2>3, <2>4, <2>5 DEF SessionShape, tokenVars
<1> QED BY <1>1, <1>2, <1>3, <1>4, <1>5 DEF SessionNext

LEMMA InitSession == SessionInit => SessionInv
<1>1. 0 \in Nat /\ Idle.at = "idle"
  BY DEF Idle
<1> QED BY <1>1, TokensAssumption, IdleCall DEF SessionInit, SessionInv, SessionShape, HistoryOK, CarriesOn, At

-----------------------------------------------------------------------------
(* The sign-out everywhere. *)

LEMMA NextCutOff == SessionInv /\ CutOffInv /\ [SessionNext]_sessionVars => CutOffInv'
<1> SUFFICES ASSUME SessionInv, CutOffInv, [SessionNext]_sessionVars PROVE CutOffInv'
  OBVIOUS
<1>1. CASE UNCHANGED <<ended, reordered, revokedBefore>> /\ tick' \in {tick, tick + 1}
  <2>1. ended \in Nat /\ tick \in Nat /\ ended <= tick /\ ended <= tick'
    BY <1>1 DEF SessionInv, SessionShape, CutOffInv
  <2> QED BY <1>1, <2>1 DEF CutOffInv
<1>2. ASSUME NEW c \in Calls, WriteCutOff(c) PROVE CutOffInv'
  <2> DEFINE read == call[c].n
  <2>1. /\ read \in Nat /\ read <= tick /\ tick \in Nat /\ ended \in Nat /\ ended <= tick
        /\ MarkerTTL \in Nat
    BY <1>2, TokensAssumption DEF WriteCutOff, SessionInv, SessionShape, CarriesOn, CallStates
  <2>2. /\ tick' = tick
        /\ revokedBefore'.second = CutOff(read)
        /\ revokedBefore'.until = tick + 2 * MarkerTTL
        /\ ended' = IF read > ended THEN read ELSE ended
        /\ ~reordered' => ~(read < ended)
    BY <1>2 DEF WriteCutOff
  <2> HIDE DEF read
  <2>3. ~reordered' => ended' = read
    BY <2>1, <2>2
  <2> QED BY <2>1, <2>2, <2>3 DEF CutOffInv
<1>3. CASE ~\E c \in Calls : WriteCutOff(c)
  <2>1. UNCHANGED <<ended, reordered, revokedBefore>>
    BY <1>3 DEF SessionNext, Tick, CodeExpires, AttemptsExpire, TokenStep, Authenticated, IssueTokenPair,
        StoreRefreshToken, Rotate, LogoutEverywhere, ScanBatch, EndScan, ReadClock, GiveUp, Refresh,
        Logout, ResetStep, RequestPasswordReset, ClearAttempts, ExpireCounter, TooManyRequests,
        CompareCode, CleanUp, CountGuess, tokenVars, sessionVars
  <2>2. tick' \in {tick, tick + 1}
    BY <1>3 DEF SessionNext, Tick, CodeExpires, AttemptsExpire, TokenStep, Authenticated, IssueTokenPair,
        StoreRefreshToken, Rotate, LogoutEverywhere, ScanBatch, EndScan, ReadClock, GiveUp, Refresh,
        Logout, ResetStep, RequestPasswordReset, ClearAttempts, ExpireCounter, TooManyRequests,
        CompareCode, CleanUp, CountGuess, tokenVars, sessionVars
  <2> QED BY <1>1, <2>1, <2>2
<1> QED BY <1>2, <1>3

\* A token signed before the cut-off was read falls before the cut-off's second, and
\* has expired by the time Redis forgets the cut-off.
LEMMA CutOffRefuses == SessionInv /\ CutOffInv => CutOffHolds
<1> SUFFICES ASSUME SessionInv, CutOffInv, ~reordered, NEW t \in signed, t < ended, Accepted(t)
             PROVE  FALSE
  BY DEF CutOffHolds
<1>1. /\ t \in Nat /\ tick \in Nat /\ ended \in Nat /\ ended <= tick
      /\ AccessTTL \in Nat /\ MarkerTTL \in Nat /\ AccessTTL <= MarkerTTL
      /\ revokedBefore.until \in Nat
  BY TokensAssumption DEF SessionInv, SessionShape
<1>2. /\ revokedBefore.second = (ended + 1) \div 2
      /\ revokedBefore.until >= ended + 2 * MarkerTTL
  BY <1>1 DEF CutOffInv, CutOff
<1>3. t \div 2 < (ended + 1) \div 2
  BY <1>1
<1>4. tick >= revokedBefore.until
  BY <1>1, <1>2, <1>3 DEF Accepted, Revoked, Second
<1>5. tick \div 2 >= t \div 2 + AccessTTL
  <2>1. tick >= t + 2 * AccessTTL
    BY <1>1, <1>2, <1>4
  <2> QED BY <1>1, <2>1
<1> QED BY <1>1, <1>5 DEF Accepted, Verified, Second

\* Once a sign-out everywhere is done, no access token signed before it read the clock
\* is ever accepted again, for any requests, tokens and lifetimes: the marker says so
\* until the token has expired of its own.
THEOREM SignedOutStaysOut == SessionSpec => []CutOffHolds
<1>1. SessionInit => CutOffInv
  BY DEF SessionInit, CutOffInv
<1> QED BY <1>1, InitSession, NextSession, NextCutOff, CutOffRefuses, PTL DEF SessionSpec

-----------------------------------------------------------------------------
(* The guesses at a code. *)

\* What the counter will still let through, how many guesses a code may get, and whether
\* the counter can expire while the code is there.
GuessesLeft == IF smsAttempts < MaxAttempts THEN MaxAttempts - smsAttempts ELSE 0
MostGuesses == MaxAttempts * (1 + resets) + stragglers
StillToExpire == IF expiring /\ ~codeFirst THEN 1 ELSE 0

\* Every guess a code has had, is about to get or may still be let through to has its own
\* place in the counter, as it was found or since a reset; and every reset to come is that
\* of a request under way or of the expiry.
GuessInv ==
  /\ GuessesBounded
  /\ smsCode # 0 =>
       /\ looked + Cardinality(Awaited) + GuessesLeft <= MostGuesses
       /\ resets + Cardinality(Clearing) + StillToExpire <= 2 + clearers

GuessNumbers ==
  /\ looked \in Nat /\ resets \in Nat /\ stragglers \in Nat /\ clearers \in Nat
  /\ smsAttempts \in Nat /\ MaxAttempts \in Nat
  /\ MaxCounted \in Nat /\ MaxAttempts < MaxCounted

LEMMA NumbersOfGuesses == (SessionInv => GuessNumbers) /\ (SessionInv' => GuessNumbers')
BY TokensAssumption DEF SessionInv, SessionShape, HistoryOK, GuessNumbers

LEMMA GuessTypes ==
  /\ GuessNumbers => /\ GuessesLeft \in Nat /\ GuessesLeft <= MaxAttempts
                     /\ StillToExpire \in {0, 1}
                     /\ MaxAttempts * (1 + resets) \in Nat /\ MostGuesses \in Nat
  /\ GuessNumbers' => /\ GuessesLeft' \in Nat /\ GuessesLeft' <= MaxAttempts
                      /\ StillToExpire' \in {0, 1}
                      /\ MostGuesses' \in Nat
<1>1. /\ GuessNumbers => GuessesLeft \in Nat /\ GuessesLeft <= MaxAttempts
      /\ GuessNumbers' => GuessesLeft' \in Nat /\ GuessesLeft' <= MaxAttempts
  BY DEF GuessNumbers, GuessesLeft
<1>2. StillToExpire \in {0, 1} /\ StillToExpire' \in {0, 1}
  BY DEF StillToExpire
<1>3. /\ GuessNumbers => MaxAttempts * (1 + resets) \in Nat
      /\ GuessNumbers' => MaxAttempts * (1 + resets') \in Nat
  BY DEF GuessNumbers
<1>4. /\ GuessNumbers => MostGuesses \in Nat
      /\ GuessNumbers' => MostGuesses' \in Nat
  BY <1>3 DEF GuessNumbers, MostGuesses
<1> QED BY <1>1, <1>2, <1>3, <1>4

\* A set and the same but for one element.
LEMMA OneElement ==
  ASSUME NEW S, NEW T, IsFiniteSet(S), IsFiniteSet(T), NEW e, S \ {e} = T \ {e}
  PROVE  /\ Cardinality(S) \in Nat /\ Cardinality(T) \in Nat
         /\ (e \in S <=> e \in T) => Cardinality(T) = Cardinality(S)
         /\ e \in T /\ e \notin S => Cardinality(T) = Cardinality(S) + 1
         /\ e \in S /\ e \notin T => Cardinality(T) = Cardinality(S) - 1
<1>1. Cardinality(S) \in Nat /\ Cardinality(T) \in Nat
  BY FS_CardinalityType
<1>2. (e \in S <=> e \in T) => T = S
  OBVIOUS
<1>3. ASSUME e \in T, e \notin S PROVE Cardinality(T) = Cardinality(S) + 1
  <2>1. T = S \cup {e}
    BY <1>3
  <2> QED BY <1>3, <2>1, FS_AddElement
<1>4. ASSUME e \in S, e \notin T PROVE Cardinality(T) = Cardinality(S) - 1
  <2>1. T = S \ {e}
    BY <1>4
  <2> QED BY <1>4, <2>1, FS_RemoveElement
<1> QED BY <1>1, <1>2, <1>3, <1>4

\* When one request moves, whether it was counted through and whether it is now decides.
LEMMA GuessersMove ==
  ASSUME NEW c \in Calls, \A d \in Calls \ {c} : call'[d] = call[d]
  PROVE  /\ Cardinality(Awaited) \in Nat /\ Cardinality(Awaited') \in Nat
         /\ (c \in Awaited <=> c \in Awaited') => Cardinality(Awaited') = Cardinality(Awaited)
         /\ c \in Awaited' /\ c \notin Awaited => Cardinality(Awaited') = Cardinality(Awaited) + 1
         /\ c \in Awaited /\ c \notin Awaited' => Cardinality(Awaited') = Cardinality(Awaited) - 1
         /\ Cardinality(Clearing) \in Nat /\ Cardinality(Clearing') \in Nat
         /\ (c \in Clearing <=> c \in Clearing') => Cardinality(Clearing') = Cardinality(Clearing)
         /\ c \in Clearing' /\ c \notin Clearing => Cardinality(Clearing') = Cardinality(Clearing) + 1
         /\ c \in Clearing /\ c \notin Clearing' => Cardinality(Clearing') = Cardinality(Clearing) - 1
<1>1. Awaited \ {c} = Awaited' \ {c}
  BY DEF Awaited, OverLimit
<1>2. Clearing \ {c} = Clearing' \ {c}
  BY DEF Clearing, At
<1> QED BY <1>1, <1>2, OneElement, ResettersFinite

LEMMA WhereGuessersAre ==
  ASSUME NEW c \in Calls
  PROVE  /\ c \in Awaited <=> call[c].at \in {"expiring", "guessing"} /\ ~(call[c].n > MaxAttempts)
         /\ c \in Awaited' <=> call'[c].at \in {"expiring", "guessing"} /\ ~(call'[c].n > MaxAttempts)
         /\ c \in Clearing <=> call[c].at = "clearing"
         /\ c \in Clearing' <=> call'[c].at = "clearing"
BY DEF Awaited, Clearing, OverLimit, At

\* The bound follows from what is counted while the code is there, and stands when it is not.
LEMMA GuessBound ==
  ASSUME GuessNumbers, GuessNumbers',
         smsCode' # 0 =>
           /\ looked' + Cardinality(Awaited') + GuessesLeft' <= MostGuesses'
           /\ resets' + Cardinality(Clearing') + StillToExpire' <= 2 + clearers',
         smsCode' = 0 => GuessesBounded /\ codeHistory' = codeHistory
  PROVE  GuessInv'
<1>1. /\ Cardinality(Awaited') \in Nat /\ Cardinality(Clearing') \in Nat
      /\ GuessesLeft' \in Nat /\ StillToExpire' \in {0, 1} /\ MostGuesses' \in Nat
  BY ResettersFinite, GuessTypes
<1>2. CASE smsCode' # 0
  <2>1. looked' \in Nat /\ resets' \in Nat /\ clearers' \in Nat
    BY DEF GuessNumbers
  <2>2. looked' <= MostGuesses'
    BY <1>1, <1>2, <2>1
  <2>3. StillToExpire' \in Nat
    BY <1>1
  <2>4. resets' + Cardinality(Clearing') + StillToExpire' <= 2 + clearers'
    BY <1>2
  <2>5. ASSUME NEW r \in Nat, NEW k \in Nat, NEW e \in Nat, NEW m \in Nat, r + k + e <= 2 + m
        PROVE  r <= 2 + m
    BY <2>5
  <2>6. resets' <= 2 + clearers'
    BY <1>1, <2>1, <2>3, <2>4, <2>5
  <2> QED BY <1>2, <2>2, <2>6 DEF GuessInv, GuessesBounded, MostGuesses
<1>3. CASE smsCode' = 0
  BY <1>3 DEF GuessInv, GuessesBounded, codeHistory
<1> QED BY <1>2, <1>3

\* What most steps do: no guess is added and none let through, and no reset is added.
LEMMA GuessFrame ==
  ASSUME GuessNumbers, GuessInv,
         smsCode' \in {0, smsCode}, codeHistory' = codeHistory, smsAttempts' = smsAttempts \/ smsCode' = 0,
         smsCode' # 0 => /\ Cardinality(Awaited') <= Cardinality(Awaited)
                         /\ Cardinality(Clearing') <= Cardinality(Clearing)
                         /\ StillToExpire' <= StillToExpire,
         GuessNumbers'
  PROVE  GuessInv'
<1>1. /\ Cardinality(Awaited) \in Nat /\ Cardinality(Clearing) \in Nat
      /\ Cardinality(Awaited') \in Nat /\ Cardinality(Clearing') \in Nat
      /\ GuessesLeft \in Nat /\ StillToExpire \in {0, 1} /\ MostGuesses \in Nat /\ StillToExpire' \in {0, 1}
  BY ResettersFinite, GuessTypes
<1>2. looked' = looked /\ resets' = resets /\ clearers' = clearers /\ MostGuesses' = MostGuesses
  BY DEF codeHistory, MostGuesses
<1>3. ASSUME smsCode' # 0
      PROVE  /\ looked' + Cardinality(Awaited') + GuessesLeft' <= MostGuesses'
             /\ resets' + Cardinality(Clearing') + StillToExpire' <= 2 + clearers'
  <2>1. GuessesLeft' = GuessesLeft /\ smsCode # 0
    BY <1>3 DEF GuessesLeft
  <2>2. looked + Cardinality(Awaited) + GuessesLeft <= MostGuesses
    BY <2>1 DEF GuessInv
  <2>3. resets + Cardinality(Clearing) + StillToExpire <= 2 + clearers
    BY <2>1 DEF GuessInv
  <2>4. looked' + Cardinality(Awaited') + GuessesLeft' <= MostGuesses'
    BY <1>1, <1>2, <1>3, <2>1, <2>2 DEF GuessNumbers
  <2>5. resets' + Cardinality(Clearing') + StillToExpire' <= 2 + clearers'
    BY <1>1, <1>2, <1>3, <2>3 DEF GuessNumbers
  <2> QED BY <2>4, <2>5
<1> QED BY <1>3, GuessBound DEF GuessInv

\* A reset of the counter: as many guesses again, and one reset fewer to come.
LEMMA GuessReset ==
  ASSUME GuessNumbers, GuessInv, GuessNumbers', ForgetGuesses, smsCode' = smsCode,
         Cardinality(Awaited') = Cardinality(Awaited),
         smsCode # 0 => Cardinality(Clearing') + 1 <= Cardinality(Clearing) + StillToExpire
  PROVE  GuessInv'
<1>1. /\ Cardinality(Awaited) \in Nat /\ Cardinality(Clearing) \in Nat
      /\ Cardinality(Awaited') \in Nat /\ Cardinality(Clearing') \in Nat
      /\ GuessesLeft \in Nat /\ StillToExpire \in {0, 1} /\ MostGuesses \in Nat
      /\ GuessesLeft' \in Nat /\ GuessesLeft' <= MaxAttempts
  BY ResettersFinite, GuessTypes
<1>2. /\ looked' = looked /\ clearers' = clearers /\ stragglers' = stragglers
      /\ resets' = IF smsCode # 0 THEN resets + 1 ELSE resets
      /\ StillToExpire' = 0
  BY DEF ForgetGuesses, StillToExpire
<1>3. CASE smsCode # 0
  <2>1. MostGuesses' = MostGuesses + MaxAttempts
    <3>1. MaxAttempts * (1 + (resets + 1)) = MaxAttempts * (1 + resets) + MaxAttempts
      BY DEF GuessNumbers
    <3>2. MaxAttempts * (1 + resets) \in Nat
      BY GuessTypes
    <3>3. MostGuesses' = (MaxAttempts * (1 + resets) + MaxAttempts) + stragglers
      BY <1>2, <1>3, <3>1 DEF MostGuesses
    <3>4. PICK k \in Nat : k = MaxAttempts * (1 + resets)
      BY <3>2
    <3>5. MostGuesses' = (k + MaxAttempts) + stragglers /\ MostGuesses = k + stragglers
      BY <3>3, <3>4 DEF MostGuesses
    <3> QED BY <3>5 DEF GuessNumbers
  <2>2. looked + Cardinality(Awaited) + GuessesLeft <= MostGuesses
    BY <1>3 DEF GuessInv
  <2>3. resets + Cardinality(Clearing) + StillToExpire <= 2 + clearers
    BY <1>3 DEF GuessInv
  <2>4. looked' + Cardinality(Awaited') + GuessesLeft' <= MostGuesses'
    BY <1>1, <1>2, <2>1, <2>2 DEF GuessNumbers
  <2>5. resets' + Cardinality(Clearing') + StillToExpire' <= 2 + clearers'
    BY <1>1, <1>2, <1>3, <2>3 DEF GuessNumbers
  <2> QED BY <1>3, <2>4, <2>5, GuessBound
<1>4. CASE smsCode = 0
  <2>1. codeHistory' = codeHistory
    BY <1>2, <1>4 DEF codeHistory
  <2> QED BY <1>4, <2>1, GuessBound DEF GuessInv
<1> QED BY <1>3, <1>4

LEMMA GuessStep ==
  ASSUME SessionInv, SessionInv', GuessInv, NEW c \in Calls, ResetStep(c)
  PROVE  GuessInv'
<1>0. GuessNumbers /\ GuessNumbers'
  BY NumbersOfGuesses
<1>a. \A d \in Calls \ {c} : call'[d] = call[d]
  BY ResetStepMoves
<1>1. CASE RequestPasswordReset(c)
  <2>1. /\ looked' = 0 /\ resets' = 0 /\ ~codeFirst' /\ smsAttempts' = smsAttempts
        /\ stragglers' = Cardinality(Awaited) /\ clearers' = Cardinality(Clearing)
        /\ call[c].at = "idle" /\ smsCode' # 0
    BY <1>1 DEF RequestPasswordReset, SessionInv, SessionShape, At
  <2>2. call'[c].at = "clearing"
    BY <1>1, BecomeCall DEF RequestPasswordReset, SessionInv, CallPlaces
  <2>3. Cardinality(Awaited') = Cardinality(Awaited) /\ Cardinality(Clearing') = Cardinality(Clearing) + 1
        /\ Cardinality(Awaited) \in Nat /\ Cardinality(Clearing) \in Nat
    BY <1>a, <2>1, <2>2, GuessersMove, WhereGuessersAre
  <2>4. GuessesLeft' \in Nat /\ GuessesLeft' <= MaxAttempts /\ StillToExpire' \in {0, 1}
    BY <1>0, GuessTypes
  <2>5. MostGuesses' = MaxAttempts + Cardinality(Awaited)
    <3>1. MaxAttempts * (1 + 0) = MaxAttempts
      BY <1>0 DEF GuessNumbers
    <3> QED BY <2>1, <3>1 DEF MostGuesses
  <2>6. looked' + Cardinality(Awaited') + GuessesLeft' <= MostGuesses'
    BY <1>0, <2>1, <2>3, <2>4, <2>5 DEF GuessNumbers
  <2>7. resets' + Cardinality(Clearing') + StillToExpire' <= 2 + clearers'
    BY <2>1, <2>3, <2>4
  <2> QED BY <1>0, <2>1, <2>6, <2>7, GuessBound
<1>2. CASE ClearAttempts(c)
  <2>1. call[c].at = "clearing" /\ ForgetGuesses /\ smsCode' = smsCode
    BY <1>2 DEF ClearAttempts, At
  <2>2. call'[c].at = "idle"
    BY <1>2, BecomeCall DEF ClearAttempts, SessionInv, CallPlaces
  <2>3. Cardinality(Awaited') = Cardinality(Awaited) /\ Cardinality(Clearing') = Cardinality(Clearing) - 1
        /\ Cardinality(Clearing) \in Nat
    BY <1>a, <2>1, <2>2, GuessersMove, WhereGuessersAre
  <2>4. StillToExpire \in {0, 1}
    BY <1>0, GuessTypes
  <2>5. Cardinality(Clearing') + 1 <= Cardinality(Clearing) + StillToExpire
    BY <2>3, <2>4
  <2> QED BY <1>0, <2>1, <2>3, <2>5, GuessReset
<1>3. ASSUME NEW guess \in 0..codes, CountGuess(c, guess) PROVE GuessInv'
  <2>1. /\ UNCHANGED <<smsCode, expiring, codeFirst, codeHistory>>
        /\ smsAttempts' = IF smsAttempts < MaxCounted THEN smsAttempts + 1 ELSE MaxCounted
        /\ call[c].at = "idle"
    BY <1>3 DEF CountGuess, At
  <2>2. call'[c].at \in {"expiring", "guessing"} /\ call'[c].n = smsAttempts'
    BY <1>3, GuessMoves
  <2>3. /\ c \notin Awaited /\ (c \in Awaited' <=> ~(smsAttempts' > MaxAttempts))
        /\ Cardinality(Clearing') = Cardinality(Clearing)
        /\ Cardinality(Awaited) \in Nat
    BY <1>a, <2>1, <2>2, GuessersMove, WhereGuessersAre
  <2>4. Cardinality(Awaited') + GuessesLeft' <= Cardinality(Awaited) + GuessesLeft
    <3>1. CASE smsAttempts' > MaxAttempts
      <4>1. Cardinality(Awaited') = Cardinality(Awaited)
        BY <1>a, <2>3, <3>1, GuessersMove
      <4>2. smsAttempts' \in Nat /\ MaxAttempts \in Nat
        BY <1>0 DEF GuessNumbers
      <4>3. ~(smsAttempts' < MaxAttempts)
        BY <3>1, <4>2
      <4>4. GuessesLeft' = 0
        BY <4>3, Zenon DEF GuessesLeft
      <4>5. GuessesLeft \in Nat
        BY <1>0, GuessTypes
      <4> QED BY <2>3, <4>1, <4>4, <4>5
    <3>2. CASE ~(smsAttempts' > MaxAttempts)
      <4>1. Cardinality(Awaited') = Cardinality(Awaited) + 1
        BY <1>a, <2>3, <3>2, GuessersMove
      <4>2. smsAttempts' = smsAttempts + 1 /\ smsAttempts < MaxAttempts
        BY <1>0, <2>1, <3>2 DEF GuessNumbers
      <4>3. GuessesLeft = GuessesLeft' + 1 /\ GuessesLeft' \in Nat
        BY <1>0, <4>2 DEF GuessesLeft, GuessNumbers
      <4> QED BY <2>3, <4>1, <4>3
    <3> QED BY <3>1, <3>2
  <2>5. MostGuesses' = MostGuesses /\ looked' = looked /\ resets' = resets /\ clearers' = clearers
        /\ StillToExpire' = StillToExpire /\ codeHistory' = codeHistory
    BY <2>1 DEF codeHistory, MostGuesses, StillToExpire
  <2>6. ASSUME smsCode' # 0
        PROVE  /\ looked' + Cardinality(Awaited') + GuessesLeft' <= MostGuesses'
               /\ resets' + Cardinality(Clearing') + StillToExpire' <= 2 + clearers'
    <3>1. looked + Cardinality(Awaited) + GuessesLeft <= MostGuesses
      BY <2>1, <2>6 DEF GuessInv
    <3>2. resets + Cardinality(Clearing) + StillToExpire <= 2 + clearers
      BY <2>1, <2>6 DEF GuessInv
    <3>3. /\ Cardinality(Awaited) \in Nat /\ Cardinality(Awaited') \in Nat
          /\ GuessesLeft \in Nat /\ GuessesLeft' \in Nat /\ MostGuesses \in Nat
      BY <1>0, ResettersFinite, GuessTypes
    <3>4. looked' + Cardinality(Awaited') + GuessesLeft' <= MostGuesses'
      BY <1>0, <2>4, <2>5, <3>1, <3>3 DEF GuessNumbers
    <3> QED BY <2>3, <2>5, <3>2, <3>4
  <2> QED BY <1>0, <2>5, <2>6, GuessBound DEF GuessInv
<1>4. CASE CompareCode(c)
  <2>1. /\ UNCHANGED <<smsCode, smsAttempts, expiring, codeFirst, resets, stragglers, clearers>>
        /\ looked' = IF smsCode # 0 THEN looked + 1 ELSE looked
        /\ call[c].at = "guessing" /\ ~(call[c].n > MaxAttempts)
    BY <1>4 DEF CompareCode, At, OverLimit
  <2>2. call'[c].at \in {"idle", "cleaning"}
    BY <1>4, BecomeCall DEF CompareCode, SessionInv, CallPlaces
  <2>3. /\ Cardinality(Awaited') = Cardinality(Awaited) - 1 /\ Cardinality(Awaited) \in Nat
        /\ Cardinality(Clearing') = Cardinality(Clearing)
    BY <1>a, <2>1, <2>2, GuessersMove, WhereGuessersAre
  <2>4. MostGuesses' = MostGuesses /\ StillToExpire' = StillToExpire /\ GuessesLeft' = GuessesLeft
    BY <2>1 DEF MostGuesses, StillToExpire, GuessesLeft
  <2>5. ASSUME smsCode' # 0
        PROVE  /\ looked' + Cardinality(Awaited') + GuessesLeft' <= MostGuesses'
               /\ resets' + Cardinality(Clearing') + StillToExpire' <= 2 + clearers'
    <3>1. looked + Cardinality(Awaited) + GuessesLeft <= MostGuesses /\ looked' = looked + 1
      BY <2>1, <2>5 DEF GuessInv
    <3>2. resets + Cardinality(Clearing) + StillToExpire <= 2 + clearers
      BY <2>1, <2>5 DEF GuessInv
    <3>3. GuessesLeft \in Nat /\ MostGuesses \in Nat
      BY <1>0, GuessTypes
    <3>4. looked' + Cardinality(Awaited') + GuessesLeft' <= MostGuesses'
      BY <1>0, <2>3, <2>4, <3>1, <3>3 DEF GuessNumbers
    <3> QED BY <2>1, <2>3, <2>4, <3>2, <3>4
  <2>6. smsCode' = 0 => codeHistory' = codeHistory
    BY <2>1 DEF codeHistory
  <2> QED BY <1>0, <2>5, <2>6, GuessBound DEF GuessInv
<1>5. CASE TooManyRequests(c) \/ CleanUp(c)
  <2>1. smsCode' = 0 /\ codeHistory' = codeHistory
    BY <1>5 DEF TooManyRequests, CleanUp
  <2> QED BY <1>0, <2>1, GuessFrame
<1>6. CASE ExpireCounter(c)
  <2>1. codeFirst' /\ UNCHANGED <<smsCode, smsAttempts>> /\ codeHistory' = codeHistory /\ call[c].at = "expiring"
    BY <1>6 DEF ExpireCounter, At
  <2>2. call'[c].at = "guessing" /\ call'[c].n = call[c].n
    BY <1>6, ExpireMoves
  <2>3. Cardinality(Awaited') = Cardinality(Awaited) /\ Cardinality(Clearing') = Cardinality(Clearing)
        /\ Cardinality(Awaited) \in Nat /\ Cardinality(Clearing) \in Nat
    BY <1>a, <2>1, <2>2, GuessersMove, WhereGuessersAre
  <2>4. StillToExpire' = 0 /\ StillToExpire \in {0, 1}
    BY <1>0, <2>1, GuessTypes DEF StillToExpire
  <2>5. /\ Cardinality(Awaited') <= Cardinality(Awaited) /\ Cardinality(Clearing') <= Cardinality(Clearing)
        /\ StillToExpire' <= StillToExpire
    BY <2>3, <2>4
  <2> QED BY <1>0, <2>1, <2>5, GuessFrame
<1> QED BY <1>1, <1>2, <1>3, <1>4, <1>5, <1>6 DEF ResetStep

LEMMA NextGuess == SessionInv /\ SessionInv' /\ GuessInv /\ [SessionNext]_sessionVars => GuessInv'
<1> SUFFICES ASSUME SessionInv, SessionInv', GuessInv, [SessionNext]_sessionVars PROVE GuessInv'
  OBVIOUS
<1>0. GuessNumbers /\ GuessNumbers'
  BY NumbersOfGuesses
<1>1. CASE Tick \/ UNCHANGED sessionVars
  <2>1. UNCHANGED <<call, resetVars>>
    BY <1>1 DEF Tick, sessionVars
  <2>2. Awaited' = Awaited /\ Clearing' = Clearing
    BY <2>1 DEF Awaited, Clearing, OverLimit, At
  <2> QED BY <2>1, <2>2 DEF resetVars, codeHistory, GuessInv, GuessesBounded, GuessesLeft, MostGuesses,
                            StillToExpire
<1>2. CASE CodeExpires
  <2>1. smsCode' = 0 /\ codeHistory' = codeHistory
    BY <1>2 DEF CodeExpires
  <2> QED BY <1>0, <2>1, GuessFrame
<1>3. CASE AttemptsExpire
  <2>1. ForgetGuesses /\ UNCHANGED <<call, smsCode>> /\ (smsCode # 0 => StillToExpire = 1)
    BY <1>3 DEF AttemptsExpire, StillToExpire
  <2>2. Awaited' = Awaited /\ Clearing' = Clearing
    BY <2>1 DEF Awaited, Clearing, OverLimit, At
  <2>3. Cardinality(Awaited') = Cardinality(Awaited) /\ Cardinality(Clearing') = Cardinality(Clearing)
        /\ Cardinality(Clearing) \in Nat
    BY <2>2, ResettersFinite
  <2>4. smsCode # 0 => Cardinality(Clearing') + 1 <= Cardinality(Clearing) + StillToExpire
    BY <2>1, <2>3
  <2> QED BY <1>0, <2>1, <2>3, <2>4, GuessReset
<1>4. ASSUME NEW c \in Calls, TokenStep(c) PROVE GuessInv'
  <2>1. UNCHANGED resetVars
    BY <1>4 DEF TokenStep, Authenticated, IssueTokenPair, StoreRefreshToken, Rotate, LogoutEverywhere,
                ScanBatch, EndScan, ReadClock, WriteCutOff, GiveUp, Refresh, Logout
  <2>2. call'[c].at \notin Resetting /\ \A d \in Calls \ {c} : call'[d] = call[d]
    BY <1>4, TokenStepMoves
  <2>3. c \notin Awaited' /\ c \notin Clearing'
    BY <2>2, WhereGuessersAre DEF Resetting
  <2>4. Cardinality(Awaited') <= Cardinality(Awaited)
    BY <2>2, <2>3, GuessersMove
  <2>5. Cardinality(Clearing') <= Cardinality(Clearing)
    BY <2>2, <2>3, GuessersMove
  <2>6. StillToExpire' = StillToExpire /\ StillToExpire \in {0, 1}
    BY <1>0, <2>1, GuessTypes DEF resetVars, StillToExpire
  <2>7. smsCode' = smsCode /\ codeHistory' = codeHistory /\ smsAttempts' = smsAttempts
    BY <2>1 DEF resetVars
  <2> QED BY <1>0, <2>4, <2>5, <2>6, <2>7, GuessFrame
<1> QED BY <1>1, <1>2, <1>3, <1>4, GuessStep DEF SessionNext

\* A code is compared with no more guesses than SMS_CODE_MAX_ATTEMPTS for the counter as
\* its request found it and for each reset since, but for those that were then under way;
\* and no more than two resets, and one for each request it overtook, can befall it: for
\* any number of requests and guesses that overlap, die or expire (requestPasswordReset,
\* resetPassword).
THEOREM CodeSurvivesFewGuesses == SessionSpec => []GuessesBounded
<1>1. SessionInit => GuessInv
  <2> SUFFICES ASSUME SessionInit PROVE GuessInv
    OBVIOUS
  <2>1. /\ looked = 0 /\ smsCode = 0 /\ resets = 0 /\ stragglers = 0 /\ clearers = 0
        /\ MaxAttempts \in Nat
    BY TokensAssumption DEF SessionInit
  <2>2. MaxAttempts * (1 + 0) + 0 >= 0
    BY <2>1
  <2> QED BY <2>1, <2>2 DEF GuessInv, GuessesBounded
<1>2. GuessInv => GuessesBounded
  BY DEF GuessInv
<1> QED BY <1>1, <1>2, InitSession, NextSession, NextGuess, PTL DEF SessionSpec

Marks == reordered \in BOOLEAN /\ expiring \in BOOLEAN /\ codeFirst \in BOOLEAN
Expiring == expiring => smsAttempts > 0

\* A user's sessions, codes and requests keep their shape, and a counter of guesses has a
\* time to live only while it counts (issueTokenPair, refresh, logoutEverywhere,
\* requestPasswordReset, resetPassword).
THEOREM SessionTypes == SessionSpec => []SessionTypeOK
<1>1. SessionInit => Marks /\ Expiring
  BY DEF SessionInit, Marks, Expiring
<1>2. ASSUME Marks, [SessionNext]_sessionVars PROVE Marks'
  <2> USE <1>2 DEF Marks
  <2>1. ASSUME NEW c, Authenticated(c) \/ IssueTokenPair(c) \/ StoreRefreshToken(c) \/ Rotate(c)
                      \/ LogoutEverywhere(c) \/ ScanBatch(c) \/ EndScan(c) \/ ReadClock(c) \/ GiveUp(c)
        PROVE  Marks'
    BY <2>1 DEF Authenticated, IssueTokenPair, StoreRefreshToken, Rotate, LogoutEverywhere, ScanBatch,
                EndScan, ReadClock, GiveUp, tokenVars, resetVars
  <2>2. ASSUME NEW c, NEW id, Refresh(c, id) \/ Logout(c, id) \/ CountGuess(c, id) PROVE Marks'
    BY <2>2 DEF Refresh, Logout, CountGuess, tokenVars, resetVars
  <2>3. ASSUME NEW c, WriteCutOff(c) PROVE Marks'
    <3>1. reordered' \in BOOLEAN
      BY <2>3 DEF WriteCutOff
    <3>2. UNCHANGED <<expiring, codeFirst>>
      BY <2>3 DEF WriteCutOff, resetVars
    <3> QED BY <3>1, <3>2
  <2>4. ASSUME NEW c, RequestPasswordReset(c) \/ TooManyRequests(c) \/ CompareCode(c) \/ CleanUp(c)
        PROVE  Marks'
    BY <2>4 DEF RequestPasswordReset, TooManyRequests, CompareCode, CleanUp, tokenVars
  <2>5. ASSUME NEW c, ClearAttempts(c) PROVE Marks'
    BY <2>5 DEF ClearAttempts, ForgetGuesses, tokenVars
  <2>6. ASSUME NEW c, ExpireCounter(c) PROVE Marks'
    BY <2>6 DEF ExpireCounter, tokenVars
  <2>7. CASE Tick \/ CodeExpires \/ AttemptsExpire
    BY <2>7 DEF Tick, CodeExpires, AttemptsExpire, ForgetGuesses, tokenVars, resetVars
  <2>8. CASE UNCHANGED sessionVars
    BY <2>8 DEF sessionVars, tokenVars, resetVars
  <2> QED BY <2>1, <2>2, <2>3, <2>4, <2>5, <2>6, <2>7, <2>8 DEF SessionNext, TokenStep, ResetStep
<1>3. ASSUME SessionShape, Expiring, [SessionNext]_sessionVars PROVE Expiring'
  <2>1. smsAttempts \in Nat
    BY <1>3 DEF SessionShape
  <2>2. ASSUME UNCHANGED <<smsAttempts, expiring>> PROVE Expiring'
    BY <1>3, <2>2 DEF Expiring
  <2>3. ASSUME NEW c, Authenticated(c) \/ IssueTokenPair(c) \/ StoreRefreshToken(c) \/ Rotate(c)
                      \/ LogoutEverywhere(c) \/ ScanBatch(c) \/ EndScan(c) \/ ReadClock(c) \/ GiveUp(c)
                      \/ WriteCutOff(c) \/ RequestPasswordReset(c) \/ TooManyRequests(c) \/ CompareCode(c)
        PROVE  Expiring'
    <3>1. UNCHANGED <<smsAttempts, expiring>>
      BY <2>3 DEF Authenticated, IssueTokenPair, StoreRefreshToken, Rotate, LogoutEverywhere, ScanBatch,
                EndScan, ReadClock, GiveUp, WriteCutOff, RequestPasswordReset, TooManyRequests, CompareCode,
                tokenVars, resetVars
    <3> QED BY <2>2, <3>1
  <2>4. ASSUME NEW c, NEW id, Refresh(c, id) \/ Logout(c, id) PROVE Expiring'
    <3>1. UNCHANGED <<smsAttempts, expiring>>
      BY <2>4 DEF Refresh, Logout, tokenVars, resetVars
    <3> QED BY <2>2, <3>1
  <2>5. ASSUME NEW c, NEW guess, CountGuess(c, guess) PROVE Expiring'
    <3>1. smsAttempts' > 0
      BY <2>1, <2>5, TokensAssumption DEF CountGuess
    <3> QED BY <3>1 DEF Expiring
  <2>6. ASSUME NEW c, ExpireCounter(c) PROVE Expiring'
    BY <2>6 DEF ExpireCounter, Expiring
  <2>7. ASSUME NEW c, ClearAttempts(c) \/ CleanUp(c) PROVE Expiring'
    BY <2>7 DEF ClearAttempts, ForgetGuesses, CleanUp, Expiring
  <2>8. CASE Tick \/ CodeExpires \/ AttemptsExpire
    <3>1. UNCHANGED <<smsAttempts, expiring>> \/ ~expiring'
      BY <2>8 DEF Tick, CodeExpires, AttemptsExpire, ForgetGuesses, resetVars
    <3> QED BY <2>2, <3>1 DEF Expiring
  <2>9. CASE UNCHANGED sessionVars
    BY <2>2, <2>9 DEF sessionVars, resetVars
  <2> QED BY <1>3, <2>3, <2>4, <2>5, <2>6, <2>7, <2>8, <2>9 DEF SessionNext, TokenStep, ResetStep
<1>4. SessionShape /\ Marks /\ Expiring => SessionTypeOK
  <2> SUFFICES ASSUME SessionShape, Marks, Expiring PROVE SessionTypeOK
    OBVIOUS
  <2>1. /\ tick \in 0..MaxTicks /\ ended \in 0..MaxTicks /\ codes \in 0..MaxCodes /\ smsCode \in 0..codes
        /\ smsAttempts \in 0..MaxCounted
    BY TokensAssumption DEF SessionShape
  <2>2. {reordered, expiring, codeFirst} \subseteq BOOLEAN
    BY DEF Marks
  <2>3. {looked, resets, stragglers, clearers} \subseteq Nat
    BY DEF SessionShape, HistoryOK
  <2> QED BY <2>1, <2>2, <2>3 DEF SessionShape, Expiring, SessionTypeOK, CallStates
<1>5. SessionInv => SessionShape
  BY DEF SessionInv
<1> QED BY <1>1, <1>2, <1>3, <1>4, <1>5, InitSession, NextSession, PTL DEF SessionSpec

-----------------------------------------------------------------------------
(* Whether a pro is online.  The counter never exceeds the connections it  *)
(* has counted and what nobody will take back, so without drift the last   *)
(* device to go takes itself for the last; and until then every place that *)
(* calls the pro online, and is not one that was left so, has someone who  *)
(* will write it once more.                                                *)

Sound(d) ==
  /\ device[d].counted => Phase(d) \in {"open", "counting"}
  /\ Going(d) # {} => Phase(d) = "leaving"
  /\ "count" \in Coming(d) => Phase(d) \in {"closed", "open", "counting"} /\ ~device[d].counted

DevicesOK ==
  /\ socketsOfUser \in Int /\ leaked \in Nat
  /\ online \subseteq OnlineIn /\ stranded \subseteq OnlineIn
  /\ device \in [Devices -> DeviceStates]
  /\ \A d \in Devices : Sound(d)

CountedDevices == {d \in Devices : device[d].counted}

\* A device that is here, or will be thought to be the last when it goes.
Here(d) == Phase(d) \in {"open", "counting", "dropping"}

\* What is said at w will be taken back, because of d.
TakesBack(d, w) == Here(d) \/ (Phase(d) = "leaving" /\ w \in Going(d))

OnlineEnds ==
  leaked = 0 => \A w \in online \ stranded : \E d \in Devices : TakesBack(d, w)

PresenceInv == DevicesOK /\ CountWithin /\ OnlineEnds

\* What one device does to the counter, and to the places.
CountedAs(d, counted) ==
  \/ socketsOfUser' = socketsOfUser /\ leaked' = leaked /\ counted = device[d].counted
  \/ socketsOfUser' = socketsOfUser + 1 /\ leaked' = leaked /\ counted /\ ~device[d].counted
  \/ socketsOfUser' = socketsOfUser + 1 /\ leaked' = leaked + 1 /\ counted = device[d].counted
  \/ socketsOfUser' = socketsOfUser - 1 /\ leaked' = leaked /\ ~counted
  \/ socketsOfUser' = socketsOfUser /\ leaked' = leaked + 1 /\ ~counted
  \/ socketsOfUser' = 0

EndsAs(d, phase, going) ==
  leaked' = 0 =>
    \A w \in online' \ stranded' :
      \/ phase \in {"open", "counting", "dropping"} \/ (phase = "leaving" /\ w \in going)
      \/ leaked = 0 /\ w \in online \ stranded /\ ~TakesBack(d, w)

LEMMA DeviceMoves ==
  ASSUME DevicesOK, NEW d \in Devices, NEW phase \in DevicePhases, NEW counted \in BOOLEAN,
         NEW coming \in SUBSET (OnlineIn \cup {"count"}), NEW going \in SUBSET OnlineIn,
         PutDevice(d, phase, counted, coming, going),
         counted => phase \in {"open", "counting"},
         going # {} => phase = "leaving",
         "count" \in coming => phase \in {"closed", "open", "counting"} /\ ~counted,
         socketsOfUser' \in Int, leaked' \in Nat,
         online' \subseteq OnlineIn, stranded' \subseteq OnlineIn
  PROVE  /\ DevicesOK'
         /\ Phase(d)' = phase /\ device'[d].counted = counted /\ Going(d)' = going
         /\ \A e \in Devices \ {d} : device'[e] = device[e]
<1>1. device' = [device EXCEPT ![d] = [phase |-> phase, counted |-> counted,
                                       coming |-> coming, going |-> going]]
  BY DEF PutDevice
<1>2. device' \in [Devices -> DeviceStates]
  BY <1>1 DEF DevicesOK, DeviceStates
<1>3. /\ device'[d].phase = phase /\ device'[d].counted = counted
      /\ device'[d].coming = coming /\ device'[d].going = going
  BY <1>1 DEF DevicesOK
<1>4. \A e \in Devices \ {d} : device'[e] = device[e]
  BY <1>1 DEF DevicesOK
<1>5. \A e \in Devices : Sound(e)'
  <2>1. Sound(d)'
    BY <1>3 DEF Sound, Phase, Going, Coming
  <2>2. ASSUME NEW e \in Devices \ {d} PROVE Sound(e)'
    BY <1>4, <2>2 DEF DevicesOK, Sound, Phase, Going, Coming
  <2> QED BY <2>1, <2>2
<1> QED BY <1>2, <1>3, <1>4, <1>5 DEF DevicesOK, Phase, Going

LEMMA CountedFinite ==
  /\ IsFiniteSet(CountedDevices) /\ Cardinality(CountedDevices) \in Nat
  /\ IsFiniteSet(CountedDevices') /\ Cardinality(CountedDevices') \in Nat
<1>1. CountedDevices \subseteq Devices /\ CountedDevices' \subseteq Devices /\ IsFiniteSet(Devices)
  BY PresenceAssumption DEF CountedDevices
<1>2. IsFiniteSet(CountedDevices) /\ IsFiniteSet(CountedDevices')
  BY <1>1, FS_Subset
<1> QED BY <1>2, FS_CardinalityType

\* The counter stays within the connections it stands for.
LEMMA CountSteps ==
  ASSUME DevicesOK, CountWithin, NEW d \in Devices, NEW counted \in BOOLEAN,
         DevicesOK', device'[d].counted = counted,
         \A e \in Devices \ {d} : device'[e] = device[e],
         CountedAs(d, counted)
  PROVE  CountWithin'
<1> DEFINE C == CountedDevices
<1>1. /\ socketsOfUser \in Int /\ leaked \in Nat /\ socketsOfUser' \in Int /\ leaked' \in Nat
      /\ Cardinality(C) \in Nat /\ Cardinality(C') \in Nat
  BY CountedFinite DEF DevicesOK
<1>2. /\ socketsOfUser <= Cardinality(C) + leaked
      /\ CountWithin' <=> socketsOfUser' <= Cardinality(C') + leaked'
  BY DEF CountWithin, CountedDevices
<1>3. /\ d \in C <=> device[d].counted
      /\ d \in C' <=> counted
      /\ \A e \in Devices \ {d} : e \in C' <=> e \in C
      /\ C \subseteq Devices /\ C' \subseteq Devices
      /\ device[d].counted \in BOOLEAN
  BY DEF CountedDevices, DevicesOK, DeviceStates
<1>4. \/ counted = device[d].counted /\ Cardinality(C') = Cardinality(C)
      \/ counted /\ ~device[d].counted /\ Cardinality(C') = Cardinality(C) + 1
      \/ ~counted /\ device[d].counted /\ Cardinality(C') = Cardinality(C) - 1
  <2>1. CASE counted = device[d].counted
    <3>1. C' = C
      BY <1>3, <2>1
    <3> QED BY <2>1, <3>1
  <2>2. CASE counted /\ ~device[d].counted
    <3>1. C' = C \cup {d} /\ d \notin C
      BY <1>3, <2>2
    <3>2. Cardinality(C \cup {d}) = Cardinality(C) + 1
      BY <3>1, CountedFinite, FS_AddElement
    <3> QED BY <2>2, <3>1, <3>2
  <2>3. CASE ~counted /\ device[d].counted
    <3>1. C' = C \ {d} /\ d \in C
      BY <1>3, <2>3
    <3>2. Cardinality(C \ {d}) = Cardinality(C) - 1
      BY <3>1, CountedFinite, FS_RemoveElement
    <3> QED BY <2>3, <3>1, <3>2
  <2> QED BY <1>3, <2>1, <2>2, <2>3
<1> HIDE DEF C
<1>5. socketsOfUser' <= Cardinality(C') + leaked'
  BY <1>1, <1>2, <1>4 DEF CountedAs
<1> QED BY <1>2, <1>5

\* A device that acts: the others stay as they are.
LEMMA DeviceActs ==
  ASSUME PresenceInv, NEW d \in Devices, NEW phase \in DevicePhases, NEW counted \in BOOLEAN,
         NEW coming \in SUBSET (OnlineIn \cup {"count"}), NEW going \in SUBSET OnlineIn,
         PutDevice(d, phase, counted, coming, going),
         counted => phase \in {"open", "counting"},
         going # {} => phase = "leaving",
         "count" \in coming => phase \in {"closed", "open", "counting"} /\ ~counted,
         socketsOfUser' \in Int, leaked' \in Nat,
         online' \subseteq OnlineIn, stranded' \subseteq OnlineIn,
         CountedAs(d, counted)
  PROVE  /\ DevicesOK' /\ CountWithin'
         /\ Phase(d)' = phase /\ \A e \in Devices \ {d} : device'[e] = device[e]
         /\ EndsAs(d, phase, going) => PresenceInv'
<1>1. /\ DevicesOK' /\ Phase(d)' = phase /\ device'[d].counted = counted /\ Going(d)' = going
      /\ \A e \in Devices \ {d} : device'[e] = device[e]
  BY DeviceMoves DEF PresenceInv
<1>2. CountWithin'
  BY <1>1, CountSteps DEF PresenceInv
<1>3. ASSUME EndsAs(d, phase, going) PROVE OnlineEnds'
  <2> SUFFICES ASSUME leaked' = 0, NEW w \in online' \ stranded'
               PROVE  \E e \in Devices : TakesBack(e, w)'
    BY DEF OnlineEnds
  <2>1. CASE phase \in {"open", "counting", "dropping"} \/ (phase = "leaving" /\ w \in going)
    <3>1. TakesBack(d, w)'
      BY <1>1, <2>1 DEF TakesBack, Here
    <3> QED BY <3>1
  <2>2. CASE leaked = 0 /\ w \in online \ stranded /\ ~TakesBack(d, w)
    <3>1. PICK e \in Devices : TakesBack(e, w)
      BY <2>2 DEF PresenceInv, OnlineEnds
    <3>2. TakesBack(e, w)'
      BY <1>1, <2>2, <3>1 DEF TakesBack, Here, Phase, Going
    <3> QED BY <3>2
  <2> QED BY <1>3, <2>1, <2>2 DEF EndsAs
<1> QED BY <1>1, <1>2, <1>3 DEF PresenceInv

\* What is known of the device that acts.
LEMMA DeviceIs ==
  ASSUME PresenceInv, NEW d \in Devices
  PROVE  /\ socketsOfUser \in Int /\ leaked \in Nat /\ leaked + 1 \in Nat
         /\ socketsOfUser + 1 \in Int /\ socketsOfUser - 1 \in Int
         /\ online \subseteq OnlineIn /\ stranded \subseteq OnlineIn
         /\ Phase(d) \in DevicePhases /\ device[d].counted \in BOOLEAN
         /\ Coming(d) \in SUBSET (OnlineIn \cup {"count"}) /\ Going(d) \in SUBSET OnlineIn
         /\ Sound(d)
  BY DEF PresenceInv, DevicesOK, DeviceStates, Phase, Coming, Going

\* A connection that comes, and its writes.
LEMMA ComingKeeps ==
  ASSUME PresenceInv, NEW d \in Devices,
         \/ Connect(d) \/ CountIn(d) \/ TouchLastSeen(d)
         \/ \E w \in OnlineIn : WriteOnline(d, w)
         \/ \E w \in OnlineIn \cup {"count"} : ConnectFails(d, w)
  PROVE  PresenceInv'
<1>1. /\ socketsOfUser \in Int /\ leaked \in Nat /\ leaked + 1 \in Nat
      /\ socketsOfUser + 1 \in Int
      /\ online \subseteq OnlineIn /\ stranded \subseteq OnlineIn
      /\ Phase(d) \in DevicePhases /\ device[d].counted \in BOOLEAN
      /\ Coming(d) \in SUBSET (OnlineIn \cup {"count"}) /\ Going(d) \in SUBSET OnlineIn
      /\ Sound(d)
  BY DeviceIs
<1>2. CASE Connect(d)
  <2>1. /\ PutDevice(d, "open", FALSE, OnlineIn \cup {"count"}, {}) /\ "open" \in DevicePhases
        /\ socketsOfUser' = socketsOfUser /\ leaked' = leaked
        /\ online' = online /\ stranded' = stranded /\ ~device[d].counted
    BY <1>1, <1>2 DEF Connect, DevicePhases, Sound
  <2>2. CountedAs(d, FALSE)
    BY <1>1, <2>1 DEF CountedAs
  <2>3. EndsAs(d, "open", {})
    BY DEF EndsAs
  <2>4. /\ FALSE \in BOOLEAN /\ OnlineIn \cup {"count"} \in SUBSET (OnlineIn \cup {"count"})
        /\ {} \in SUBSET OnlineIn
    OBVIOUS
  <2> QED BY <1>1, <2>1, <2>2, <2>3, <2>4, DeviceActs
<1>3. CASE CountIn(d)
  <2>1. PICK counted \in BOOLEAN : counted <=> Phase(d) # "closed"
    OBVIOUS
  <2>2. /\ PutDevice(d, Phase(d), counted, Coming(d) \ {"count"}, Going(d))
        /\ socketsOfUser' = socketsOfUser + 1 /\ online' = online /\ stranded' = stranded
        /\ leaked' = IF Phase(d) = "closed" THEN leaked + 1 ELSE leaked
        /\ ~device[d].counted /\ Phase(d) \in {"closed", "open", "counting"}
    <3>1. PutDevice(d, Phase(d), Phase(d) # "closed", Coming(d) \ {"count"}, Going(d))
      BY <1>3 DEF CountIn
    <3>2. counted = (Phase(d) # "closed")
      BY <2>1
    <3>3. PutDevice(d, Phase(d), counted, Coming(d) \ {"count"}, Going(d))
      BY <3>1, <3>2
    <3> QED BY <1>1, <1>3, <3>3 DEF CountIn, Sound
  <2>3. CountedAs(d, counted)
    BY <1>1, <2>1, <2>2 DEF CountedAs
  <2>4. EndsAs(d, Phase(d), Going(d))
    BY <1>1, <2>2 DEF EndsAs, TakesBack, Here
  <2>5. /\ counted => Phase(d) \in {"open", "counting"}
        /\ Coming(d) \ {"count"} \in SUBSET (OnlineIn \cup {"count"})
        /\ "count" \notin Coming(d) \ {"count"}
        /\ Going(d) # {} => Phase(d) = "leaving"
        /\ socketsOfUser' \in Int /\ leaked' \in Nat /\ online' \subseteq OnlineIn
        /\ stranded' \subseteq OnlineIn
    BY <1>1, <2>1, <2>2 DEF Sound
  <2> QED BY <1>1, <2>2, <2>3, <2>4, <2>5, DeviceActs
<1>4. CASE \/ TouchLastSeen(d) \/ \E w \in OnlineIn : WriteOnline(d, w)
           \/ \E w \in OnlineIn \cup {"count"} : ConnectFails(d, w)
  <2>1. PICK coming \in SUBSET Coming(d) : PutDevice(d, Phase(d), device[d].counted, coming, Going(d))
    <3>1. CASE TouchLastSeen(d)
      BY <3>1 DEF TouchLastSeen, Came
    <3>2. CASE \E w \in OnlineIn : WriteOnline(d, w)
      BY <3>2 DEF WriteOnline, Came
    <3>3. CASE \E w \in OnlineIn \cup {"count"} : ConnectFails(d, w)
      <4>1. PICK w \in OnlineIn \cup {"count"} : ConnectFails(d, w)
        BY <3>3
      <4>2. CASE w = "count"
        BY <4>1, <4>2 DEF ConnectFails, Came
      <4>3. CASE w # "count"
        BY <4>1, <4>3 DEF ConnectFails, Came, Without
      <4> QED BY <4>2, <4>3
    <3> QED BY <1>4, <3>1, <3>2, <3>3
  <2>2. /\ socketsOfUser' = socketsOfUser /\ leaked' = leaked
        /\ online' \subseteq OnlineIn /\ stranded' \subseteq OnlineIn
        /\ Phase(d) = "open" \/ online' \ stranded' \subseteq online \ stranded
    <3>1. CASE TouchLastSeen(d)
      BY <1>1, <3>1 DEF TouchLastSeen
    <3>2. CASE \E w \in OnlineIn : WriteOnline(d, w)
      BY <1>1, <3>2 DEF WriteOnline, Stands
    <3>3. CASE \E w \in OnlineIn \cup {"count"} : ConnectFails(d, w)
      BY <1>1, <3>3 DEF ConnectFails
    <3> QED BY <1>4, <3>1, <3>2, <3>3
  <2>3. CountedAs(d, device[d].counted)
    BY <2>2 DEF CountedAs
  <2>4. EndsAs(d, Phase(d), Going(d))
    BY <1>1, <2>2 DEF EndsAs, TakesBack, Here
  <2>5. /\ coming \in SUBSET (OnlineIn \cup {"count"})
        /\ device[d].counted => Phase(d) \in {"open", "counting"}
        /\ Going(d) # {} => Phase(d) = "leaving"
        /\ "count" \in coming => Phase(d) \in {"closed", "open", "counting"} /\ ~device[d].counted
        /\ socketsOfUser' \in Int /\ leaked' \in Nat
    BY <1>1, <2>1, <2>2 DEF Sound
  <2> QED BY <1>1, <2>1, <2>2, <2>3, <2>4, <2>5, DeviceActs
<1> QED BY <1>2, <1>3, <1>4

\* A device that goes, up to setOnline(false).
LEMMA GoingKeeps ==
  ASSUME PresenceInv, NEW d \in Devices,
         Disconnect(d) \/ CountOut(d) \/ CountFails(d) \/ DropCounter(d)
  PROVE  PresenceInv'
<1>1. /\ socketsOfUser \in Int /\ leaked \in Nat /\ leaked + 1 \in Nat
      /\ socketsOfUser - 1 \in Int
      /\ online \subseteq OnlineIn /\ stranded \subseteq OnlineIn
      /\ Phase(d) \in DevicePhases /\ device[d].counted \in BOOLEAN
      /\ Coming(d) \in SUBSET (OnlineIn \cup {"count"}) /\ Going(d) \in SUBSET OnlineIn
      /\ Sound(d)
  BY DeviceIs
<1>2. /\ FALSE \in BOOLEAN /\ {} \in SUBSET OnlineIn /\ OnlineIn \in SUBSET OnlineIn
      /\ {"closed", "counting", "dropping", "leaving"} \subseteq DevicePhases
  BY DEF DevicePhases
<1>3. CASE Disconnect(d)
  <2>1. /\ PutDevice(d, "counting", device[d].counted, Coming(d), {})
        /\ socketsOfUser' = socketsOfUser /\ leaked' = leaked
        /\ online' \subseteq OnlineIn /\ stranded' = stranded
    BY <1>1, <1>3 DEF Disconnect, Unseen
  <2>2. CountedAs(d, device[d].counted) /\ EndsAs(d, "counting", {})
    BY <2>1 DEF CountedAs, EndsAs
  <2>3. "count" \in Coming(d) => ~device[d].counted
    BY <1>1 DEF Sound
  <2> QED BY <1>1, <1>2, <2>1, <2>2, <2>3, DeviceActs
<1>4. CASE CountOut(d)
  <2>1. PICK phase \in {"dropping", "closed"} :
          /\ PutDevice(d, phase, FALSE, Coming(d), {})
          /\ phase = "dropping" \/ socketsOfUser' > 0
    <3>1. CASE socketsOfUser' <= 0
      BY <1>4, <3>1 DEF CountOut
    <3>2. CASE ~(socketsOfUser' <= 0)
      <4>1. PutDevice(d, "closed", FALSE, Coming(d), {})
        BY <1>4, <3>2 DEF CountOut
      <4>2. socketsOfUser' > 0
        BY <1>1, <1>4, <3>2 DEF CountOut
      <4> QED BY <4>1, <4>2
    <3> QED BY <3>1, <3>2
  <2>2. /\ socketsOfUser' = socketsOfUser - 1 /\ leaked' = leaked
        /\ online' = online /\ stranded' = stranded /\ "count" \notin Coming(d)
    BY <1>4 DEF CountOut, AtDecrement
  <2>3. CountedAs(d, FALSE)
    BY <2>2 DEF CountedAs
  <2>4. /\ DevicesOK' /\ CountWithin'
        /\ Phase(d)' = phase /\ \A e \in Devices \ {d} : device'[e] = device[e]
        /\ EndsAs(d, phase, {}) => PresenceInv'
    BY <1>1, <1>2, <2>1, <2>2, <2>3, DeviceActs
  <2>5. CASE phase = "dropping"
    BY <2>4, <2>5 DEF EndsAs
  <2>6. CASE phase # "dropping" /\ leaked' = 0
    <3>1. Cardinality(CountedDevices') # 0
      <4>1. socketsOfUser' <= Cardinality(CountedDevices') + leaked'
        BY <2>4 DEF CountWithin, CountedDevices
      <4>2. socketsOfUser' > 0 /\ socketsOfUser' \in Int
        BY <1>1, <2>1, <2>2, <2>6
      <4> QED BY <2>6, <4>1, <4>2, CountedFinite
    <3>2. CountedDevices' # {}
      BY <3>1, CountedFinite, FS_EmptySet
    <3>3. PICK e \in Devices : device'[e].counted
      BY <3>2 DEF CountedDevices
    <3>4. Sound(e)'
      BY <2>4 DEF DevicesOK
    <3>5. \A w : TakesBack(e, w)'
      BY <3>3, <3>4 DEF Sound, TakesBack, Here
    <3> QED BY <2>4, <3>5 DEF PresenceInv, OnlineEnds
  <2>7. CASE leaked' # 0
    BY <2>4, <2>7 DEF PresenceInv, OnlineEnds
  <2> QED BY <2>5, <2>6, <2>7
<1>5. CASE CountFails(d) \/ DropCounter(d)
  <2>1. /\ PutDevice(d, "leaving", FALSE, Coming(d), OnlineIn)
        /\ online' = online /\ stranded' = stranded /\ "count" \notin Coming(d)
    BY <1>1, <1>5 DEF CountFails, DropCounter, AtDecrement, Sound
  <2>2. CountedAs(d, FALSE) /\ socketsOfUser' \in Int /\ leaked' \in Nat
    <3>1. CASE CountFails(d)
      BY <1>1, <3>1 DEF CountFails, CountedAs
    <3>2. CASE DropCounter(d)
      <4>1. ~device[d].counted
        BY <1>1, <3>2 DEF DropCounter, Sound
      <4> QED BY <1>1, <3>2, <4>1 DEF DropCounter, CountedAs, Fault
    <3> QED BY <1>5, <3>1, <3>2
  <2>3. EndsAs(d, "leaving", OnlineIn)
    BY <1>1, <2>1 DEF EndsAs
  <2> QED BY <1>1, <1>2, <2>1, <2>2, <2>3, DeviceActs
<1> QED BY <1>3, <1>4, <1>5

\* setOnline(false), and the instance that is killed.
LEMMA LeavingKeeps ==
  ASSUME PresenceInv, NEW d \in Devices,
         Kill(d) \/ \E w \in OnlineIn : WriteOffline(d, w) \/ LeaveFails(d, w)
  PROVE  PresenceInv'
<1>1. /\ socketsOfUser \in Int /\ leaked \in Nat /\ leaked + 1 \in Nat
      /\ online \subseteq OnlineIn /\ stranded \subseteq OnlineIn
      /\ Phase(d) \in DevicePhases /\ device[d].counted \in BOOLEAN
      /\ Coming(d) \in SUBSET (OnlineIn \cup {"count"}) /\ Going(d) \in SUBSET OnlineIn
      /\ Sound(d)
  BY DeviceIs
<1>2. FALSE \in BOOLEAN /\ {} \in SUBSET OnlineIn /\ {"closed", "leaving"} \subseteq DevicePhases
  BY DEF DevicePhases
<1>3. CASE Kill(d)
  <2>1. PICK sent \in SUBSET Coming(d) : PutDevice(d, "closed", FALSE, sent, {})
    BY <1>3 DEF Kill
  <2>2. /\ socketsOfUser' = socketsOfUser /\ leaked' = IF device[d].counted THEN leaked + 1 ELSE leaked
        /\ stranded' = stranded \cup (IF Phase(d) = "leaving" THEN Going(d) ELSE OnlineIn)
        /\ online' \subseteq OnlineIn
        /\ Phase(d) = "leaving" => online' = online
    BY <1>1, <1>3 DEF Kill, Unseen
  <2>3. CountedAs(d, FALSE) /\ leaked' \in Nat /\ stranded' \subseteq OnlineIn
    BY <1>1, <2>2 DEF CountedAs
  <2>4. EndsAs(d, "closed", {})
    <3> SUFFICES ASSUME leaked' = 0, NEW w \in online' \ stranded'
                 PROVE  leaked = 0 /\ w \in online \ stranded /\ ~TakesBack(d, w)
      BY DEF EndsAs
    <3>1. leaked = 0
      BY <1>1, <2>2
    <3>2. Phase(d) = "leaving"
      BY <2>2
    <3> QED BY <2>2, <3>1, <3>2 DEF TakesBack, Here
  <2>5. sent \in SUBSET (OnlineIn \cup {"count"})
    BY <1>1, <2>1
  <2> QED BY <1>1, <1>2, <2>1, <2>2, <2>3, <2>4, <2>5, DeviceActs
<1>4. ASSUME NEW w \in OnlineIn, WriteOffline(d, w) \/ LeaveFails(d, w) PROVE PresenceInv'
  <2>1. PICK going \in SUBSET Going(d) :
          /\ Went(d, going)
          /\ \A w2 \in Going(d) \ going : w2 \notin online' \ stranded'
    <3>1. CASE WriteOffline(d, w)
      <4>1. Went(d, Going(d) \ {w}) /\ w \notin online'
        BY <3>1 DEF WriteOffline
      <4> QED BY <4>1
    <3>2. CASE LeaveFails(d, w)
      <4>1. Went(d, Going(d) \ {w, "key"}) /\ stranded' = stranded \cup (Going(d) \cap {w, "key"})
        BY <3>2 DEF LeaveFails, Without
      <4> QED BY <4>1
    <3> QED BY <1>4, <3>1, <3>2
  <2>2. /\ w \in Going(d) /\ socketsOfUser' = socketsOfUser /\ leaked' = leaked
        /\ online' \subseteq OnlineIn /\ stranded' \subseteq OnlineIn
        /\ online' \ stranded' \subseteq online \ stranded
    <3>1. CASE WriteOffline(d, w)
      BY <1>1, <3>1 DEF WriteOffline
    <3>2. CASE LeaveFails(d, w)
      BY <1>1, <3>2 DEF LeaveFails
    <3> QED BY <1>4, <3>1, <3>2
  <2>3. Phase(d) = "leaving" /\ ~device[d].counted /\ "count" \notin Coming(d)
    BY <1>1, <2>2 DEF Sound
  <2>4. PICK phase \in {"closed", "leaving"} :
          /\ PutDevice(d, phase, FALSE, Coming(d), going)
          /\ going = {} \/ phase = "leaving"
    <3>1. device[d].counted = FALSE
      BY <1>1, <2>3
    <3>2. CASE going = {}
      BY <2>1, <3>1, <3>2 DEF Went
    <3>3. CASE going # {}
      BY <2>1, <3>1, <3>3 DEF Went
    <3> QED BY <3>2, <3>3
  <2>5. CountedAs(d, FALSE)
    BY <1>1, <2>2, <2>3 DEF CountedAs
  <2>6. EndsAs(d, phase, going)
    BY <2>1, <2>2, <2>3, <2>4 DEF EndsAs, TakesBack, Here
  <2>7. going \in SUBSET OnlineIn
    BY <1>1, <2>1
  <2> QED BY <1>1, <1>2, <2>2, <2>3, <2>4, <2>5, <2>6, <2>7, DeviceActs
<1> QED BY <1>3, <1>4

LEMMA NextPresence ==
  ASSUME PresenceInv, [PresenceNext]_presenceVars
  PROVE  PresenceInv'
<1> USE DEF PresenceInv
<1>1. CASE CounterExpires
  <2>1. /\ device' = device /\ socketsOfUser' = 0 /\ leaked' = 0 /\ online' = online
        /\ stranded' = IF leaked > 0 THEN OnlineIn ELSE stranded
        /\ \A d \in Devices : Phase(d) = "closed"
    BY <1>1 DEF CounterExpires
  <2>2. DevicesOK'
    BY <2>1 DEF DevicesOK, Sound, Phase, Going, Coming
  <2>3. CountWithin'
    <3>1. socketsOfUser' <= Cardinality(CountedDevices') + leaked'
      BY <2>1, CountedFinite
    <3> QED BY <3>1 DEF CountWithin, CountedDevices
  <2>4. CASE leaked = 0
    <3>1. stranded' = stranded
      BY <2>1, <2>4
    <3> QED BY <2>1, <2>2, <2>3, <2>4, <3>1 DEF OnlineEnds, TakesBack, Here, Phase, Going
  <2>5. CASE leaked # 0
    <3>1. stranded' = OnlineIn
      BY <2>1, <2>5 DEF DevicesOK
    <3>2. online' \subseteq OnlineIn
      BY <2>1 DEF DevicesOK
    <3> QED BY <2>2, <2>3, <3>1, <3>2 DEF OnlineEnds
  <2> QED BY <2>4, <2>5
<1>2. CASE KeyExpires \/ TakenOffline \/ UNCHANGED presenceVars
  <2>1. /\ device' = device /\ socketsOfUser' = socketsOfUser /\ leaked' = leaked
        /\ stranded' = stranded /\ online' \subseteq online
    <3>1. CASE KeyExpires
      BY <3>1 DEF KeyExpires
    <3>2. CASE TakenOffline
      BY <3>2 DEF TakenOffline
    <3>3. CASE UNCHANGED presenceVars
      BY <3>3 DEF presenceVars
    <3> QED BY <1>2, <3>1, <3>2, <3>3
  <2>2. DevicesOK' /\ CountWithin'
    BY <2>1 DEF DevicesOK, Sound, CountWithin, Phase, Going, Coming
  <2>3. OnlineEnds'
    BY <2>1 DEF OnlineEnds, TakesBack, Here, Phase, Going
  <2> QED BY <2>2, <2>3
<1> QED BY <1>1, <1>2, ComingKeeps, GoingKeeps, LeavingKeeps DEF PresenceNext

LEMMA InitPresence == PresenceInit => PresenceInv
<1> SUFFICES ASSUME PresenceInit PROVE PresenceInv
  OBVIOUS
<1>1. DevicesOK
  BY DEF PresenceInit, DevicesOK, Away, DevicePhases, DeviceStates, Sound, Phase, Going, Coming
<1>2. CountWithin
  <2>1. socketsOfUser <= Cardinality(CountedDevices) + leaked
    BY CountedFinite DEF PresenceInit
  <2> QED BY <2>1 DEF CountWithin, CountedDevices
<1> QED BY <1>1, <1>2 DEF PresenceInit, PresenceInv, OnlineEnds

\* Once nobody is connected, whatever still calls the pro online is what a connection wrote
\* after it had gone, or what a killed instance or a failed write left, or the counter
\* drifts: however connections, disconnects and their writes overlap, someone who is
\* counted or still leaving has the last word on every other place (trackSocket, setOnline,
\* touchLastSeen).
THEOREM LastToGoTakesOffline == PresenceSpec => []GoneIsOffline
<1>1. PresenceInit => PresenceInv
  BY InitPresence
<1>2. PresenceInv /\ [PresenceNext]_presenceVars => PresenceInv'
  BY NextPresence
<1>3. PresenceInv => GoneIsOffline
  <2> SUFFICES ASSUME PresenceInv, \A d \in Devices : Phase(d) = "closed", leaked = 0
               PROVE  online \subseteq stranded
    BY DEF GoneIsOffline
  <2>1. \A d \in Devices : \A w : ~TakesBack(d, w)
    BY DEF TakesBack, Here
  <2> QED BY <2>1 DEF PresenceInv, OnlineEnds
<1> QED BY <1>1, <1>2, <1>3, PTL DEF PresenceSpec

FaultsBounded == faults \in 0..MaxFaults

\* A pro's counter, the places that call the pro online and the devices keep their shape,
\* whatever is killed or fails (trackSocket, setOnline, touchLastSeen).
THEOREM PresenceTypes == PresenceSpec => []PresenceTypeOK
<1>1. PresenceInit => FaultsBounded
  BY PresenceAssumption DEF PresenceInit, FaultsBounded
<1>2. ASSUME FaultsBounded, [PresenceNext]_presenceVars PROVE FaultsBounded'
  <2>1. faults' = faults \/ Fault
    BY <1>2 DEF PresenceNext, presenceVars, Connect, CountIn, TouchLastSeen, Disconnect, CountOut,
                CountFails, DropCounter, Kill, WriteOnline, WriteOffline, LeaveFails, ConnectFails,
                CounterExpires, KeyExpires, TakenOffline
  <2> QED BY <1>2, <2>1, PresenceAssumption DEF FaultsBounded, Fault
<1>3. PresenceInv /\ FaultsBounded => PresenceTypeOK
  BY DEF PresenceInv, DevicesOK, FaultsBounded, PresenceTypeOK
<1> QED BY <1>1, <1>2, <1>3, InitPresence, NextPresence, PTL DEF PresenceSpec

-----------------------------------------------------------------------------
(* The counts of traffic.  On the way from a process to Redis no write that *)
(* follows a deletion carries counts older than the visit it was for, and   *)
(* what a report has loaded is no older while its load is current.          *)

SentCommands == [op : {"get", "set", "del"}, report : Reports \cup {NoReport}, count : Nat]

\* A deletion carries visits there are, a write none from before the last deletion that
\* was executed ("since") or that is ahead of it.
InOrder(w, since) ==
  \A i \in 1..Len(w) :
    /\ w[i].op = "set" => w[i].count >= since
    /\ w[i].op = "del" =>
         /\ w[i].count <= Cardinality(visits)
         /\ \A j \in 1..Len(w) : i < j /\ w[j].op = "set" => w[j].count >= w[i].count

\* Counts that may follow what is on the way.
Follows(w, since, n) ==
  /\ n >= since
  /\ \A i \in 1..Len(w) : w[i].op = "del" => n >= w[i].count

WireOK ==
  /\ IsFiniteSet(visits)
  /\ wire \in [Processes -> Seq(SentCommands)]
  /\ floor \in [Processes -> Nat]
  /\ \A p \in Processes : floor[p] <= Cardinality(visits) /\ InOrder(wire[p], floor[p])

LoadsOK ==
  /\ pending \in [Processes -> Reports \cup {NoReport}]
  /\ report \in [Reports -> [pc : {"idle", "get", "load", "check", "store"},
                             process : Processes, count : Nat]]
  /\ \A r \in Reports : report[r].pc = "check" /\ pending[Served(r)] = r
                          => Follows(wire[Served(r)], floor[Served(r)], report[r].count)

EntryOK ==
  entry # NoEntry => /\ entry.by \in Processes /\ entry.count \in Nat
                     /\ entry.count >= floor[entry.by]

TrafficInv == WireOK /\ LoadsOK /\ EntryOK

LEMMA Visited == ASSUME WireOK PROVE Cardinality(visits) \in Nat
BY FS_CardinalityType DEF WireOK

\* A command is sent.
LEMMA SendInOrder ==
  ASSUME NEW w \in Seq(SentCommands), NEW since \in Nat, NEW c \in SentCommands,
         IsFiniteSet(visits), InOrder(w, since),
         c.op = "set" => Follows(w, since, c.count),
         c.op = "del" => c.count <= Cardinality(visits)
  PROVE  /\ Append(w, c) \in Seq(SentCommands)
         /\ InOrder(Append(w, c), since)
<1> DEFINE a == Append(w, c)
<1>1. /\ a \in Seq(SentCommands) /\ Len(a) = Len(w) + 1 /\ Len(w) \in Nat
      /\ \A i \in 1..Len(w) : a[i] = w[i]
      /\ a[Len(w) + 1] = c
  BY AppendProperties
<1> HIDE DEF a
<1>2. ASSUME NEW i \in 1..Len(a), a[i].op = "set"
      PROVE  a[i].count >= since
  <2>1. i \in 1..Len(w) \/ i = Len(w) + 1
    BY <1>1
  <2> QED BY <1>1, <1>2, <2>1 DEF InOrder, Follows
<1>3. ASSUME NEW i \in 1..Len(a), a[i].op = "del"
      PROVE  /\ a[i].count <= Cardinality(visits)
             /\ \A j \in 1..Len(a) : i < j /\ a[j].op = "set" => a[j].count >= a[i].count
  <2>1. CASE i \in 1..Len(w)
    <3>1. ASSUME NEW j \in 1..Len(a), i < j, a[j].op = "set" PROVE a[j].count >= a[i].count
      <4>1. j \in 1..Len(w) \/ j = Len(w) + 1
        BY <1>1
      <4> QED BY <1>1, <1>3, <2>1, <3>1, <4>1 DEF InOrder, Follows
    <3> QED BY <1>1, <1>3, <2>1, <3>1 DEF InOrder
  <2>2. CASE i = Len(w) + 1
    BY <1>1, <1>3, <2>2
  <2> QED BY <1>1, <2>1, <2>2
<1>4. InOrder(a, since)
  BY <1>2, <1>3 DEF InOrder
<1> QED BY <1>1, <1>4 DEF a

\* The first command is executed; if it deletes, it says since when the rest is.
LEMMA TailInOrder ==
  ASSUME NEW w \in Seq(SentCommands), w # <<>>, NEW since \in Nat, InOrder(w, since)
  PROVE  /\ Tail(w) \in Seq(SentCommands) /\ Head(w) \in SentCommands
         /\ InOrder(Tail(w), since)
         /\ Head(w).op = "del" => /\ InOrder(Tail(w), Head(w).count)
                                  /\ Head(w).count <= Cardinality(visits)
         /\ Head(w).op = "set" => Head(w).count >= since
         /\ \A n \in Nat : Follows(w, since, n) =>
              /\ Follows(Tail(w), since, n)
              /\ Head(w).op = "del" => Follows(Tail(w), Head(w).count, n)
<1> DEFINE t == Tail(w)
<1>1. /\ t \in Seq(SentCommands) /\ Head(w) \in SentCommands /\ Head(w) = w[1]
      /\ Len(t) = Len(w) - 1 /\ Len(w) \in Nat \ {0}
      /\ \A i \in 1..Len(t) : t[i] = w[i + 1]
  BY HeadTailProperties, EmptySeq
<1> HIDE DEF t
<1>2. \A i \in 1..Len(t) : i + 1 \in 1..Len(w) /\ 1 < i + 1
  BY <1>1
<1>3. 1 \in 1..Len(w)
  BY <1>1
<1>4. InOrder(t, since)
  <2>1. ASSUME NEW i \in 1..Len(t), t[i].op = "del"
        PROVE  /\ t[i].count <= Cardinality(visits)
               /\ \A j \in 1..Len(t) : i < j /\ t[j].op = "set" => t[j].count >= t[i].count
    <3>1. \A j \in 1..Len(t) : i < j => i + 1 < j + 1
      BY <1>1
    <3> QED BY <1>1, <1>2, <2>1, <3>1 DEF InOrder
  <2>2. \A i \in 1..Len(t) : t[i].op = "set" => t[i].count >= since
    BY <1>1, <1>2 DEF InOrder
  <2> QED BY <2>1, <2>2 DEF InOrder
<1>5. ASSUME Head(w).op = "del"
      PROVE  InOrder(t, Head(w).count) /\ Head(w).count <= Cardinality(visits)
  <2>1. \A i \in 1..Len(t) : t[i].op = "set" => t[i].count >= Head(w).count
    BY <1>1, <1>2, <1>3, <1>5 DEF InOrder
  <2>2. Head(w).count <= Cardinality(visits)
    BY <1>1, <1>3, <1>5 DEF InOrder
  <2> QED BY <1>4, <2>1, <2>2 DEF InOrder
<1>6. Head(w).op = "set" => Head(w).count >= since
  BY <1>1, <1>3 DEF InOrder
<1>7. ASSUME NEW n \in Nat, Follows(w, since, n)
      PROVE  /\ Follows(t, since, n)
             /\ Head(w).op = "del" => Follows(t, Head(w).count, n)
  BY <1>1, <1>2, <1>3, <1>7 DEF Follows
<1> QED BY <1>1, <1>4, <1>5, <1>6, <1>7 DEF t

\* Nobody waits any more: the commands are the same.
LEMMA UnwatchedInOrder ==
  ASSUME NEW r \in Reports, NEW p \in Processes, WireOK
  PROVE  /\ Unwatched(r)[p] \in Seq(SentCommands)
         /\ InOrder(Unwatched(r)[p], floor[p])
         /\ \A n \in Nat : Follows(wire[p], floor[p], n) => Follows(Unwatched(r)[p], floor[p], n)
<1> DEFINE w == wire[p]
           u == Unwatched(r)[p]
<1>1. w \in Seq(SentCommands) /\ InOrder(w, floor[p])
  BY DEF WireOK
<1>2. Len(w) \in Nat /\ DOMAIN w = 1..Len(w) /\ \A i \in 1..Len(w) : w[i] \in SentCommands
  BY <1>1, LenProperties, ElementOfSeq
<1>3. u = [i \in 1..Len(w) |->
             IF w[i].report = r THEN [w[i] EXCEPT !.report = NoReport] ELSE w[i]]
  BY <1>2 DEF Unwatched
<1> HIDE DEF w, u
<1>4. ASSUME NEW i \in 1..Len(w)
      PROVE  u[i] \in SentCommands /\ u[i].op = w[i].op /\ u[i].count = w[i].count
  BY <1>2, <1>3 DEF SentCommands
<1>5. u \in [1..Len(w) -> SentCommands]
  BY <1>3, <1>4
<1>6. u \in Seq(SentCommands)
  BY <1>2, <1>5, SeqDef
<1>7. Len(u) = Len(w)
  <2>1. DOMAIN u = 1..Len(w) /\ DOMAIN u = 1..Len(u) /\ Len(u) \in Nat
    BY <1>5, <1>6, LenProperties
  <2> QED BY <1>2, <2>1
<1>8. InOrder(u, floor[p])
  BY <1>1, <1>4, <1>7 DEF InOrder
<1>9. \A n \in Nat : Follows(w, floor[p], n) => Follows(u, floor[p], n)
  BY <1>4, <1>7 DEF Follows
<1> QED BY <1>6, <1>8, <1>9 DEF w, u

Current(r) == report[r].pc = "check" /\ pending[Served(r)] = r

LoadsShape ==
  /\ pending \in [Processes -> Reports \cup {NoReport}]
  /\ report \in [Reports -> [pc : {"idle", "get", "load", "check", "store"},
                             process : Processes, count : Nat]]

\* A report moves on.
LEMMA ReportMoves ==
  ASSUME LoadsOK, NEW r \in Reports, NEW n \in Nat,
         NEW pc \in {"idle", "get", "load", "check", "store"}, ReportGoes(r, pc, n)
  PROVE  /\ report' \in [Reports -> [pc : {"idle", "get", "load", "check", "store"},
                                     process : Processes, count : Nat]]
         /\ report'[r].pc = pc /\ report'[r].count = n
         /\ \A o \in Reports : report'[o].process = report[o].process
         /\ \A o \in Reports \ {r} : report'[o] = report[o]
<1>1. report[r] \in [pc : {"idle", "get", "load", "check", "store"}, process : Processes, count : Nat]
  BY DEF LoadsOK
<1>2. report' = [report EXCEPT ![r] = [[report[r] EXCEPT !.pc = pc] EXCEPT !.count = n]]
  BY <1>1 DEF ReportGoes, LoadsOK
<1>3. [[report[r] EXCEPT !.pc = pc] EXCEPT !.count = n]
        = [pc |-> pc, process |-> report[r].process, count |-> n]
  <2> DEFINE moved == [report[r] EXCEPT !.pc = pc]
  <2>1. /\ moved \in [pc : {"idle", "get", "load", "check", "store"}, process : Processes, count : Nat]
        /\ moved.pc = pc /\ moved.process = report[r].process
    BY <1>1
  <2> HIDE DEF moved
  <2>2. [moved EXCEPT !.count = n] = [pc |-> pc, process |-> report[r].process, count |-> n]
    BY <2>1
  <2> QED BY <2>2 DEF moved
<1>4. report' = [report EXCEPT ![r] = [pc |-> pc, process |-> report[r].process, count |-> n]]
  BY <1>2, <1>3
<1>5. [pc |-> pc, process |-> report[r].process, count |-> n]
        \in [pc : {"idle", "get", "load", "check", "store"}, process : Processes, count : Nat]
  BY <1>1
<1> QED BY <1>4, <1>5 DEF LoadsOK

LEMMA ForgetMoves ==
  ASSUME LoadsOK, NEW r \in Reports, Forget(r)
  PROVE  /\ pending' \in [Processes -> Reports \cup {NoReport}]
         /\ \A p \in Processes : pending'[p] \in {pending[p], NoReport}
BY DEF LoadsOK, Forget

\* What stays current may still follow what is on the way.
LEMMA LoadsCarry ==
  ASSUME LoadsOK, LoadsShape',
         \A r \in Reports : Current(r)' => Current(r) /\ report'[r] = report[r],
         \A r \in Reports : Current(r)' /\ Follows(wire[Served(r)], floor[Served(r)], report[r].count)
           => Follows(wire'[Served(r)], floor'[Served(r)], report[r].count)
  PROVE  LoadsOK'
<1>1. ASSUME NEW r \in Reports, Current(r)'
      PROVE  Follows(wire'[Served(r)'], floor'[Served(r)'], report'[r].count)
  <2>1. Follows(wire[Served(r)], floor[Served(r)], report[r].count)
    BY <1>1 DEF LoadsOK, Current
  <2>2. Served(r)' = Served(r) /\ report'[r].count = report[r].count
    BY <1>1 DEF Served
  <2> QED BY <1>1, <2>1, <2>2
<1> QED BY <1>1 DEF LoadsOK, LoadsShape, Current

LEMMA WireSends ==
  ASSUME WireOK, NEW p \in Processes, NEW op \in {"get", "set", "del"}, NEW n \in Nat,
         NEW r \in Reports \cup {NoReport}, Send(p, op, r, n),
         op = "set" => Follows(wire[p], floor[p], n),
         op = "del" => n <= Cardinality(visits),
         UNCHANGED <<visits, floor>>
  PROVE  WireOK' /\ \A q \in Processes \ {p} : wire'[q] = wire[q]
<1> DEFINE c == [op |-> op, report |-> r, count |-> n]
<1>1. c \in SentCommands /\ c.op = op /\ c.count = n
  BY DEF SentCommands
<1>2. wire' = [wire EXCEPT ![p] = Append(wire[p], c)]
  BY DEF Send
<1> HIDE DEF c
<1>3. Append(wire[p], c) \in Seq(SentCommands) /\ InOrder(Append(wire[p], c), floor[p])
  BY <1>1, SendInOrder DEF WireOK
<1>4. /\ wire' \in [Processes -> Seq(SentCommands)] /\ wire'[p] = Append(wire[p], c)
      /\ \A q \in Processes \ {p} : wire'[q] = wire[q]
  BY <1>2, <1>3 DEF WireOK
<1>5. \A q \in Processes : InOrder(wire'[q], floor[q])
  BY <1>3, <1>4 DEF WireOK
<1>6. \A q \in Processes : InOrder(wire[q], floor[q])' <=> InOrder(wire'[q], floor[q])
  BY DEF InOrder
<1> QED BY <1>4, <1>5, <1>6 DEF WireOK

LEMMA NextTraffic ==
  ASSUME TrafficInv, [TrafficNext]_trafficVars
  PROVE  TrafficInv'
<1> USE DEF TrafficInv
<1>0. NoReport \notin Reports
  BY TrafficAssumption
<1>1. ASSUME NEW p \in Processes, NEW s \in Sessions, RecordVisit(p, s)
      PROVE  TrafficInv'
  <2>1. IsFiniteSet(visits') /\ Cardinality(visits') = Cardinality(visits) + 1
    <3>1. IsFiniteSet(visits \cup {s}) /\ Cardinality(visits \cup {s}) = Cardinality(visits) + 1
      BY <1>1, FS_AddElement DEF RecordVisit, WireOK
    <3> QED BY <1>1, <3>1 DEF RecordVisit
  <2>2. entry' = entry /\ pending' = pending /\ report' = report /\ wire' = wire /\ floor' = floor
    BY <1>1 DEF RecordVisit
  <2>3. WireOK'
    <3>1. ASSUME NEW q \in Processes
          PROVE  floor[q] <= Cardinality(visits') /\ InOrder(wire[q], floor[q])'
      <4>1. floor[q] <= Cardinality(visits')
        BY <2>1, Visited DEF WireOK
      <4>2. \A i \in 1..Len(wire[q]) : wire[q][i] \in SentCommands
        BY ElementOfSeq DEF WireOK
      <4>3. ASSUME NEW i \in 1..Len(wire[q]), wire[q][i].op = "del"
            PROVE  wire[q][i].count <= Cardinality(visits')
        <5>1. wire[q][i].count \in Nat
          BY <4>2 DEF SentCommands
        <5>2. wire[q][i].count <= Cardinality(visits)
          BY <4>3 DEF WireOK, InOrder
        <5> QED BY <2>1, <5>1, <5>2, Visited
      <4> QED BY <2>2, <4>1, <4>3 DEF WireOK, InOrder
    <3> QED BY <2>1, <2>2, <3>1 DEF WireOK
  <2>4. LoadsOK' /\ EntryOK'
    BY <2>2 DEF LoadsOK, EntryOK, Served, Follows
  <2> QED BY <2>3, <2>4
<1>2. ASSUME NEW p \in Processes, Invalidate(p)
      PROVE  TrafficInv'
  <2>1. /\ visits' = visits /\ entry' = entry /\ report' = report /\ floor' = floor
        /\ pending' = [pending EXCEPT ![p] = NoReport]
    BY <1>2 DEF Invalidate
  <2>2. WireOK' /\ \A q \in Processes \ {p} : wire'[q] = wire[q]
    <3>1. CASE Send(p, "del", NoReport, Cardinality(visits))
      <4>1. Cardinality(visits) <= Cardinality(visits)
        BY Visited
      <4> QED BY <2>1, <3>1, <4>1, Visited, WireSends
    <3>2. CASE UNCHANGED wire
      BY <2>1, <3>2 DEF WireOK, InOrder
    <3> QED BY <1>2, <3>1, <3>2 DEF Invalidate
  <2>3. \A r \in Reports : Current(r)' => Current(r) /\ Served(r) \in Processes \ {p}
    BY <1>0, <2>1 DEF Current, Served, LoadsOK
  <2>4. LoadsOK'
    <3>1. LoadsShape'
      BY <2>1 DEF LoadsShape, LoadsOK
    <3> QED BY <2>1, <2>2, <2>3, <3>1, LoadsCarry
  <2> QED BY <2>1, <2>2, <2>4 DEF EntryOK
<1>3. ASSUME NEW r \in Reports, Cached(r)
      PROVE  TrafficInv'
  <2>0. Served(r) \in Processes
    BY DEF LoadsOK, Served
  <2>1. /\ visits' = visits /\ entry' = entry /\ floor' = floor
        /\ pending[Served(r)] = NoReport
        /\ pending' = [pending EXCEPT ![Served(r)] = r]
        /\ ReportGoes(r, "get", 0) /\ Send(Served(r), "get", r, 0)
    BY <1>3 DEF Cached
  <2>2. WireOK' /\ \A q \in Processes \ {Served(r)} : wire'[q] = wire[q]
    BY <2>0, <2>1, WireSends
  <2>3. /\ LoadsShape' /\ report'[r].pc = "get"
        /\ \A o \in Reports : report'[o].process = report[o].process
        /\ \A o \in Reports \ {r} : report'[o] = report[o]
    BY <2>0, <2>1, ReportMoves DEF LoadsShape, LoadsOK
  <2>4. \A o \in Reports : Current(o)' => /\ o # r /\ Current(o)
                                          /\ Served(o) \in Processes \ {Served(r)}
    BY <2>0, <2>1, <2>3 DEF Current, Served, LoadsOK
  <2>5. LoadsOK'
    BY <2>1, <2>2, <2>3, <2>4, LoadsCarry
  <2> QED BY <2>1, <2>2, <2>5 DEF EntryOK
<1>4. ASSUME NEW r \in Reports, LoadCounts(r)
      PROVE  TrafficInv'
  <2>0. Served(r) \in Processes /\ Cardinality(visits) \in Nat
    BY Visited DEF LoadsOK, Served
  <2>1. /\ visits' = visits /\ entry' = entry /\ floor' = floor /\ wire' = wire /\ pending' = pending
        /\ ReportGoes(r, "check", Cardinality(visits))
    BY <1>4 DEF LoadCounts
  <2>2. /\ report' \in [Reports -> [pc : {"idle", "get", "load", "check", "store"},
                                     process : Processes, count : Nat]]
        /\ report'[r].count = Cardinality(visits)
        /\ \A o \in Reports : report'[o].process = report[o].process
        /\ \A o \in Reports \ {r} : report'[o] = report[o]
    BY <2>0, <2>1, ReportMoves
  <2>3. WireOK' /\ EntryOK'
    BY <2>1 DEF WireOK, InOrder, EntryOK
  <2>4. Follows(wire[Served(r)], floor[Served(r)], Cardinality(visits))
    <3>1. \A q \in Processes : Follows(wire[q], floor[q], Cardinality(visits))
      BY Visited DEF WireOK, InOrder, Follows
    <3> QED BY <2>0, <3>1
  <2>5. LoadsOK'
    <3>1. ASSUME NEW o \in Reports, report'[o].pc = "check", pending'[Served(o)'] = o
          PROVE  Follows(wire'[Served(o)'], floor'[Served(o)'], report'[o].count)
      <4>1. Served(o)' = Served(o)
        BY <2>2 DEF Served
      <4>2. CASE o = r
        BY <2>1, <2>2, <2>4, <4>1, <4>2
      <4>3. CASE o # r
        <5>1. report'[o] = report[o]
          BY <2>2, <4>3
        <5> QED BY <2>1, <3>1, <4>1, <5>1 DEF LoadsOK
      <4> QED BY <4>2, <4>3
    <3> QED BY <2>1, <2>2, <3>1 DEF LoadsOK
  <2> QED BY <2>3, <2>5
<1>5. ASSUME NEW r \in Reports, StoreIfCurrent(r)
      PROVE  TrafficInv'
  <2>0. /\ Served(r) \in Processes /\ report[r].count \in Nat /\ report[r].pc = "check"
        /\ visits' = visits /\ entry' = entry /\ floor' = floor
    BY <1>5 DEF LoadsOK, Served, StoreIfCurrent
  <2>1. CASE pending[Served(r)] = r
    <3>1. /\ Send(Served(r), "set", r, report[r].count) /\ ReportGoes(r, "store", 0)
          /\ pending' = pending
      BY <1>5, <2>1 DEF StoreIfCurrent
    <3>2. Follows(wire[Served(r)], floor[Served(r)], report[r].count)
      BY <2>0, <2>1 DEF LoadsOK
    <3>3. WireOK' /\ \A q \in Processes \ {Served(r)} : wire'[q] = wire[q]
      BY <2>0, <3>1, <3>2, WireSends
    <3>4. /\ LoadsShape' /\ report'[r].pc = "store"
          /\ \A o \in Reports : report'[o].process = report[o].process
          /\ \A o \in Reports \ {r} : report'[o] = report[o]
      BY <2>0, <3>1, ReportMoves DEF LoadsShape, LoadsOK
    <3>5. \A o \in Reports : Current(o)' => /\ o # r /\ Current(o)
                                            /\ Served(o) \in Processes \ {Served(r)}
      BY <2>0, <2>1, <3>1, <3>4 DEF Current, Served, LoadsOK
    <3>6. LoadsOK'
      BY <2>0, <3>3, <3>4, <3>5, LoadsCarry
    <3> QED BY <2>0, <3>3, <3>6 DEF EntryOK
  <2>2. CASE pending[Served(r)] # r
    <3>1. ReportGoes(r, "idle", 0) /\ Forget(r) /\ wire' = wire
      BY <1>5, <2>2 DEF StoreIfCurrent
    <3>2. WireOK' /\ EntryOK'
      BY <2>0, <3>1 DEF WireOK, InOrder, EntryOK
    <3>3. /\ LoadsShape' /\ report'[r].pc = "idle"
          /\ \A o \in Reports : report'[o].process = report[o].process
          /\ \A o \in Reports \ {r} : report'[o] = report[o]
          /\ \A p \in Processes : pending'[p] \in {pending[p], NoReport}
      BY <3>1, ReportMoves, ForgetMoves DEF LoadsShape
    <3>4. \A o \in Reports : Current(o)' => o # r /\ Current(o)
      BY <1>0, <3>3 DEF Current, Served, LoadsOK
    <3>5. LoadsOK'
      BY <2>0, <3>1, <3>3, <3>4, LoadsCarry
    <3> QED BY <3>2, <3>5
  <2> QED BY <2>1, <2>2
<1>6. ASSUME NEW r \in Reports, Deadline(r)
      PROVE  TrafficInv'
  <2>1. /\ visits' = visits /\ entry' = entry /\ floor' = floor /\ wire' = Unwatched(r)
        /\ pending' = pending \/ Forget(r)
        /\ ReportGoes(r, "load", 0) \/ ReportGoes(r, "idle", 0)
    BY <1>6 DEF Deadline
  <2>2. WireOK'
    <3>1. /\ Unwatched(r) \in [Processes -> Seq(SentCommands)]
          /\ \A q \in Processes : InOrder(Unwatched(r)[q], floor[q])
      <4>1. Unwatched(r) = [q \in Processes |-> Unwatched(r)[q]]
        BY DEF Unwatched
      <4> QED BY <4>1, UnwatchedInOrder
    <3> QED BY <2>1, <3>1 DEF WireOK, InOrder
  <2>3. /\ LoadsShape' /\ report'[r].pc # "check"
        /\ \A o \in Reports : report'[o].process = report[o].process
        /\ \A o \in Reports \ {r} : report'[o] = report[o]
        /\ \A p \in Processes : pending'[p] \in {pending[p], NoReport}
    <3>1. /\ pending' \in [Processes -> Reports \cup {NoReport}]
          /\ \A p \in Processes : pending'[p] \in {pending[p], NoReport}
      BY <2>1, ForgetMoves DEF LoadsOK
    <3> QED BY <2>1, <3>1, ReportMoves DEF LoadsShape
  <2>4. \A o \in Reports : Current(o)' => o # r /\ Current(o) /\ Served(o) \in Processes /\ report[o].count \in Nat
    BY <1>0, <2>3 DEF Current, Served, LoadsOK
  <2>5. LoadsOK'
    <3>1. \A o \in Reports : Current(o)' /\ Follows(wire[Served(o)], floor[Served(o)], report[o].count)
             => Follows(wire'[Served(o)], floor'[Served(o)], report[o].count)
      BY <2>1, <2>4, UnwatchedInOrder
    <3> QED BY <2>3, <2>4, <3>1, LoadsCarry
  <2> QED BY <2>1, <2>2, <2>5 DEF EntryOK
<1>7. ASSUME NEW p \in Processes, Execute(p)
      PROVE  TrafficInv'
  <2> DEFINE c == Head(wire[p])
             since == IF c.op = "del" THEN c.count ELSE floor[p]
  <2>1. /\ wire[p] # <<>> /\ wire' = [wire EXCEPT ![p] = Tail(wire[p])]
        /\ entry' = CASE c.op = "set" -> [count |-> c.count, by |-> p]
                      [] c.op = "del" -> NoEntry
                      [] c.op = "get" -> entry
        /\ floor' = IF c.op = "del" THEN [floor EXCEPT ![p] = c.count] ELSE floor
        /\ visits' = visits
    BY <1>7 DEF Execute
  <2>2. /\ c \in SentCommands /\ Tail(wire[p]) \in Seq(SentCommands)
        /\ InOrder(Tail(wire[p]), since)
        /\ c.op = "del" => c.count <= Cardinality(visits)
        /\ c.op = "set" => c.count >= floor[p]
        /\ \A n \in Nat : Follows(wire[p], floor[p], n) => Follows(Tail(wire[p]), since, n)
    BY <2>1, TailInOrder DEF WireOK
  <2>3. c.op \in {"get", "set", "del"} /\ c.count \in Nat /\ c.report \in Reports \cup {NoReport}
    BY <2>2 DEF SentCommands
  <2>4. /\ wire'[p] = Tail(wire[p]) /\ floor'[p] = since
        /\ \A q \in Processes \ {p} : wire'[q] = wire[q] /\ floor'[q] = floor[q]
        /\ wire' \in [Processes -> Seq(SentCommands)] /\ floor' \in [Processes -> Nat]
    BY <2>1, <2>2, <2>3 DEF WireOK
  <2>5. /\ c.report = NoReport => report' = report /\ pending' = pending
        /\ c.report # NoReport =>
             \/ ReportGoes(c.report, "load", 0) /\ pending' = pending
             \/ ReportGoes(c.report, "idle", 0) /\ Forget(c.report)
    BY <1>7 DEF Execute
  <2> HIDE DEF c
  <2>6. WireOK'
    <3>1. \A q \in Processes : floor'[q] <= Cardinality(visits) /\ InOrder(wire'[q], floor'[q])
      BY <2>2, <2>4 DEF WireOK
    <3>2. \A q \in Processes : InOrder(wire[q], floor[q])' <=> InOrder(wire'[q], floor'[q])
      BY <2>1 DEF InOrder
    <3> QED BY <2>1, <2>4, <3>1, <3>2 DEF WireOK
  <2>7. EntryOK'
    <3>1. CASE c.op = "set"
      BY <2>1, <2>2, <2>3, <3>1, <2>4 DEF EntryOK, WireOK
    <3>2. CASE c.op = "del"
      BY <2>1, <3>2 DEF EntryOK
    <3>3. CASE c.op = "get"
      BY <2>1, <3>3 DEF EntryOK
    <3> QED BY <2>3, <3>1, <3>2, <3>3
  <2>8. /\ LoadsShape'
        /\ \A o \in Reports : Current(o)' => /\ Current(o) /\ report'[o] = report[o]
                                             /\ Served(o) \in Processes /\ report[o].count \in Nat
    <3>1. CASE c.report = NoReport
      BY <2>5, <3>1 DEF LoadsShape, LoadsOK, Current, Served
    <3>2. CASE c.report # NoReport
      <4>1. c.report \in Reports
        BY <2>3, <3>2
      <4>2. /\ LoadsShape' /\ report'[c.report].pc # "check"
            /\ \A o \in Reports : report'[o].process = report[o].process
            /\ \A o \in Reports \ {c.report} : report'[o] = report[o]
            /\ \A q \in Processes : pending'[q] \in {pending[q], NoReport}
        <5>1. /\ pending' \in [Processes -> Reports \cup {NoReport}]
              /\ \A q \in Processes : pending'[q] \in {pending[q], NoReport}
          BY <2>5, <3>2, <4>1, ForgetMoves DEF LoadsOK
        <5> QED BY <2>5, <3>2, <4>1, <5>1, ReportMoves DEF LoadsShape
      <4> QED BY <1>0, <4>2 DEF Current, Served, LoadsOK
    <3> QED BY <3>1, <3>2
  <2>9. LoadsOK'
    <3>1. \A o \in Reports : Current(o)' /\ Follows(wire[Served(o)], floor[Served(o)], report[o].count)
             => Follows(wire'[Served(o)], floor'[Served(o)], report[o].count)
      BY <2>2, <2>4, <2>8
    <3> QED BY <2>8, <3>1, LoadsCarry
  <2> QED BY <2>6, <2>7, <2>9
<1>8. CASE EntryExpires
  BY <1>8 DEF EntryExpires, WireOK, InOrder, LoadsOK, EntryOK, Served, Follows
<1>9. CASE UNCHANGED trafficVars
  BY <1>9 DEF trafficVars, WireOK, InOrder, LoadsOK, EntryOK, Served, Follows
<1> QED BY <1>1, <1>2, <1>3, <1>4, <1>5, <1>6, <1>7, <1>8, <1>9 DEF TrafficNext

LEMMA InitTraffic == TrafficInit => TrafficInv
<1> SUFFICES ASSUME TrafficInit PROVE TrafficInv
  OBVIOUS
<1>1. WireOK
  <2>1. /\ visits = {} /\ wire = [p \in Processes |-> <<>>] /\ floor = [p \in Processes |-> 0]
    BY DEF TrafficInit
  <2>2. IsFiniteSet(visits) /\ Cardinality(visits) = 0
    BY <2>1, FS_EmptySet
  <2>3. \A p \in Processes : Len(wire[p]) = 0 /\ wire[p] \in Seq(SentCommands) /\ floor[p] = 0
    BY <2>1, EmptySeq
  <2>4. \A p \in Processes : InOrder(wire[p], floor[p])
    BY <2>3 DEF InOrder
  <2> QED BY <2>1, <2>2, <2>3, <2>4 DEF WireOK
<1>2. LoadsOK /\ EntryOK
  BY DEF TrafficInit, LoadsOK, EntryOK
<1> QED BY <1>1, <1>2 DEF TrafficInv

\* Counts loaded before a visit are not put back by the process that dropped them for
\* it, neither by a load still on its way nor by a write that missed its deadline
\* (cached and invalidate of cache.ts).
THEOREM NoVisitIsUncounted == TrafficSpec => []NoStaleStore
<1>1. TrafficInit => TrafficInv
  BY InitTraffic
<1>2. TrafficInv /\ [TrafficNext]_trafficVars => TrafficInv'
  BY NextTraffic
<1>3. TrafficInv => NoStaleStore
  BY DEF TrafficInv, EntryOK, NoStaleStore
<1> QED BY <1>1, <1>2, <1>3, PTL DEF TrafficSpec

\* A count never exceeds the sessions there are, wherever it is on its way.
CountsIn(w) == Len(w) <= MaxWire /\ \A i \in 1..Len(w) : w[i].count \in VisitCounts

CountsOK ==
  /\ visits \subseteq Sessions /\ recording \subseteq Processes
  /\ entry \in Entries \cup {NoEntry}
  /\ \A r \in Reports : report[r].count \in VisitCounts
  /\ \A p \in Processes : CountsIn(wire[p]) /\ floor[p] \in VisitCounts

LEMMA SomeCounts ==
  /\ 0 \in VisitCounts
  /\ \A S : S \subseteq Sessions => Cardinality(S) \in VisitCounts
<1>1. IsFiniteSet(Sessions) /\ Cardinality(Sessions) \in Nat
  BY TrafficAssumption, FS_CardinalityType
<1>2. ASSUME NEW S, S \subseteq Sessions PROVE Cardinality(S) \in VisitCounts
  <2>1. Cardinality(S) \in Nat /\ Cardinality(S) <= Cardinality(Sessions)
    BY <1>1, <1>2, FS_Subset, FS_CardinalityType
  <2> QED BY <1>1, <2>1 DEF VisitCounts
<1>3. 0 \in VisitCounts
  BY <1>1 DEF VisitCounts
<1> QED BY <1>2, <1>3

LEMMA CountsSent ==
  ASSUME WireOK, CountsOK, NEW p \in Processes, NEW op \in {"get", "set", "del"},
         NEW r \in Reports \cup {NoReport}, NEW count \in VisitCounts, Send(p, op, r, count)
  PROVE  \A q \in Processes : CountsIn(wire'[q])
<1>1. PICK w, c : w = wire[p] /\ c = [op |-> op, report |-> r, count |-> count]
  OBVIOUS
<1>2. w \in Seq(SentCommands) /\ Len(w) < MaxWire /\ CountsIn(w) /\ c \in SentCommands
  <2>1. VisitCounts \subseteq Nat
    BY DEF VisitCounts
  <2> QED BY <1>1, <2>1 DEF WireOK, CountsOK, Send, SentCommands
<1>3. /\ wire'[p] = Append(w, c)
      /\ \A q \in Processes \ {p} : wire'[q] = wire[q]
  BY <1>1 DEF Send, WireOK
<1>4. CountsIn(Append(w, c))
  <2>1. Len(Append(w, c)) = Len(w) + 1 /\ Len(w) \in Nat /\ MaxWire \in Nat
    BY <1>2, TrafficAssumption
  <2>2. \A i \in 1..(Len(w) + 1) : Append(w, c)[i] = IF i = Len(w) + 1 THEN c ELSE w[i]
    BY <1>2
  <2>3. c.count \in VisitCounts
    BY <1>1
  <2> QED BY <1>2, <2>1, <2>2, <2>3 DEF CountsIn
<1> QED BY <1>3, <1>4 DEF CountsOK

LEMMA UnwatchedSame ==
  ASSUME NEW r \in Reports, NEW p \in Processes, WireOK
  PROVE  /\ Len(Unwatched(r)[p]) = Len(wire[p])
         /\ \A i \in 1..Len(wire[p]) : Unwatched(r)[p][i].count = wire[p][i].count
<1> DEFINE w == wire[p]
           u == Unwatched(r)[p]
<1>1. w \in Seq(SentCommands) /\ u \in Seq(SentCommands)
  BY UnwatchedInOrder DEF WireOK
<1>2. /\ Len(w) \in Nat /\ DOMAIN w = 1..Len(w) /\ \A i \in 1..Len(w) : w[i] \in SentCommands
      /\ Len(u) \in Nat /\ DOMAIN u = 1..Len(u)
  BY <1>1, LenProperties, ElementOfSeq
<1>3. u = [i \in 1..Len(w) |-> IF w[i].report = r THEN [w[i] EXCEPT !.report = NoReport] ELSE w[i]]
  BY <1>2 DEF Unwatched
<1> HIDE DEF w, u
<1>4. DOMAIN u = 1..Len(w)
  BY <1>3
<1>5. Len(u) = Len(w)
  <2>1. PICK m \in Nat, n \in Nat : m = Len(u) /\ n = Len(w) /\ 1..m = 1..n
    BY <1>2, <1>4
  <2>2. ~(m < n) /\ ~(n < m)
    <3>1. n \in 1..n => n \in 1..m
      BY <2>1
    <3>2. m \in 1..m => m \in 1..n
      BY <2>1
    <3> QED BY <3>1, <3>2
  <2> QED BY <2>1, <2>2
<1>6. ASSUME NEW i \in 1..Len(w) PROVE u[i].count = w[i].count
  BY <1>2, <1>3 DEF SentCommands
<1> QED BY <1>5, <1>6 DEF w, u

LEMMA CountsKept ==
  ASSUME WireOK, LoadsOK, CountsOK, [TrafficNext]_trafficVars PROVE CountsOK'
<1> USE DEF CountsOK
<1>1. ASSUME NEW p \in Processes, NEW s \in Sessions, RecordVisit(p, s) PROVE CountsOK'
  BY <1>1 DEF RecordVisit
<1>2. ASSUME NEW p \in Processes, Invalidate(p) PROVE CountsOK'
  <2>1. Cardinality(visits) \in VisitCounts
    BY SomeCounts
  <2>2. \A q \in Processes : CountsIn(wire'[q])
    BY <1>2, <2>1, CountsSent DEF Invalidate
  <2> QED BY <1>2, <2>2 DEF Invalidate
<1>3. ASSUME NEW r \in Reports, NEW pc, NEW n \in VisitCounts, ReportGoes(r, pc, n)
      PROVE  \A q \in Reports : report'[q].count \in VisitCounts
  BY <1>3 DEF ReportGoes, LoadsOK
<1>4. ASSUME NEW r \in Reports, Cached(r) PROVE CountsOK'
  <2>1. Served(r) \in Processes
    BY DEF LoadsOK, Served
  <2>2. \A q \in Processes : CountsIn(wire'[q])
    BY <1>4, <2>1, CountsSent, SomeCounts DEF Cached
  <2> QED BY <1>3, <1>4, <2>2, SomeCounts DEF Cached
<1>5. ASSUME NEW r \in Reports, LoadCounts(r) PROVE CountsOK'
  <2>1. Cardinality(visits) \in VisitCounts
    BY SomeCounts
  <2> QED BY <1>3, <1>5, <2>1 DEF LoadCounts
<1>6. ASSUME NEW r \in Reports, StoreIfCurrent(r) PROVE CountsOK'
  <2>1. Served(r) \in Processes
    BY DEF LoadsOK, Served
  <2>2. \A q \in Processes : CountsIn(wire'[q])
    BY <1>6, <2>1, CountsSent DEF StoreIfCurrent
  <2> QED BY <1>3, <1>6, <2>2, SomeCounts DEF StoreIfCurrent
<1>7. ASSUME NEW r \in Reports, Deadline(r) PROVE CountsOK'
  <2>1. ASSUME NEW q \in Processes PROVE CountsIn(wire'[q])
    <3>1. PICK w : w = wire[q] /\ w \in Seq(SentCommands) /\ CountsIn(w)
      BY DEF WireOK
    <3>2. PICK u : u = wire'[q] /\ u = Unwatched(r)[q]
      BY <1>7 DEF Deadline
    <3>3. Len(u) = Len(w) /\ \A i \in 1..Len(w) : u[i].count = w[i].count
      BY <3>1, <3>2, UnwatchedSame
    <3> QED BY <3>1, <3>2, <3>3 DEF CountsIn
  <2> QED BY <1>3, <1>7, <2>1, SomeCounts DEF Deadline
<1>8. ASSUME NEW p \in Processes, Execute(p) PROVE CountsOK'
  <2>1. PICK w, c : w = wire[p] /\ c = Head(w)
    OBVIOUS
  <2>2. /\ w \in Seq(SentCommands) /\ w # <<>> /\ CountsIn(w)
        /\ c \in SentCommands /\ c.count \in VisitCounts
    <3>1. w \in Seq(SentCommands) /\ w # <<>> /\ CountsIn(w)
      BY <1>8, <2>1 DEF Execute, WireOK
    <3>2. c = w[1] /\ 1 \in 1..Len(w)
      BY <2>1, <3>1
    <3> QED BY <3>1, <3>2 DEF CountsIn
  <2>3. /\ wire' = [wire EXCEPT ![p] = Tail(w)]
        /\ entry' = CASE c.op = "set" -> [count |-> c.count, by |-> p]
                      [] c.op = "del" -> NoEntry
                      [] c.op = "get" -> entry
        /\ floor' = IF c.op = "del" THEN [floor EXCEPT ![p] = c.count] ELSE floor
        /\ visits' = visits /\ recording' = recording
    BY <1>8, <2>1 DEF Execute
  <2>4. \A q \in Processes : CountsIn(wire'[q])
    <3>1. CountsIn(Tail(w))
      <4>1. /\ Len(Tail(w)) = Len(w) - 1 /\ Len(w) \in Nat /\ Len(w) >= 1
            /\ \A i \in 1..(Len(w) - 1) : Tail(w)[i] = w[i + 1] /\ i + 1 \in 1..Len(w)
        BY <2>2
      <4>2. MaxWire \in Int
        BY TrafficAssumption
      <4> QED BY <2>2, <4>1, <4>2 DEF CountsIn
    <3> QED BY <2>3, <3>1 DEF WireOK
  <2>5. entry' \in Entries \cup {NoEntry}
    BY <2>2, <2>3 DEF Entries, SentCommands
  <2>6. \A q \in Processes : floor'[q] \in VisitCounts
    BY <2>2, <2>3 DEF WireOK
  <2>7. \A q \in Reports : report'[q].count \in VisitCounts
    <3>1. CASE c.report = NoReport
      BY <1>8, <2>1, <3>1 DEF Execute
    <3>2. CASE c.report # NoReport
      <4>1. c.report \in Reports
        BY <2>2, <3>2 DEF SentCommands
      <4>2. ReportGoes(c.report, "load", 0) \/ ReportGoes(c.report, "idle", 0)
        BY <1>8, <2>1, <3>2 DEF Execute
      <4> QED BY <1>3, <4>1, <4>2, SomeCounts
    <3> QED BY <3>1, <3>2
  <2> QED BY <2>3, <2>4, <2>5, <2>6, <2>7
<1>9. CASE EntryExpires
  BY <1>9 DEF EntryExpires
<1>10. CASE UNCHANGED trafficVars
  BY <1>10 DEF trafficVars
<1> QED BY <1>1, <1>2, <1>4, <1>5, <1>6, <1>7, <1>8, <1>9, <1>10 DEF TrafficNext

\* The counts, wherever they are on their way, are counts of the sessions there are, and
\* the commands of a process stay within their number (cached, invalidate, recordVisit).
THEOREM TrafficTypes == TrafficSpec => []TrafficTypeOK
<1>1. TrafficInit => CountsOK
  <2> SUFFICES ASSUME TrafficInit PROVE CountsOK
    OBVIOUS
  <2>1. \A p \in Processes : CountsIn(wire[p])
    <3>1. CountsIn(<<>>)
      <4>1. Len(<<>>) = 0 /\ MaxWire \in Nat
        BY TrafficAssumption
      <4> QED BY <4>1 DEF CountsIn
    <3> QED BY <3>1 DEF TrafficInit
  <2> QED BY <2>1, SomeCounts DEF TrafficInit, CountsOK
<1>2. WireOK /\ LoadsOK /\ CountsOK => TrafficTypeOK
  <2> SUFFICES ASSUME WireOK, LoadsOK, CountsOK PROVE TrafficTypeOK
    OBVIOUS
  <2>1. ASSUME NEW p \in Processes PROVE wire[p] \in Seq(Commands) /\ Len(wire[p]) <= MaxWire
    <3>1. PICK w : w = wire[p] /\ w \in Seq(SentCommands) /\ CountsIn(w)
      BY DEF WireOK, CountsOK
    <3>2. Len(w) \in Nat /\ DOMAIN w = 1..Len(w) /\ \A i \in 1..Len(w) : w[i] \in SentCommands
      BY <3>1, LenProperties, ElementOfSeq
    <3>3. ASSUME NEW i \in 1..Len(w) PROVE w[i] \in Commands
      <4>1. w[i] \in SentCommands /\ w[i].count \in VisitCounts
        BY <3>1, <3>2 DEF CountsIn
      <4> QED BY <4>1 DEF SentCommands, Commands
    <3>4. w \in [1..Len(w) -> Commands]
      BY <3>1, <3>2, <3>3
    <3>5. w \in Seq(Commands)
      BY <3>2, <3>4, SeqDef
    <3> QED BY <3>1, <3>5 DEF CountsIn
  <2>2. report \in [Reports -> ReportStates]
    BY DEF LoadsOK, CountsOK, ReportStates
  <2>3. floor \in [Processes -> VisitCounts]
    BY DEF WireOK, CountsOK
  <2> QED BY <2>1, <2>2, <2>3 DEF LoadsOK, CountsOK, TrafficTypeOK
<1>3. TrafficInv => WireOK /\ LoadsOK
  BY DEF TrafficInv
<1> QED BY <1>1, <1>2, <1>3, CountsKept, InitTraffic, NextTraffic, PTL DEF TrafficSpec

-----------------------------------------------------------------------------
(* The conversation.  Every unread message is in the counter of its reader, *)
(* about to be added by the handler that stored it, or among those that an  *)
(* overlapping save has overwritten; and every copy a handler holds, with   *)
(* what was counted since it was loaded, accounts for them as well.         *)

Previews == Messages \cup {Latest(S) : S \in SUBSET Messages}
TaskShapes == [pc : {"idle", "store", "save", "mark", "clear", "rewind", "savePreview"},
               user : Members \cup {Nobody}, count : Counts, message : Previews, missed : Nat]

ChatOK ==
  /\ sentBy \in [Messages -> Members \cup {Nobody}]
  /\ stored \subseteq Messages
  /\ readBy \in [Messages -> SUBSET Members]
  /\ unread \in [Members -> Counts]
  /\ overwritten \in [Members -> Nat]
  /\ chatTask \in [ChatHandlers -> TaskShapes]
  /\ \A m \in stored : sentBy[m] # Nobody

HoldsCopy(h) == chatTask[h].pc \in {"store", "save", "mark", "clear"}

CopiesOK == \A h \in ChatHandlers : HoldsCopy(h) => chatTask[h].user \in Members

\* What a handler saves counts messages that were sent.
BadgesOK ==
  /\ UnreadWithinSent
  /\ \A h \in ChatHandlers, u \in Members : chatTask[h].user = u =>
       /\ ChatAt(h, "store") => Unread(chatTask[h].count) <= Cardinality(SentTo(u))
       /\ ChatAt(h, "save") => Unread(chatTask[h].count) + 1 <= Cardinality(SentTo(u))

Saving(u) == {h \in ChatHandlers : ChatAt(h, "save") /\ chatTask[h].user = u}

\* The unread messages are among n and those about to be added.
Covers(u, n) == Cardinality(UnreadMessages(u)) <= n + Cardinality(Saving(u))

NothingHidden ==
  /\ \A u \in Members : IsFiniteSet(Saving(u)) /\ Covers(u, Unread(unread[u]) + overwritten[u])
  /\ \A h \in ChatHandlers, u \in Members : chatTask[h].user = u =>
       /\ chatTask[h].pc \in {"store", "save"} =>
            Covers(u, Unread(chatTask[h].count) + chatTask[h].missed + overwritten[u])
       /\ ChatAt(h, "clear") => Covers(u, chatTask[h].missed)

ChatInv == ChatOK /\ CopiesOK /\ BadgesOK /\ NothingHidden

LEMMA MessagesFinite ==
  ASSUME ChatOK
  PROVE  \A u : /\ IsFiniteSet(UnreadMessages(u)) /\ Cardinality(UnreadMessages(u)) \in Nat
                /\ IsFiniteSet(SentTo(u)) /\ Cardinality(SentTo(u)) \in Nat
<1>1. IsFiniteSet(Messages)
  BY ChatAssumption, CountTo DEF Messages
<1>2. \A u : UnreadMessages(u) \subseteq Messages /\ SentTo(u) \subseteq Messages
  BY DEF UnreadMessages, SentTo, ChatOK
<1>3. \A u : IsFiniteSet(UnreadMessages(u)) /\ IsFiniteSet(SentTo(u))
  BY <1>1, <1>2, FS_Subset
<1> QED BY <1>3, FS_CardinalityType

LEMMA MessagesFiniteNext ==
  ASSUME ChatOK'
  PROVE  \A u : /\ IsFiniteSet(UnreadMessages(u)') /\ Cardinality(UnreadMessages(u)') \in Nat
                /\ IsFiniteSet(SentTo(u)') /\ Cardinality(SentTo(u)') \in Nat
<1>1. IsFiniteSet(Messages)
  BY ChatAssumption, CountTo DEF Messages
<1>2. \A u : UnreadMessages(u)' \subseteq Messages /\ SentTo(u)' \subseteq Messages
  BY DEF UnreadMessages, SentTo, ChatOK
<1>3. \A u : IsFiniteSet(UnreadMessages(u)') /\ IsFiniteSet(SentTo(u)')
  BY <1>1, <1>2, FS_Subset
<1> QED BY <1>3, FS_CardinalityType

LEMMA UnreadNumber == \A c \in Counts : Unread(c) \in Nat
BY DEF Counts, Unread

LEMMA NoChatTaskShape ==
  /\ NoChatTask \in TaskShapes /\ NoChatTask.pc = "idle" /\ NoChatTask.user = Nobody
  /\ NoChatTask.count = NoCount /\ NoChatTask.missed = 0
<1>1. 0 \in Previews
  <2>1. Latest({}) = 0 /\ {} \in SUBSET Messages
    BY DEF Latest
  <2> QED BY <2>1 DEF Previews
<1> QED BY <1>1 DEF NoChatTask, TaskShapes, Counts

\* One handler goes on.
LEMMA ChatMoves ==
  ASSUME ChatOK, NEW h \in ChatHandlers, NEW t \in TaskShapes, ChatBecome(h, t)
  PROVE  /\ chatTask' \in [ChatHandlers -> TaskShapes] /\ chatTask'[h] = t
         /\ \A g \in ChatHandlers \ {h} : chatTask'[g] = chatTask[g]
BY DEF ChatOK, ChatBecome

\* A counter is saved.
LEMMA UnreadSaved ==
  ASSUME ChatOK, NEW h \in ChatHandlers, NEW u \in Members, NEW c \in Nat, NEW counted \in Nat,
         NEW kept \in Nat, SaveUnread(h, u, c, counted, kept)
  PROVE  /\ chatTask' \in [ChatHandlers -> TaskShapes] /\ chatTask'[h] = NoChatTask
         /\ \A g \in ChatHandlers \ {h} :
              /\ chatTask'[g].pc = chatTask[g].pc /\ chatTask'[g].user = chatTask[g].user
              /\ chatTask'[g].count = chatTask[g].count
              /\ chatTask'[g].missed = chatTask[g].missed + (IF chatTask[g].user = u THEN counted ELSE 0)
         /\ unread' \in [Members -> Counts] /\ unread'[u] = c
         /\ \A v \in Members \ {u} : unread'[v] = unread[v] /\ overwritten'[v] = overwritten[v]
         /\ overwritten' \in [Members -> Nat] /\ overwritten'[u] = kept + chatTask[h].missed
<1>1. unread' \in [Members -> Counts] /\ unread'[u] = c
      /\ \A v \in Members \ {u} : unread'[v] = unread[v]
  BY DEF SaveUnread, ChatOK, Counts
<1>2. PICK k \in Nat : k = kept + chatTask[h].missed
  BY DEF ChatOK, TaskShapes
<1>3. /\ overwritten' \in [Members -> Nat] /\ overwritten'[u] = k
      /\ \A v \in Members \ {u} : overwritten'[v] = overwritten[v]
  BY <1>2 DEF SaveUnread, ChatOK
<1> DEFINE after(g) == IF chatTask[g].user = u THEN [chatTask[g] EXCEPT !.missed = @ + counted]
                       ELSE chatTask[g]
<1>4. chatTask' = [g \in ChatHandlers |-> IF g = h THEN NoChatTask ELSE after(g)]
  BY DEF SaveUnread
<1>5. ASSUME NEW g \in ChatHandlers
      PROVE  /\ after(g) \in TaskShapes
             /\ after(g).pc = chatTask[g].pc /\ after(g).user = chatTask[g].user
             /\ after(g).count = chatTask[g].count
             /\ after(g).missed = chatTask[g].missed + (IF chatTask[g].user = u THEN counted ELSE 0)
  <2>1. chatTask[g] \in TaskShapes
    BY DEF ChatOK
  <2>2. CASE chatTask[g].user = u
    BY <2>1, <2>2 DEF TaskShapes
  <2>3. CASE chatTask[g].user # u
    BY <2>1, <2>3 DEF TaskShapes
  <2> QED BY <2>2, <2>3
<1> HIDE DEF after
<1>6. chatTask' \in [ChatHandlers -> TaskShapes] /\ chatTask'[h] = NoChatTask
      /\ \A g \in ChatHandlers \ {h} : chatTask'[g] = after(g)
  BY <1>4, <1>5, NoChatTaskShape
<1> QED BY <1>1, <1>2, <1>3, <1>5, <1>6

\* Cardinalities of what a step leaves, takes away or adds.
LEMMA SavingNumber ==
  ASSUME NothingHidden PROVE \A u \in Members : Cardinality(Saving(u)) \in Nat
BY FS_CardinalityType DEF NothingHidden

LEMMA FewerUnread ==
  ASSUME ChatOK, ChatOK', NEW u, UnreadMessages(u)' \subseteq UnreadMessages(u)
  PROVE  Cardinality(UnreadMessages(u)') <= Cardinality(UnreadMessages(u))
BY MessagesFinite, FS_Subset

\* A step of one handler that stores no message, saves no counter and marks nothing.
LEMMA QuietChatStep ==
  ASSUME ChatInv, NEW h \in ChatHandlers, NEW t \in TaskShapes, ChatBecome(h, t),
         ~ChatAt(h, "save"), t.pc \notin {"save", "clear"},
         t.pc \in {"store", "mark"} => t.user \in Members /\ t.count = unread[t.user] /\ t.missed = 0,
         UNCHANGED <<sentBy, readBy, unread, overwritten>>, stored' \subseteq stored
  PROVE  ChatInv'
<1> USE DEF ChatInv
<1>1. /\ chatTask' \in [ChatHandlers -> TaskShapes] /\ chatTask'[h] = t
      /\ \A g \in ChatHandlers \ {h} : chatTask'[g] = chatTask[g]
  BY ChatMoves
<1>2. ChatOK'
  BY <1>1 DEF ChatOK
<1>3. CopiesOK'
  BY <1>1 DEF CopiesOK, HoldsCopy
<1>4. \A u : SentTo(u)' = SentTo(u)
  BY DEF SentTo
<1>5. BadgesOK'
  <2>1. UnreadWithinSent'
    BY <1>4 DEF BadgesOK, UnreadWithinSent
  <2>2. \A u \in Members : t.user = u /\ t.pc = "store" => Unread(t.count) <= Cardinality(SentTo(u))
    BY DEF BadgesOK, UnreadWithinSent
  <2> QED BY <1>1, <1>4, <2>1, <2>2 DEF BadgesOK, ChatAt
<1>6. \A u : Saving(u)' = Saving(u)
  BY <1>1 DEF Saving, ChatAt
<1>7. \A u : Cardinality(UnreadMessages(u)') <= Cardinality(UnreadMessages(u))
  <2>1. \A u : UnreadMessages(u)' \subseteq UnreadMessages(u)
    BY DEF UnreadMessages
  <2> QED BY <1>2, <2>1, FewerUnread
<1>8. ASSUME NEW u \in Members, NEW k \in Nat, Covers(u, k) PROVE Covers(u, k)'
  <2>1. /\ Cardinality(UnreadMessages(u)) \in Nat /\ Cardinality(UnreadMessages(u)') \in Nat
        /\ Cardinality(Saving(u)) \in Nat
    BY <1>2, MessagesFinite, MessagesFiniteNext, SavingNumber
  <2> QED BY <1>6, <1>7, <1>8, <2>1 DEF Covers
<1>9. NothingHidden'
  <2>1. ASSUME NEW u \in Members
        PROVE  IsFiniteSet(Saving(u)') /\ Covers(u, Unread(unread[u]) + overwritten[u])'
    <3>1. Unread(unread[u]) + overwritten[u] \in Nat
      BY UnreadNumber DEF ChatOK
    <3>2. Covers(u, Unread(unread[u]) + overwritten[u]) /\ IsFiniteSet(Saving(u))
      BY DEF NothingHidden
    <3> QED BY <1>6, <1>8, <3>1, <3>2 DEF Covers
  <2>2. ASSUME NEW g \in ChatHandlers \ {h}, NEW u \in Members, chatTask[g].user = u
        PROVE  /\ chatTask[g].pc \in {"store", "save"} =>
                    Covers(u, Unread(chatTask[g].count) + chatTask[g].missed + overwritten[u])'
               /\ ChatAt(g, "clear") => Covers(u, chatTask[g].missed)'
    <3>1. PICK k \in Nat, i \in Nat : /\ k = Unread(chatTask[g].count) + chatTask[g].missed + overwritten[u]
                                     /\ i = chatTask[g].missed
      <4>1. Unread(chatTask[g].count) \in Nat /\ chatTask[g].missed \in Nat /\ overwritten[u] \in Nat
        BY UnreadNumber DEF ChatOK, TaskShapes
      <4> QED BY <4>1
    <3>2. chatTask[g].pc \in {"store", "save"} => Covers(u, k)
      BY <2>2, <3>1 DEF NothingHidden
    <3>3. ChatAt(g, "clear") => Covers(u, i)
      BY <2>2, <3>1 DEF NothingHidden
    <3>4. /\ k = (Unread(chatTask[g].count) + chatTask[g].missed + overwritten[u])'
          /\ i = (chatTask[g].missed)'
      BY <1>1, <3>1
    <3> QED BY <1>8, <3>2, <3>3, <3>4 DEF Covers
  <2>3. ASSUME NEW u \in Members, t.user = u, t.pc = "store"
        PROVE  Covers(u, Unread(t.count) + t.missed + overwritten[u])'
    <3>1. Unread(t.count) + t.missed + overwritten[u] = Unread(unread[u]) + overwritten[u]
      BY <2>3, UnreadNumber DEF ChatOK
    <3> QED BY <2>1, <3>1 DEF Covers
  <2> QED BY <1>1, <2>1, <2>2, <2>3 DEF NothingHidden, ChatAt
<1> QED BY <1>2, <1>3, <1>5, <1>9

\* A counter is saved that holds at most what was sent and, with what it overwrites,
\* everything that is unread and not about to be added by another handler.
LEMMA SaveStep ==
  ASSUME ChatInv, NEW h \in ChatHandlers, NEW u \in Members, NEW c \in Nat, NEW counted \in Nat,
         NEW kept \in Nat, SaveUnread(h, u, c, counted, kept), chatTask[h].user = u,
         UNCHANGED messageVars,
         c <= Cardinality(SentTo(u)),
         Cardinality(Saving(u) \ {h}) = Cardinality(Saving(u)) - counted,
         Cardinality(UnreadMessages(u)) <= c + kept + chatTask[h].missed + Cardinality(Saving(u) \ {h}),
         c = 0 \/ kept = overwritten[u]
  PROVE  ChatInv'
<1> USE DEF ChatInv
<1>1. /\ chatTask' \in [ChatHandlers -> TaskShapes] /\ chatTask'[h] = NoChatTask
      /\ \A g \in ChatHandlers \ {h} :
           /\ chatTask'[g].pc = chatTask[g].pc /\ chatTask'[g].user = chatTask[g].user
           /\ chatTask'[g].count = chatTask[g].count
           /\ chatTask'[g].missed = chatTask[g].missed + (IF chatTask[g].user = u THEN counted ELSE 0)
      /\ unread' \in [Members -> Counts] /\ unread'[u] = c
      /\ \A v \in Members \ {u} : unread'[v] = unread[v] /\ overwritten'[v] = overwritten[v]
      /\ overwritten' \in [Members -> Nat] /\ overwritten'[u] = kept + chatTask[h].missed
  BY UnreadSaved
<1>2. sentBy' = sentBy /\ readBy' = readBy /\ stored' = stored
  BY DEF messageVars
<1>3. ChatOK'
  BY <1>1, <1>2 DEF ChatOK
<1>4. CopiesOK'
  BY <1>1, NoChatTaskShape DEF CopiesOK, HoldsCopy
<1>5. \A v : SentTo(v)' = SentTo(v) /\ UnreadMessages(v)' = UnreadMessages(v)
  BY <1>2 DEF SentTo, UnreadMessages
<1>6. BadgesOK'
  <2>1. \A v \in Members : Unread(unread'[v]) <= Cardinality(SentTo(v))
    <3>1. Unread(c) = c
      BY ChatAssumption DEF Unread
    <3> QED BY <1>1, <3>1 DEF BadgesOK, UnreadWithinSent
  <2>2. \A g \in ChatHandlers :
          /\ ChatAt(g, "store")' => g # h /\ ChatAt(g, "store")
          /\ ChatAt(g, "save")' => g # h /\ ChatAt(g, "save")
    BY <1>1, NoChatTaskShape DEF ChatAt
  <2> QED BY <1>1, <1>5, <2>1, <2>2 DEF BadgesOK, UnreadWithinSent
<1>7. /\ Saving(u)' = Saving(u) \ {h}
      /\ \A v \in Members \ {u} : Saving(v)' = Saving(v)
  BY <1>1, NoChatTaskShape DEF Saving, ChatAt
<1>8. PICK k \in Nat, i \in Nat, m \in Nat :
        k = Cardinality(UnreadMessages(u)) /\ i = Cardinality(Saving(u)) /\ m = chatTask[h].missed
  BY MessagesFinite, SavingNumber DEF ChatOK, TaskShapes
<1>9. /\ Cardinality(UnreadMessages(u)') = k /\ Cardinality(Saving(u)') = i - counted
      /\ overwritten'[u] = kept + m /\ k <= c + kept + m + (i - counted)
  BY <1>1, <1>5, <1>7, <1>8
<1>10. ASSUME NEW v \in Members
       PROVE  IsFiniteSet(Saving(v)') /\ Covers(v, Unread(unread[v]) + overwritten[v])'
  <2>1. IsFiniteSet(Saving(v)')
    BY <1>7, FS_RemoveElement DEF NothingHidden
  <2>2. CASE v = u
    <3>1. Unread(unread'[u]) = c
      BY <1>1, ChatAssumption DEF Unread
    <3>2. k <= (c + (kept + m)) + (i - counted)
      BY <1>9
    <3> QED BY <1>9, <2>1, <2>2, <3>1, <3>2 DEF Covers
  <2>3. CASE v # u
    <3>1. /\ unread'[v] = unread[v] /\ overwritten'[v] = overwritten[v] /\ Saving(v)' = Saving(v)
          /\ UnreadMessages(v)' = UnreadMessages(v)
      BY <1>1, <1>5, <1>7, <2>3
    <3> QED BY <2>1, <3>1 DEF NothingHidden, Covers
  <2> QED BY <2>2, <2>3
<1>11. ASSUME NEW g \in ChatHandlers \ {h}, NEW v \in Members, chatTask[g].user = v
       PROVE  /\ chatTask[g].pc \in {"store", "save"} =>
                   Covers(v, Unread(chatTask[g].count) + chatTask[g].missed + overwritten[v])'
              /\ ChatAt(g, "clear") => Covers(v, chatTask[g].missed)'
  <2>1. PICK a \in Nat, b \in Nat, o \in Nat :
          a = Unread(chatTask[g].count) /\ b = chatTask[g].missed /\ o = overwritten[v]
    BY UnreadNumber DEF ChatOK, TaskShapes
  <2>2. CASE v = u
    <3>1. chatTask'[g].count = chatTask[g].count /\ chatTask'[g].missed = b + counted
      BY <1>1, <1>11, <2>1, <2>2
    <3>2. chatTask[g].pc \in {"store", "save"} => k <= (a + (b + counted) + (kept + m)) + (i - counted)
      <4>1. chatTask[g].pc \in {"store", "save"} => k <= (a + b + o) + i
        BY <1>8, <1>11, <2>1, <2>2 DEF NothingHidden, Covers
      <4>2. c = 0 \/ kept = o
        BY <2>1, <2>2
      <4> QED BY <1>9, <4>1, <4>2
    <3>3. ChatAt(g, "clear") => k <= (b + counted) + (i - counted)
      <4>1. ChatAt(g, "clear") => k <= b + i
        BY <1>8, <1>11, <2>1, <2>2 DEF NothingHidden, Covers
      <4> QED BY <4>1
    <3> QED BY <1>9, <2>1, <2>2, <3>1, <3>2, <3>3 DEF Covers
  <2>3. CASE v # u
    <3>1. /\ chatTask'[g].count = chatTask[g].count /\ chatTask'[g].missed = chatTask[g].missed + 0
          /\ overwritten'[v] = overwritten[v] /\ Saving(v)' = Saving(v)
          /\ UnreadMessages(v)' = UnreadMessages(v)
      BY <1>1, <1>5, <1>7, <1>11, <2>3
    <3>2. chatTask'[g].missed = chatTask[g].missed
      BY <2>1, <3>1
    <3> QED BY <1>11, <3>1, <3>2 DEF NothingHidden, Covers
  <2> QED BY <2>2, <2>3
<1>12. \A g \in ChatHandlers : chatTask'[g].pc # "idle" =>
         g # h /\ chatTask'[g].pc = chatTask[g].pc /\ chatTask'[g].user = chatTask[g].user
  BY <1>1, NoChatTaskShape
<1>13. NothingHidden'
  BY <1>10, <1>11, <1>12 DEF NothingHidden, ChatAt
<1> QED BY <1>3, <1>4, <1>6, <1>13

\* A closed chat is opened by the job's completion or by an admin, and by no handler
\* that loaded it kept it was closed (sendMessage and markRead save only what they
\* changed).
THEOREM OnlyOpenedOnPurpose == ChatSpec => ClosedSticks
<1>1. [ChatNext]_chatVars => (isClosed /\ ~isClosed' => CompleteJob \/ SetChatClosed(FALSE))
  <2> SUFFICES ASSUME [ChatNext]_chatVars, isClosed, ~isClosed'
               PROVE  CompleteJob \/ SetChatClosed(FALSE)
    OBVIOUS
  <2>1. ASSUME NEW h \in ChatHandlers PROVE ~(StoreMessage(h) \/ SaveChat(h) \/ MarkMessages(h) \/ ClearUnread(h)
                                              \/ RewindPreview(h) \/ SavePreview(h))
    BY DEF StoreMessage, SaveChat, MarkMessages, ClearUnread, RewindPreview, SavePreview
  <2>2. ASSUME NEW h \in ChatHandlers, NEW u PROVE ~(SendMessage(h, u) \/ MarkRead(h, u) \/ DeleteMessage(h, u))
    BY DEF SendMessage, MarkRead, DeleteMessage
  <2>3. ~CancelJob /\ ~UNCHANGED chatVars
    BY DEF CancelJob, chatVars
  <2>4. CompleteJob \/ \E closed \in BOOLEAN : SetChatClosed(closed)
    BY <2>1, <2>2, <2>3 DEF ChatNext
  <2>5. ~SetChatClosed(TRUE)
    BY DEF SetChatClosed
  <2> QED BY <2>4, <2>5
<1>2. [ChatNext]_chatVars => [isClosed /\ ~isClosed' => CompleteJob \/ SetChatClosed(FALSE)]_chatVars
  BY <1>1
<1> QED BY <1>2, PTL DEF ChatSpec, ClosedSticks

LEMMA NextChat ==
  ASSUME ChatInv, [ChatNext]_chatVars
  PROVE  ChatInv'
<1> USE DEF ChatInv
<1>0. Nobody \notin Members
  BY ChatAssumption
<1>1. ASSUME NEW h \in ChatHandlers, NEW u \in Members, SendMessage(h, u) \/ MarkRead(h, u)
      PROVE  ChatInv'
  <2>1. PICK pc \in {"store", "mark"} :
          ChatBecome(h, [NoChatTask EXCEPT !.pc = pc, !.user = u, !.count = unread[u]])
    BY <1>1 DEF SendMessage, MarkRead
  <2> DEFINE t == [NoChatTask EXCEPT !.pc = pc, !.user = u, !.count = unread[u]]
  <2>2. t \in TaskShapes /\ t.pc = pc /\ t.user = u /\ t.count = unread[u] /\ t.missed = 0
    <3>1. unread[u] \in Counts
      BY DEF ChatOK
    <3>2. 0 \in Previews
      BY NoChatTaskShape DEF NoChatTask, TaskShapes
    <3> QED BY <3>1, <3>2 DEF NoChatTask, TaskShapes
  <2>3. /\ ~ChatAt(h, "save") /\ UNCHANGED <<sentBy, readBy, unread, overwritten>> /\ stored' \subseteq stored
    BY <1>1 DEF SendMessage, MarkRead, messageVars, ChatAt
  <2> HIDE DEF t
  <2>4. ChatBecome(h, t)
    BY <2>1 DEF t
  <2> QED BY <2>2, <2>3, <2>4, QuietChatStep
<1>2. ASSUME NEW h \in ChatHandlers, NEW m \in Messages, DeleteMessage(h, m)
      PROVE  ChatInv'
  <2> DEFINE t == [NoChatTask EXCEPT !.pc = "rewind", !.message = m]
  <2>2. t \in TaskShapes /\ t.pc = "rewind"
    BY DEF NoChatTask, TaskShapes, Counts, Previews
  <2>3. /\ ~ChatAt(h, "save") /\ UNCHANGED <<sentBy, readBy, unread, overwritten>> /\ stored' \subseteq stored
        /\ ChatBecome(h, t)
    BY <1>2 DEF DeleteMessage, ChatAt
  <2> HIDE DEF t
  <2> QED BY <2>2, <2>3, QuietChatStep
<1>3. ASSUME NEW h \in ChatHandlers, RewindPreview(h) \/ SavePreview(h)
      PROVE  ChatInv'
  <2> DEFINE moved == [chatTask[h] EXCEPT !.pc = "savePreview", !.message = Latest(stored)]
  <2>1. /\ ~ChatAt(h, "save") /\ UNCHANGED <<sentBy, readBy, unread, overwritten>> /\ stored' \subseteq stored
        /\ ChatBecome(h, moved) \/ ChatBecome(h, NoChatTask)
    BY <1>3 DEF RewindPreview, SavePreview, ChatAt, messageVars, ChatReturn
  <2>2. moved \in TaskShapes /\ moved.pc = "savePreview"
    <3>1. Latest(stored) \in Previews
      BY DEF Previews, ChatOK
    <3> QED BY <3>1 DEF ChatOK, TaskShapes
  <2> HIDE DEF moved
  <2>3. NoChatTask \in TaskShapes /\ NoChatTask.pc = "idle"
    BY NoChatTaskShape
  <2> QED BY <2>1, <2>2, <2>3, QuietChatStep
<1>4. ASSUME NEW h \in ChatHandlers, StoreMessage(h)
      PROVE  ChatInv'
  <2>0. PICK u : u = chatTask[h].user
    OBVIOUS
  <2>1. PICK n \in Messages, from \in Members \ {u} :
          /\ sentBy[n] = Nobody
          /\ sentBy' = [sentBy EXCEPT ![n] = from]
          /\ stored' = stored \cup {n}
          /\ readBy' = [readBy EXCEPT ![n] = {from}]
          /\ ChatBecome(h, [chatTask[h] EXCEPT !.pc = "save", !.message = n])
    BY <1>4, <2>0 DEF StoreMessage
  <2> DEFINE t == [chatTask[h] EXCEPT !.pc = "save", !.message = n]
  <2>2. /\ t \in TaskShapes /\ t.pc = "save" /\ t.user = u /\ t.count = chatTask[h].count
        /\ t.missed = chatTask[h].missed
    <3>1. n \in Previews
      BY DEF Previews
    <3> QED BY <2>0, <3>1 DEF ChatOK, TaskShapes
  <2>3. ChatAt(h, "store") /\ unread' = unread /\ overwritten' = overwritten
    BY <1>4 DEF StoreMessage
  <2> HIDE DEF t
  <2>4. /\ chatTask' \in [ChatHandlers -> TaskShapes] /\ chatTask'[h] = t
        /\ \A g \in ChatHandlers \ {h} : chatTask'[g] = chatTask[g]
    <3>1. ChatBecome(h, t)
      BY <2>1 DEF t
    <3> QED BY <2>2, <3>1, ChatMoves
  <2>5. u \in Members /\ \A v \in Members : v \in {u, from}
    <3>1. u \in Members
      BY <2>0, <2>3 DEF CopiesOK, HoldsCopy, ChatAt
    <3> QED BY <2>1, <3>1, ChatAssumption
  <2>6. ChatOK'
    BY <1>0, <2>1, <2>3, <2>4 DEF ChatOK
  <2>7. CopiesOK'
    BY <2>0, <2>2, <2>3, <2>4 DEF CopiesOK, HoldsCopy, ChatAt
  <2>8. /\ n \notin SentTo(u) /\ SentTo(u)' = SentTo(u) \cup {n}
        /\ \A v \in Members \ {u} : SentTo(v)' = SentTo(v)
    <3>1. \A m \in Messages : sentBy'[m] = IF m = n THEN from ELSE sentBy[m]
      BY <2>1 DEF ChatOK
    <3> QED BY <1>0, <2>1, <2>5, <3>1 DEF SentTo
  <2>9. Cardinality(SentTo(u)') = Cardinality(SentTo(u)) + 1
    BY <2>8, MessagesFinite, FS_AddElement
  <2>10. ASSUME NEW v \in Members PROVE Cardinality(SentTo(v)) <= Cardinality(SentTo(v)')
    <3>1. Cardinality(SentTo(v)) \in Nat /\ Cardinality(SentTo(u)) \in Nat
      BY MessagesFinite
    <3>2. CASE v = u
      <4>1. SentTo(v)' = SentTo(u)' /\ SentTo(v) = SentTo(u)
        BY <3>2
      <4> QED BY <2>9, <3>1, <4>1
    <3>3. CASE v # u
      BY <2>8, <3>1, <3>3
    <3> QED BY <3>2, <3>3
  <2>11. BadgesOK'
    <3>1. UnreadWithinSent'
      <4>1. ASSUME NEW v \in Members PROVE Unread(unread[v]) <= Cardinality(SentTo(v)')
        <5>1. Unread(unread[v]) \in Nat /\ Cardinality(SentTo(v)) \in Nat /\ Cardinality(SentTo(v)') \in Nat
          <6>1. unread[v] \in Counts
            BY DEF ChatOK
          <6> QED BY <2>6, <6>1, MessagesFinite, MessagesFiniteNext, UnreadNumber
        <5>2. Unread(unread[v]) <= Cardinality(SentTo(v))
          BY DEF BadgesOK, UnreadWithinSent
        <5> QED BY <2>10, <5>1, <5>2
      <4> QED BY <2>3, <4>1 DEF UnreadWithinSent
    <3>2. ASSUME NEW g \in ChatHandlers, NEW v \in Members, chatTask'[g].user = v
          PROVE  /\ chatTask'[g].pc = "store" => Unread(chatTask'[g].count) <= Cardinality(SentTo(v)')
                 /\ chatTask'[g].pc = "save" => Unread(chatTask'[g].count) + 1 <= Cardinality(SentTo(v)')
      <4>1. CASE g = h
        <5>1. Unread(chatTask[h].count) \in Nat /\ Cardinality(SentTo(u)) \in Nat
          BY MessagesFinite, UnreadNumber DEF ChatOK, TaskShapes
        <5>2. Unread(chatTask[h].count) <= Cardinality(SentTo(u))
          BY <2>0, <2>3, <2>5 DEF BadgesOK
        <5>3. Unread(chatTask[h].count) + 1 <= Cardinality(SentTo(u)')
          BY <2>9, <5>1, <5>2
        <5>4. v = u
          BY <2>2, <2>4, <3>2, <4>1
        <5> QED BY <2>2, <2>4, <4>1, <5>3, <5>4
      <4>2. CASE g # h
        <5>1. chatTask'[g] = chatTask[g] /\ chatTask[g].user = v
          BY <2>4, <3>2, <4>2
        <5>2. /\ Unread(chatTask[g].count) \in Nat /\ Cardinality(SentTo(v)) \in Nat
              /\ Cardinality(SentTo(v)') \in Nat
          <6>1. chatTask[g].count \in Counts
            BY DEF ChatOK, TaskShapes
          <6> QED BY <2>6, <6>1, MessagesFinite, MessagesFiniteNext, UnreadNumber
        <5>3. Cardinality(SentTo(v)) <= Cardinality(SentTo(v)')
          BY <2>10
        <5>4. /\ chatTask[g].pc = "store" => Unread(chatTask[g].count) <= Cardinality(SentTo(v))
              /\ chatTask[g].pc = "save" => Unread(chatTask[g].count) + 1 <= Cardinality(SentTo(v))
          BY <5>1 DEF BadgesOK, ChatAt
        <5>5. /\ chatTask[g].pc = "store" => Unread(chatTask[g].count) <= Cardinality(SentTo(v)')
              /\ chatTask[g].pc = "save" => Unread(chatTask[g].count) + 1 <= Cardinality(SentTo(v)')
          BY <5>2, <5>3, <5>4
        <5> QED BY <5>1, <5>5
      <4> QED BY <4>1, <4>2
    <3> QED BY <3>1, <3>2 DEF BadgesOK, ChatAt
  <2>12. /\ h \notin Saving(u) /\ Saving(u)' = Saving(u) \cup {h}
         /\ \A v \in Members \ {u} : Saving(v)' = Saving(v)
    BY <2>0, <2>2, <2>3, <2>4 DEF Saving, ChatAt
  <2>14. UnreadMessages(u)' \subseteq UnreadMessages(u) \cup {n}
         /\ UnreadMessages(from)' \subseteq UnreadMessages(from)
    <3>1. \A m \in Messages : readBy'[m] = IF m = n THEN {from} ELSE readBy[m]
      BY <2>1 DEF ChatOK
    <3> QED BY <2>1, <3>1 DEF UnreadMessages, ChatOK
  <2>15. NothingHidden'
    <3>1. IsFiniteSet(Saving(u)') /\ Cardinality(Saving(u)') = Cardinality(Saving(u)) + 1
      BY <2>5, <2>12, FS_AddElement DEF NothingHidden
    <3>2. Cardinality(UnreadMessages(u)') <= Cardinality(UnreadMessages(u)) + 1
      <4>1. IsFiniteSet(UnreadMessages(u) \cup {n})
            /\ Cardinality(UnreadMessages(u) \cup {n}) <= Cardinality(UnreadMessages(u)) + 1
        <5>1. IsFiniteSet(UnreadMessages(u)) /\ Cardinality(UnreadMessages(u)) \in Nat
          BY MessagesFinite
        <5>2. /\ IsFiniteSet(UnreadMessages(u) \cup {n})
              /\ Cardinality(UnreadMessages(u) \cup {n})
                   \in {Cardinality(UnreadMessages(u)), Cardinality(UnreadMessages(u)) + 1}
          BY <5>1, FS_AddElement
        <5> QED BY <5>1, <5>2
      <4>2. Cardinality(UnreadMessages(u)') <= Cardinality(UnreadMessages(u) \cup {n})
        BY <2>14, <4>1, FS_Subset
      <4>3. /\ Cardinality(UnreadMessages(u)') \in Nat /\ Cardinality(UnreadMessages(u)) \in Nat
            /\ Cardinality(UnreadMessages(u) \cup {n}) \in Nat
        BY <2>6, <4>1, MessagesFinite, MessagesFiniteNext, FS_CardinalityType
      <4> QED BY <4>1, <4>2, <4>3
    <3>3. Cardinality(UnreadMessages(from)') <= Cardinality(UnreadMessages(from))
      BY <2>6, <2>14, FewerUnread
    <3>4. ASSUME NEW v \in Members, NEW k \in Nat, Covers(v, k) PROVE Covers(v, k)'
      <4>1. /\ Cardinality(UnreadMessages(v)) \in Nat /\ Cardinality(UnreadMessages(v)') \in Nat
            /\ Cardinality(Saving(v)) \in Nat
        BY <2>6, MessagesFinite, MessagesFiniteNext, SavingNumber
      <4>2. Cardinality(UnreadMessages(v)) <= k + Cardinality(Saving(v))
        BY <3>4 DEF Covers
      <4>3. CASE v = u
        <5>1. /\ Cardinality(UnreadMessages(v)') <= Cardinality(UnreadMessages(v)) + 1
              /\ Cardinality(Saving(v)') = Cardinality(Saving(v)) + 1
          BY <3>1, <3>2, <4>3
        <5> QED BY <4>1, <4>2, <5>1 DEF Covers
      <4>4. CASE v # u
        <5>1. /\ Cardinality(UnreadMessages(v)') <= Cardinality(UnreadMessages(v))
              /\ Cardinality(Saving(v)') = Cardinality(Saving(v))
          BY <2>5, <2>12, <3>3, <4>4
        <5> QED BY <4>1, <4>2, <5>1 DEF Covers
      <4> QED BY <4>3, <4>4
    <3>5. \A v \in Members : IsFiniteSet(Saving(v)')
      BY <2>12, <3>1 DEF NothingHidden
    <3>6. \A v \in Members : Covers(v, Unread(unread[v]) + overwritten[v])'
      <4>1. \A v \in Members : Unread(unread[v]) + overwritten[v] \in Nat
        BY UnreadNumber DEF ChatOK
      <4> QED BY <2>3, <3>4, <4>1 DEF NothingHidden, Covers
    <3>7. ASSUME NEW g \in ChatHandlers, NEW v \in Members, chatTask[g].user = v
          PROVE  /\ chatTask[g].pc \in {"store", "save"} =>
                      Covers(v, Unread(chatTask[g].count) + chatTask[g].missed + overwritten[v])'
                 /\ ChatAt(g, "clear") => Covers(v, chatTask[g].missed)'
      <4>1. PICK k \in Nat, i \in Nat : /\ k = Unread(chatTask[g].count) + chatTask[g].missed + overwritten[v]
                                       /\ i = chatTask[g].missed
        <5>1. Unread(chatTask[g].count) \in Nat /\ chatTask[g].missed \in Nat /\ overwritten[v] \in Nat
          BY UnreadNumber DEF ChatOK, TaskShapes
        <5> QED BY <5>1
      <4>2. chatTask[g].pc \in {"store", "save"} => Covers(v, k)
        BY <3>7, <4>1 DEF NothingHidden
      <4>3. ChatAt(g, "clear") => Covers(v, i)
        BY <3>7, <4>1 DEF NothingHidden
      <4>4. chatTask'[g].count = chatTask[g].count /\ chatTask'[g].missed = chatTask[g].missed
        BY <2>2, <2>4
      <4>5. /\ k = (Unread(chatTask[g].count) + chatTask[g].missed + overwritten[v])'
            /\ i = (chatTask[g].missed)'
        BY <2>3, <4>1, <4>4
      <4> QED BY <3>4, <4>2, <4>3, <4>5 DEF Covers
    <3>8. \A g \in ChatHandlers : /\ chatTask'[g].user = chatTask[g].user
                                  /\ chatTask'[g].pc \in {"store", "save"} => chatTask[g].pc \in {"store", "save"}
                                  /\ ChatAt(g, "clear")' => ChatAt(g, "clear")
      BY <2>0, <2>2, <2>3, <2>4 DEF ChatAt
    <3> QED BY <3>5, <3>6, <3>7, <3>8 DEF NothingHidden
  <2> QED BY <2>6, <2>7, <2>11, <2>15
<1>5. ASSUME NEW h \in ChatHandlers, SaveChat(h)
      PROVE  ChatInv'
  <2> DEFINE u == chatTask[h].user
             c == Unread(chatTask[h].count) + 1
  <2>1. ChatAt(h, "save") /\ SaveUnread(h, u, c, 1, overwritten[u]) /\ UNCHANGED messageVars
    BY <1>5 DEF SaveChat, CountMessage
  <2>2. u \in Members /\ h \in Saving(u)
    BY <2>1 DEF CopiesOK, HoldsCopy, ChatAt, Saving
  <2>3. /\ Unread(chatTask[h].count) \in Nat /\ chatTask[h].missed \in Nat /\ overwritten[u] \in Nat
        /\ Cardinality(Saving(u)) \in Nat
    BY <2>2, SavingNumber, UnreadNumber DEF ChatOK, TaskShapes
  <2>4. c <= Cardinality(SentTo(u))
    BY <2>1, <2>2 DEF BadgesOK
  <2>5. Cardinality(Saving(u) \ {h}) = Cardinality(Saving(u)) - 1
    BY <2>2, FS_RemoveElement DEF NothingHidden
  <2>6. Cardinality(UnreadMessages(u)) <= c + overwritten[u] + chatTask[h].missed + Cardinality(Saving(u) \ {h})
    <3>1. Cardinality(UnreadMessages(u))
            <= (Unread(chatTask[h].count) + chatTask[h].missed + overwritten[u]) + Cardinality(Saving(u))
      BY <2>1, <2>2 DEF NothingHidden, Covers, ChatAt
    <3>2. Cardinality(UnreadMessages(u)) \in Nat
      BY MessagesFinite
    <3> QED BY <2>3, <2>5, <3>1, <3>2
  <2>7. c \in Nat
    BY <2>3
  <2> HIDE DEF c
  <2> QED BY <2>1, <2>2, <2>3, <2>4, <2>5, <2>6, <2>7, SaveStep
<1>6. ASSUME NEW h \in ChatHandlers, MarkMessages(h)
      PROVE  ChatInv'
  <2>0. PICK u : u = chatTask[h].user
    OBVIOUS
  <2> DEFINE t == [chatTask[h] EXCEPT !.pc = "clear", !.missed = 0]
  <2>1. /\ ChatAt(h, "mark") /\ ChatBecome(h, t)
        /\ readBy' = [m \in Messages |-> IF m \in stored THEN readBy[m] \cup {u} ELSE readBy[m]]
        /\ unread' = unread /\ overwritten' = overwritten /\ sentBy' = sentBy /\ stored' = stored
    BY <1>6, <2>0 DEF MarkMessages
  <2>2. u \in Members
    BY <2>0, <2>1 DEF CopiesOK, HoldsCopy, ChatAt
  <2>3. /\ t \in TaskShapes /\ t.pc = "clear" /\ t.user = u /\ t.count = chatTask[h].count
        /\ t.missed = 0
    BY <2>0 DEF ChatOK, TaskShapes
  <2> HIDE DEF t
  <2>4. /\ chatTask' \in [ChatHandlers -> TaskShapes] /\ chatTask'[h] = t
        /\ \A g \in ChatHandlers \ {h} : chatTask'[g] = chatTask[g]
    BY <2>1, <2>3, ChatMoves
  <2>5. ChatOK'
    <3>1. readBy' \in [Messages -> SUBSET Members]
      BY <2>1, <2>2 DEF ChatOK
    <3> QED BY <2>1, <2>4, <3>1 DEF ChatOK
  <2>6. CopiesOK'
    BY <2>0, <2>1, <2>3, <2>4 DEF CopiesOK, HoldsCopy, ChatAt
  <2>7. BadgesOK'
    <3>1. \A v : SentTo(v)' = SentTo(v)
      BY <2>1 DEF SentTo
    <3> QED BY <2>0, <2>1, <2>3, <2>4, <3>1 DEF BadgesOK, UnreadWithinSent, ChatAt
  <2>8. \A v : Saving(v)' = Saving(v)
    BY <2>0, <2>1, <2>3, <2>4 DEF Saving, ChatAt
  <2>10. /\ UnreadMessages(u)' = {}
         /\ \A v \in Members : UnreadMessages(v)' \subseteq UnreadMessages(v)
    <3>1. \A m \in stored : readBy'[m] = readBy[m] \cup {u}
      BY <2>1 DEF ChatOK
    <3> QED BY <2>1, <3>1 DEF UnreadMessages
  <2>11. Cardinality(UnreadMessages(u)') = 0
    BY <2>10, FS_EmptySet
  <2>12. NothingHidden'
    <3>1. ASSUME NEW v \in Members, NEW k \in Nat, Covers(v, k) \/ v = u PROVE Covers(v, k)'
      <4>1. /\ Cardinality(UnreadMessages(v)) \in Nat /\ Cardinality(UnreadMessages(v)') \in Nat
            /\ Cardinality(Saving(v)) \in Nat
        BY <2>5, MessagesFinite, MessagesFiniteNext, SavingNumber
      <4>2. Cardinality(UnreadMessages(v)') <= Cardinality(UnreadMessages(v))
        BY <2>5, <2>10, FewerUnread
      <4>3. CASE v = u
        BY <2>8, <2>11, <4>1, <4>3 DEF Covers
      <4>4. CASE Covers(v, k)
        BY <2>8, <4>1, <4>2, <4>4 DEF Covers
      <4> QED BY <3>1, <4>3, <4>4
    <3>2. \A v \in Members : IsFiniteSet(Saving(v)') /\ Covers(v, Unread(unread[v]) + overwritten[v])'
      <4>1. \A v \in Members : Unread(unread[v]) + overwritten[v] \in Nat
        BY UnreadNumber DEF ChatOK
      <4> QED BY <2>1, <2>8, <3>1, <4>1 DEF NothingHidden, Covers
    <3>3. ASSUME NEW g \in ChatHandlers \ {h}, NEW v \in Members, chatTask[g].user = v
          PROVE  /\ chatTask[g].pc \in {"store", "save"} =>
                      Covers(v, Unread(chatTask[g].count) + chatTask[g].missed + overwritten[v])'
                 /\ ChatAt(g, "clear") => Covers(v, chatTask[g].missed)'
      <4>1. PICK k \in Nat, i \in Nat : /\ k = Unread(chatTask[g].count) + chatTask[g].missed + overwritten[v]
                                       /\ i = chatTask[g].missed
        <5>1. Unread(chatTask[g].count) \in Nat /\ chatTask[g].missed \in Nat /\ overwritten[v] \in Nat
          BY UnreadNumber DEF ChatOK, TaskShapes
        <5> QED BY <5>1
      <4>2. chatTask[g].pc \in {"store", "save"} => Covers(v, k)
        BY <3>3, <4>1 DEF NothingHidden
      <4>3. ChatAt(g, "clear") => Covers(v, i)
        BY <3>3, <4>1 DEF NothingHidden
      <4>4. chatTask'[g] = chatTask[g]
        BY <2>4
      <4>5. /\ k = (Unread(chatTask[g].count) + chatTask[g].missed + overwritten[v])'
            /\ i = (chatTask[g].missed)'
        BY <2>1, <4>1, <4>4
      <4> QED BY <3>1, <4>2, <4>3, <4>5 DEF Covers
    <3>4. Covers(u, 0)'
      BY <2>2, <3>1
    <3>5. Covers(u, chatTask[h].missed)'
      BY <2>3, <2>4, <3>4 DEF Covers
    <3> QED BY <2>3, <2>4, <3>2, <3>3, <3>5 DEF NothingHidden, ChatAt
  <2> QED BY <2>5, <2>6, <2>7, <2>12
<1>7. ASSUME NEW h \in ChatHandlers, ClearUnread(h)
      PROVE  ChatInv'
  <2> DEFINE u == chatTask[h].user
  <2>1. ChatAt(h, "clear") /\ UNCHANGED messageVars
    BY <1>7 DEF ClearUnread
  <2>2. u \in Members /\ h \notin Saving(u)
    BY <2>1 DEF CopiesOK, HoldsCopy, ChatAt, Saving
  <2>3. CASE ChatReturn(h) /\ UNCHANGED <<unread, overwritten>>
    <3>1. ChatBecome(h, NoChatTask) /\ ~ChatAt(h, "save")
          /\ UNCHANGED <<sentBy, readBy, unread, overwritten>> /\ stored' \subseteq stored
      BY <2>1, <2>3 DEF ChatReturn, ChatAt, messageVars
    <3> QED BY <3>1, NoChatTaskShape, QuietChatStep
  <2>4. CASE SaveUnread(h, u, 0, 0, 0)
    <3>1. 0 <= Cardinality(SentTo(u))
      BY MessagesFinite
    <3>2. PICK k \in Nat, i \in Nat, m \in Nat :
            k = Cardinality(UnreadMessages(u)) /\ i = Cardinality(Saving(u)) /\ m = chatTask[h].missed
      BY <2>2, MessagesFinite, SavingNumber DEF ChatOK, TaskShapes
    <3>3. Saving(u) \ {h} = Saving(u)
      BY <2>2
    <3>4. k <= m + i
      BY <2>1, <2>2, <3>2 DEF NothingHidden, Covers
    <3>5. k <= 0 + 0 + m + i /\ i = i - 0
      BY <3>4
    <3>6. Cardinality(UnreadMessages(u)) <= 0 + 0 + chatTask[h].missed + Cardinality(Saving(u) \ {h})
      BY <3>2, <3>3, <3>5
    <3>7. Cardinality(Saving(u) \ {h}) = Cardinality(Saving(u)) - 0
      BY <3>2, <3>3, <3>5
    <3> QED BY <2>1, <2>2, <2>4, <3>1, <3>6, <3>7, SaveStep
  <2> QED BY <1>7, <2>3, <2>4 DEF ClearUnread, ClearCount
<1>8. CASE CancelJob \/ CompleteJob \/ (\E closed \in BOOLEAN : SetChatClosed(closed)) \/ UNCHANGED chatVars
  <2>1. UNCHANGED <<sentBy, stored, readBy, unread, overwritten, chatTask>>
    BY <1>8 DEF CancelJob, CompleteJob, SetChatClosed, chatVars, messageVars
  <2>2. ChatOK' /\ CopiesOK'
    BY <2>1 DEF ChatOK, CopiesOK, HoldsCopy
  <2>3. BadgesOK'
    BY <2>1 DEF BadgesOK, UnreadWithinSent, SentTo, ChatAt
  <2>4. NothingHidden'
    BY <2>1 DEF NothingHidden, Covers, UnreadMessages, Saving, ChatAt
  <2> QED BY <2>2, <2>3, <2>4
<1> QED BY <1>1, <1>2, <1>3, <1>4, <1>5, <1>6, <1>7, <1>8 DEF ChatNext

LEMMA InitChat == ChatInit => ChatInv
<1> SUFFICES ASSUME ChatInit PROVE ChatInv
  OBVIOUS
<1>1. ChatOK /\ CopiesOK
  BY NoChatTaskShape DEF ChatInit, ChatOK, CopiesOK, HoldsCopy, Counts
<1>2. /\ \A h \in ChatHandlers : chatTask[h].pc = "idle"
      /\ \A u \in Members : overwritten[u] = 0
      /\ \A u \in Members : unread[u] = NoCount
      /\ stored = {}
  BY NoChatTaskShape DEF ChatInit
<1>3. BadgesOK
  <2>1. \A u \in Members : Unread(unread[u]) = 0 /\ Cardinality(SentTo(u)) \in Nat
    BY <1>1, <1>2, MessagesFinite DEF Unread
  <2> QED BY <1>2, <2>1 DEF BadgesOK, UnreadWithinSent, ChatAt
<1>4. NothingHidden
  <2>1. \A u \in Members : Saving(u) = {} /\ UnreadMessages(u) = {} /\ Unread(unread[u]) = 0
    BY <1>2 DEF Saving, ChatAt, UnreadMessages, Unread
  <2>2. IsFiniteSet({}) /\ Cardinality({}) = 0
    BY FS_EmptySet
  <2>3. \A u \in Members : /\ IsFiniteSet(Saving(u)) /\ Cardinality(Saving(u)) = 0
                           /\ Cardinality(UnreadMessages(u)) = 0
    BY <2>1, <2>2
  <2> QED BY <1>2, <2>1, <2>3 DEF NothingHidden, Covers, ChatAt
<1> QED BY <1>1, <1>3, <1>4 DEF ChatInv

\* At rest the badge counts every message its reader has not read, but for those that a
\* save of another copy overwrote since the reader's last markRead, and never more than
\* were sent to its reader: whatever sends, reads and removals of messages overlap
\* (sendMessage, markRead, deleteMessage).
THEOREM BadgeAccounts == ChatSpec => []UnreadIsAccounted
<1>1. ChatInit => ChatInv
  BY InitChat
<1>2. ChatInv /\ [ChatNext]_chatVars => ChatInv'
  BY NextChat
<1>3. ChatInv => UnreadIsAccounted
  <2> SUFFICES ASSUME ChatInv PROVE UnreadIsAccounted
    OBVIOUS
  <2>1. ASSUME ChatAtRest, NEW u \in Members
        PROVE  Cardinality(UnreadMessages(u)) <= Unread(unread[u]) + overwritten[u]
    <3>1. Saving(u) = {}
      BY <2>1 DEF ChatAtRest, ChatAt, Saving
    <3>2. Cardinality(Saving(u)) = 0
      BY <3>1, FS_EmptySet
    <3>3. Cardinality(UnreadMessages(u)) <= (Unread(unread[u]) + overwritten[u]) + Cardinality(Saving(u))
      BY DEF ChatInv, NothingHidden, Covers
    <3>4. Unread(unread[u]) \in Nat /\ overwritten[u] \in Nat /\ Cardinality(UnreadMessages(u)) \in Nat
      BY MessagesFinite, UnreadNumber DEF ChatInv, ChatOK
    <3> QED BY <3>2, <3>3, <3>4
  <2> QED BY <2>1 DEF ChatInv, BadgesOK, UnreadIsAccounted, NoHiddenMessage
<1> QED BY <1>1, <1>2, <1>3, PTL DEF ChatSpec

\* A set of numbers that is finite has its greatest.
LEMMA AMaximum ==
  ASSUME NEW S, IsFiniteSet(S), S \subseteq Int, S # {}
  PROVE  Max(S) \in S
<1> DEFINE Good == {s \in SUBSET S : s # {} => \E m \in s : \A k \in s : m >= k}
<1>1. ASSUME NEW s \in SUBSET S, \A t \in SUBSET s : t # s => t \in Good
      PROVE  s \in Good
  <2>1. CASE s = {}
    BY <2>1
  <2>2. CASE s # {}
    <3>1. PICK m \in s : TRUE
      BY <2>2
    <3>2. PICK t \in SUBSET s : t = s \ {m} /\ t # s
      <4>1. s \ {m} \in SUBSET s /\ s \ {m} # s
        OBVIOUS
      <4> QED BY <4>1
    <3>3. CASE t = {}
      BY <3>2, <3>3
    <3>4. CASE t # {}
      <4>1. PICK n \in t : \A k \in t : n >= k
        BY <1>1, <3>2, <3>4
      <4>2. CASE n >= m
        BY <3>2, <4>1, <4>2
      <4>3. CASE m >= n
        <5>1. \A k \in s : k \in Int /\ m >= k
          BY <3>1, <3>2, <4>1, <4>3
        <5> QED BY <3>1, <5>1
      <4> QED BY <3>1, <3>2, <4>1, <4>2, <4>3
    <3> QED BY <3>3, <3>4
  <2> QED BY <2>1, <2>2
<1> HIDE DEF Good
<1>2. S \in Good
  BY <1>1, SubsetInduction
<1>3. \E m \in S : \A k \in S : m >= k
  BY <1>2 DEF Good
<1> QED BY <1>3 DEF Max

\* The preview shows a message of the chat, or none.
LEMMA LatestIn == ASSUME NEW S \in SUBSET Messages PROVE Latest(S) \in 0..MaxMessages
<1>1. CASE S = {}
  BY <1>1, ChatAssumption DEF Latest
<1>2. CASE S # {}
  <2>1. IsFiniteSet(Messages) /\ Messages \subseteq Int /\ Messages \subseteq 0..MaxMessages
    BY ChatAssumption, CountTo DEF Messages
  <2>2. IsFiniteSet(S) /\ S \subseteq Int
    BY <2>1, FS_Subset
  <2>3. Max(S) \in S
    BY <1>2, <2>2, AMaximum
  <2> QED BY <1>2, <2>1, <2>3 DEF Latest
<1> QED BY <1>1, <1>2

LEMMA TaskShapesAre == TaskShapes = ChatTasks
<1>1. 0 \in 0..MaxMessages /\ \A m \in Messages : m \in 0..MaxMessages
  BY ChatAssumption DEF Messages
<1>2. 0 \in Previews
  BY NoChatTaskShape DEF NoChatTask, TaskShapes
<1>3. \A m \in 0..MaxMessages : m = 0 \/ m \in Messages
  BY ChatAssumption DEF Messages
<1>4. Previews = 0..MaxMessages
  BY <1>1, <1>2, <1>3, LatestIn DEF Previews
<1> QED BY <1>4 DEF TaskShapes, ChatTasks

ChatRest ==
  isClosed \in BOOLEAN /\ job \in {"live", "ended"} /\ lastMessage \in 0..MaxMessages

\* A chat, its messages and its counters keep the shape of the schema, and whoever
\* handles a request holds a copy of that shape (Chat, Message, sendMessage, markRead,
\* deleteMessage).
THEOREM ChatTypes == ChatSpec => []ChatTypeOK
<1>1. ChatInit => ChatRest
  <2>1. 0 \in 0..MaxMessages
    BY ChatAssumption
  <2> QED BY <2>1 DEF ChatInit, ChatRest
<1>2. ASSUME ChatOK, ChatRest, [ChatNext]_chatVars PROVE ChatRest'
  <2>1. \A h \in ChatHandlers : chatTask[h].message \in 0..MaxMessages
    BY <1>2, TaskShapesAre DEF ChatOK, ChatTasks
  <2> USE <1>2 DEF ChatRest
  <2>2. ASSUME NEW h \in ChatHandlers, NEW u, SendMessage(h, u) \/ MarkRead(h, u) \/ DeleteMessage(h, u)
        PROVE  ChatRest'
    BY <2>2 DEF SendMessage, MarkRead, DeleteMessage, messageVars
  <2>3. ASSUME NEW h \in ChatHandlers, StoreMessage(h) \/ MarkMessages(h) \/ RewindPreview(h) PROVE ChatRest'
    BY <2>3 DEF StoreMessage, MarkMessages, RewindPreview, messageVars
  <2>4. ASSUME NEW h \in ChatHandlers, SaveChat(h) \/ ClearUnread(h) \/ SavePreview(h) PROVE ChatRest'
    BY <2>1, <2>4 DEF SaveChat, ClearUnread, SavePreview, messageVars, SaveUnread, CountMessage, ClearCount
  <2>5. CASE CancelJob \/ CompleteJob \/ \E closed \in BOOLEAN : SetChatClosed(closed)
    BY <2>5 DEF CancelJob, CompleteJob, SetChatClosed, messageVars
  <2>6. CASE UNCHANGED chatVars
    BY <2>6 DEF chatVars, messageVars
  <2> QED BY <2>2, <2>3, <2>4, <2>5, <2>6 DEF ChatNext
<1>3. ChatOK /\ ChatRest => ChatTypeOK
  BY TaskShapesAre DEF ChatOK, ChatRest, ChatTypeOK
<1>4. ChatInv => ChatOK
  BY DEF ChatInv
<1> QED BY <1>1, <1>2, <1>3, <1>4, InitChat, NextChat, PTL DEF ChatSpec

-----------------------------------------------------------------------------
(* Notifications and their pushes. *)
\* What the types do not say: a push belongs to a notification that is stored, so that
\* its devices stay what they were; attempts are counted from the start of one to its
\* end; what the present attempt has done is done; and what is marked as sent is over.
Addressed == \A n \in Notes : ~PushIs(n, "none") => note[n].stored
AttemptsCounted == \A n \in Notes :
             /\ PushIs(n, "posting") => push[n].attempts = 0
             /\ PushIs(n, "queued") => push[n].attempts < MaxPushAttempts
             /\ PushIs(n, "active") /\ ~push[n].inline => push[n].attempts > 0
Asked(n) == handed[n] \cup missed[n]
PhonesReached == \A n \in Notes :
                   push[n].phones = "ok" => push[n].tokens \cap Phones \subseteq Asked(n)
BrowsersReached == \A n \in Notes :
                     push[n].browsers # "todo" /\ browserPush
                       => push[n].tokens \cap Browsers \subseteq Asked(n)
SentIsOver == \A n \in Notes : note[n].sentAt => PushIs(n, "done")

PushIInv == /\ PushTypeOK /\ Addressed /\ AttemptsCounted
            /\ PhonesReached /\ BrowsersReached /\ SentIsOver /\ SentReachedAll

-----------------------------------------------------------------------------
LEMMA PushIInvInit == PushInit => PushIInv
BY PushAssumption
DEF PushInit, PushIInv, PushTypeOK, Addressed, AttemptsCounted, Asked, PhonesReached, BrowsersReached, SentIsOver,
    SentReachedAll, PushIs, Pushes, NoPush

\* Only one notification's push changes, and its devices do not.
LEMMA PushOne ==
  ASSUME PushIInv, NEW n \in Notes, NEW p \in Pushes, PushBecome(n, p),
         p.tokens = push[n].tokens, ~PushIs(n, "none"), ~PushIs(n, "done"),
         p.state = "posting" => p.attempts = 0,
         p.state = "queued" => p.attempts < MaxPushAttempts,
         p.state = "active" /\ ~p.inline => p.attempts > 0,
         p.state # "none",
         p.phones \in {push[n].phones, "todo", "failed"},
         p.browsers = "todo" \/ p.browsers = push[n].browsers
           \/ (p.browsers = "ok" /\ push[n].browsers = "stale") \/ ~browserPush,
         UNCHANGED <<queueCapable, browserPush, gone, note, handed, missed>>, pushTokens' \subseteq Tokens
  PROVE PushIInv'
<1> USE DEF PushIInv, PushBecome, PushIs
<1>1. push' = [push EXCEPT ![n] = p] /\ push \in [Notes -> Pushes]
  BY DEF PushTypeOK
<1>2. PushTypeOK'
  BY <1>1 DEF PushTypeOK
<1>3. \A m \in Notes : push'[m] = IF m = n THEN p ELSE push[m]
  BY <1>1
<1>4. Addressed'
  BY <1>3 DEF Addressed
<1>5. AttemptsCounted'
  BY <1>3 DEF AttemptsCounted
<1>6. PhonesReached'
  BY <1>3 DEF PhonesReached, Asked
<1>7. BrowsersReached'
  BY <1>3 DEF BrowsersReached, Asked
<1>8. SentIsOver' /\ SentReachedAll'
  <2>1. ~note[n].sentAt
    BY DEF SentIsOver
  <2> QED BY <1>3, <2>1 DEF SentIsOver, SentReachedAll
<1> QED BY <1>2, <1>4, <1>5, <1>6, <1>7, <1>8

\* The services of some devices of one push are asked to reach them.
LEMMA AnswersAdd ==
  ASSUME PushTypeOK, NEW n \in Notes, NEW asked \in SUBSET Tokens, NEW S \in SUBSET asked,
         HandOver(n, asked, S)
  PROVE  /\ handed' \in [Notes -> SUBSET Tokens] /\ missed' \in [Notes -> SUBSET Tokens]
         /\ \A m \in Notes : Asked(m)' = IF m = n THEN Asked(n) \cup asked ELSE Asked(m)
<1>1. handed \in [Notes -> SUBSET Tokens] /\ missed \in [Notes -> SUBSET Tokens]
  BY DEF PushTypeOK
<1>2. /\ handed' = [handed EXCEPT ![n] = @ \cup S]
      /\ missed' = [missed EXCEPT ![n] = @ \cup (asked \ S)]
  BY DEF HandOver
<1>3. \A m \in Notes : /\ handed'[m] = IF m = n THEN handed[m] \cup S ELSE handed[m]
                       /\ missed'[m] = IF m = n THEN missed[m] \cup (asked \ S) ELSE missed[m]
  BY <1>1, <1>2
<1> QED BY <1>1, <1>2, <1>3 DEF Asked

LEMMA PushHanded ==
  ASSUME PushIInv, NEW n \in Notes, NEW p \in Pushes, NEW asked \in SUBSET Tokens, NEW S \in SUBSET asked,
         PushBecome(n, p), HandOver(n, asked, S), PushIs(n, "active"),
         p.state = "active", p.tokens = push[n].tokens,
         p.attempts = push[n].attempts, p.inline = push[n].inline,
         p.phones \in {push[n].phones, "failed"} \/ p.tokens \cap Phones \subseteq asked,
         p.browsers = push[n].browsers \/ p.tokens \cap Browsers \subseteq asked,
         UNCHANGED <<queueCapable, browserPush, pushTokens, gone, note>>
  PROVE PushIInv'
<1> USE DEF PushIInv, PushBecome, PushIs
<1>1. push' = [push EXCEPT ![n] = p] /\ push \in [Notes -> Pushes]
  BY DEF PushTypeOK
<1>2. /\ handed' \in [Notes -> SUBSET Tokens] /\ missed' \in [Notes -> SUBSET Tokens]
      /\ \A m \in Notes : Asked(m)' = IF m = n THEN Asked(n) \cup asked ELSE Asked(m)
  BY AnswersAdd
<1>3. PushTypeOK'
  BY <1>1, <1>2 DEF PushTypeOK
<1>4. \A m \in Notes : push'[m] = IF m = n THEN p ELSE push[m]
  BY <1>1
<1>5. Addressed' /\ AttemptsCounted'
  BY <1>4 DEF Addressed, AttemptsCounted
<1>6. PhonesReached'
  <2>1. \A m \in Notes \ {n} : push'[m].phones = "ok" => push'[m].tokens \cap Phones \subseteq Asked(m)'
    BY <1>2, <1>4 DEF PhonesReached
  <2>2. p.phones = "ok" => p.tokens \cap Phones \subseteq Asked(n) \cup asked
    BY DEF PhonesReached
  <2> QED BY ZenonT(30), <1>2, <1>4, <2>1, <2>2 DEF PhonesReached
<1>7. BrowsersReached'
  <2>1. \A m \in Notes \ {n} :
          push'[m].browsers # "todo" /\ browserPush => push'[m].tokens \cap Browsers \subseteq Asked(m)'
    BY <1>2, <1>4 DEF BrowsersReached
  <2>2. p.browsers # "todo" /\ browserPush => p.tokens \cap Browsers \subseteq Asked(n) \cup asked
    BY DEF BrowsersReached
  <2> QED BY <1>2, <1>4, <2>1, <2>2 DEF BrowsersReached
<1>8. SentIsOver'
  BY <1>4 DEF SentIsOver
<1>9. SentReachedAll'
  <2> SUFFICES ASSUME NEW m \in Notes, note[m].sentAt, NEW d \in push'[m].tokens
               PROVE  d \in Asked(m)' \/ (d \in Browsers /\ ~browserPush')
    BY DEF SentReachedAll, Asked
  <2>1. m # n
    BY DEF SentIsOver
  <2>2. d \in Asked(m) \/ (d \in Browsers /\ ~browserPush)
    BY <1>4, <2>1 DEF SentReachedAll, Asked
  <2> QED BY <1>2, <2>1, <2>2
<1> QED BY <1>3, <1>5, <1>6, <1>7, <1>8, <1>9

-----------------------------------------------------------------------------
LEMMA NotifyKeeps == ASSUME PushIInv, NEW n \in Notes, Notify(n) PROVE PushIInv'
<1> USE DEF PushIInv, PushIs
<1>1. /\ PushIs(n, "none") /\ ~note[n].sentAt
      /\ note \in [Notes -> [stored : BOOLEAN, isRead : BOOLEAN, sentAt : BOOLEAN]]
      /\ push \in [Notes -> Pushes] /\ pushTokens \subseteq Tokens
  BY DEF Notify, Addressed, SentIsOver, PushTypeOK
<1>2. /\ note' = [note EXCEPT ![n].stored = TRUE]
      /\ UNCHANGED <<queueCapable, browserPush, pushTokens, gone, handed, missed>>
  BY DEF Notify
<1>3. \A m \in Notes : /\ m # n => note'[m] = note[m]
                       /\ note'[m].sentAt = note[m].sentAt /\ (note[m].stored => note'[m].stored)
  BY <1>1, <1>2
<1>4. note'[n].stored /\ note' \in [Notes -> [stored : BOOLEAN, isRead : BOOLEAN, sentAt : BOOLEAN]]
  BY <1>1, <1>2
<1>5. CASE UNCHANGED push
  <2>1. PushTypeOK'
    BY <1>2, <1>4, <1>5 DEF PushTypeOK
  <2> QED BY <1>2, <1>3, <1>5, <2>1
          DEF Addressed, AttemptsCounted, Asked, PhonesReached, BrowsersReached, SentIsOver, SentReachedAll
<1>6. CASE PushBecome(n, [NoPush EXCEPT !.state = "posting", !.tokens = pushTokens])
  <2> DEFINE p == [NoPush EXCEPT !.state = "posting", !.tokens = pushTokens]
  <2>1. /\ p \in Pushes /\ p.state = "posting" /\ p.attempts = 0
        /\ p.phones = "todo" /\ p.browsers = "todo"
    <3>1. 0 \in 0..MaxPushAttempts
      BY PushAssumption
    <3> QED BY <1>1, <3>1 DEF Pushes, NoPush
  <2> HIDE DEF p
  <2>2. push' = [push EXCEPT ![n] = p]
    BY <1>6 DEF PushBecome, p
  <2>3. PushTypeOK'
    BY <1>1, <1>2, <1>4, <2>1, <2>2 DEF PushTypeOK
  <2>4. \A m \in Notes : push'[m] = IF m = n THEN p ELSE push[m]
    BY <1>1, <2>2
  <2>5. Addressed' /\ AttemptsCounted'
    BY <1>3, <1>4, <2>1, <2>4 DEF Addressed, AttemptsCounted
  <2>6. PhonesReached' /\ BrowsersReached'
    BY <1>2, <2>1, <2>4 DEF Asked, PhonesReached, BrowsersReached
  <2>7. SentIsOver' /\ SentReachedAll'
    BY <1>1, <1>2, <1>3, <2>4 DEF SentIsOver, SentReachedAll
  <2> QED BY <2>3, <2>5, <2>6, <2>7
<1> QED BY <1>5, <1>6 DEF Notify

LEMMA PostKeeps == ASSUME PushIInv, NEW n \in Notes, PostPush(n) \/ QueueDown(n) PROVE PushIInv'
<1>1. push[n] \in Pushes /\ PushIs(n, "posting") /\ push[n].attempts = 0
  BY DEF PushIInv, PushTypeOK, AttemptsCounted, PostPush, QueueDown
<1>2. pushTokens \subseteq Tokens
  BY DEF PushIInv, PushTypeOK
<1>3. PICK p \in {[push[n] EXCEPT !.state = "queued"],
                  [push[n] EXCEPT !.state = "active", !.inline = TRUE],
                  [push[n] EXCEPT !.state = "failed"]} : PushBecome(n, p)
  BY DEF PostPush, QueueDown
<1>4. /\ p \in Pushes /\ p.tokens = push[n].tokens /\ p.attempts = 0
      /\ p.phones = push[n].phones /\ p.browsers = push[n].browsers
      /\ p.state \in {"queued", "active", "failed"} /\ (p.state = "active" => p.inline)
  BY <1>1 DEF Pushes
<1>5. UNCHANGED <<queueCapable, browserPush, pushTokens, gone, note, handed, missed>>
  BY DEF PostPush, QueueDown
<1> QED BY <1>1, <1>2, <1>3, <1>4, <1>5, PushOne, PushAssumption DEF PushIs

LEMMA StartKeeps == ASSUME PushIInv, NEW n \in Notes, StartPush(n) PROVE PushIInv'
<1> DEFINE p == [push[n] EXCEPT !.state = "active", !.attempts = @ + 1,
                                !.phones = "todo", !.browsers = "todo", !.stale = {}]
<1>1. /\ push[n] \in Pushes /\ PushIs(n, "queued") /\ push[n].attempts < MaxPushAttempts
      /\ pushTokens \subseteq Tokens
  BY DEF PushIInv, PushTypeOK, AttemptsCounted, StartPush
<1>2. /\ p \in Pushes /\ p.tokens = push[n].tokens /\ p.attempts > 0
      /\ p.state = "active" /\ p.phones = "todo" /\ p.browsers = "todo"
  <2>1. push[n].attempts \in 0..MaxPushAttempts
    BY <1>1 DEF Pushes
  <2>2. push[n].attempts + 1 \in 0..MaxPushAttempts /\ push[n].attempts + 1 > 0
    BY <1>1, <2>1, PushAssumption
  <2> QED BY <1>1, <2>2 DEF Pushes
<1>3. PushBecome(n, p) /\ UNCHANGED <<queueCapable, browserPush, pushTokens, gone, note, handed, missed>>
  BY DEF StartPush
<1> HIDE DEF p
<1> QED BY <1>1, <1>2, <1>3, PushOne DEF PushIs

LEMMA PhonesKeep == ASSUME PushIInv, NEW n \in Notes, SendPhones(n) PROVE PushIInv'
<1> DEFINE p == [push[n] EXCEPT !.phones = "ok"]
           phones == push[n].tokens \cap Phones
<1>1. push[n] \in Pushes /\ PushIs(n, "active")
  BY DEF PushIInv, PushTypeOK, SendPhones
<1>2. /\ p \in Pushes /\ p.state = "active" /\ p.tokens = push[n].tokens
      /\ p.attempts = push[n].attempts /\ p.inline = push[n].inline
      /\ p.browsers = push[n].browsers /\ p.tokens \cap Phones \subseteq phones
      /\ phones \in SUBSET Tokens
  BY <1>1 DEF Pushes, PushIs
<1>3. PICK S \in SUBSET phones : HandOver(n, phones, S)
  BY DEF SendPhones
<1>4. PushBecome(n, p) /\ UNCHANGED <<queueCapable, browserPush, pushTokens, gone, note>>
  BY DEF SendPhones
<1> HIDE DEF p, phones
<1> QED BY <1>1, <1>2, <1>3, <1>4, PushHanded

LEMMA PhonesFailKeeps == ASSUME PushIInv, NEW n \in Notes, PhonesFail(n) PROVE PushIInv'
<1> DEFINE p == [push[n] EXCEPT !.phones = "failed"]
<1>1. push[n] \in Pushes /\ PushIs(n, "active")
  BY DEF PushIInv, PushTypeOK, PhonesFail
<1>2. /\ p \in Pushes /\ p.tokens = push[n].tokens /\ p.state = "active"
      /\ p.attempts = push[n].attempts /\ p.inline = push[n].inline
      /\ p.phones = "failed" /\ p.browsers = push[n].browsers
  BY <1>1 DEF Pushes, PushIs
<1>3. PICK asked \in SUBSET (push[n].tokens \cap Phones) : \E S \in SUBSET asked : HandOver(n, asked, S)
  BY DEF PhonesFail
<1>4. PICK S \in SUBSET asked : HandOver(n, asked, S)
  BY <1>3
<1>5. asked \in SUBSET Tokens
  BY DEF Tokens
<1>6. PushBecome(n, p) /\ UNCHANGED <<queueCapable, browserPush, pushTokens, gone, note>>
  BY DEF PhonesFail
<1> HIDE DEF p
<1> QED BY <1>1, <1>2, <1>4, <1>5, <1>6, PushHanded

LEMMA BrowsersKeep == ASSUME PushIInv, NEW n \in Notes, SendBrowsers(n) PROVE PushIInv'
<1> DEFINE browsers == push[n].tokens \cap Browsers
<1>1. push[n] \in Pushes /\ PushIs(n, "active")
  BY DEF PushIInv, PushTypeOK, SendBrowsers
<1>2. PICK S \in SUBSET (browsers \ gone), stale \in SUBSET (browsers \cap gone) :
        /\ HandOver(n, browsers, S)
        /\ PushBecome(n, [push[n] EXCEPT !.browsers = IF stale = {} THEN "ok" ELSE "stale",
                                         !.stale = stale])
  BY DEF SendBrowsers
<1> DEFINE p == [push[n] EXCEPT !.browsers = IF stale = {} THEN "ok" ELSE "stale", !.stale = stale]
<1>3. /\ p \in Pushes /\ p.state = "active" /\ p.tokens = push[n].tokens
      /\ p.attempts = push[n].attempts /\ p.inline = push[n].inline
      /\ p.phones = push[n].phones /\ p.tokens \cap Browsers \subseteq browsers
      /\ browsers \in SUBSET Tokens
  BY <1>1 DEF Pushes, PushIs, Tokens
<1>4. PushBecome(n, p) /\ S \in SUBSET browsers
  BY <1>2
<1>5. UNCHANGED <<queueCapable, browserPush, pushTokens, gone, note>>
  BY DEF SendBrowsers
<1> HIDE DEF p, browsers
<1> QED BY <1>1, <1>2, <1>3, <1>4, <1>5, PushHanded

LEMMA SkipKeeps == ASSUME PushIInv, NEW n \in Notes, SkipBrowsers(n) PROVE PushIInv'
<1> DEFINE p == [push[n] EXCEPT !.browsers = "ok"]
<1>1. push[n] \in Pushes /\ PushIs(n, "active") /\ pushTokens \subseteq Tokens /\ ~browserPush
  BY DEF PushIInv, PushTypeOK, SkipBrowsers
<1>2. /\ p \in Pushes /\ p.tokens = push[n].tokens /\ p.state = "active"
      /\ p.attempts = push[n].attempts /\ p.inline = push[n].inline
      /\ p.phones = push[n].phones /\ p.browsers = "ok"
      /\ (~p.inline => p.attempts > 0)
  BY <1>1 DEF Pushes, PushIInv, AttemptsCounted, PushIs
<1>3. PushBecome(n, p) /\ UNCHANGED <<queueCapable, browserPush, pushTokens, gone, note, handed, missed>>
  BY DEF SkipBrowsers
<1> HIDE DEF p
<1> QED BY <1>1, <1>2, <1>3, PushOne DEF PushIs

LEMMA DropKeeps == ASSUME PushIInv, NEW n \in Notes, DropStale(n) PROVE PushIInv'
<1> DEFINE p == [push[n] EXCEPT !.browsers = "ok", !.stale = {}]
<1>1. push[n] \in Pushes /\ PushIs(n, "active") /\ push[n].browsers = "stale"
      /\ pushTokens' \subseteq Tokens
  BY DEF PushIInv, PushTypeOK, DropStale
<1>2. /\ p \in Pushes /\ p.tokens = push[n].tokens /\ p.state = "active"
      /\ p.attempts = push[n].attempts /\ p.inline = push[n].inline
      /\ p.phones = push[n].phones /\ p.browsers = "ok"
      /\ (~p.inline => p.attempts > 0)
  BY <1>1 DEF Pushes, PushIInv, AttemptsCounted, PushIs
<1>3. PushBecome(n, p) /\ UNCHANGED <<queueCapable, browserPush, gone, note, handed, missed>>
  BY DEF DropStale
<1> HIDE DEF p
<1> QED BY <1>1, <1>2, <1>3, PushOne DEF PushIs

\* The one step that marks a notification as sent: both halves have been reached.
LEMMA MarkKeeps == ASSUME PushIInv, NEW n \in Notes, MarkSent(n) PROVE PushIInv'
<1> USE DEF PushIInv, PushIs
<1> DEFINE p == [push[n] EXCEPT !.state = "done"]
<1>1. /\ push[n] \in Pushes /\ push \in [Notes -> Pushes]
      /\ note \in [Notes -> [stored : BOOLEAN, isRead : BOOLEAN, sentAt : BOOLEAN]]
      /\ PushIs(n, "active") /\ push[n].phones = "ok" /\ push[n].browsers = "ok"
  BY DEF PushTypeOK, MarkSent
<1>2. /\ p \in Pushes /\ p.state = "done" /\ p.tokens = push[n].tokens
      /\ p.phones = push[n].phones /\ p.browsers = push[n].browsers
  BY <1>1 DEF Pushes
<1>3. /\ push' = [push EXCEPT ![n] = p] /\ note' = [note EXCEPT ![n].sentAt = TRUE]
      /\ UNCHANGED <<queueCapable, browserPush, pushTokens, gone, handed, missed>>
  BY DEF MarkSent, PushBecome
<1> HIDE DEF p
<1>4. \A m \in Notes : push'[m] = IF m = n THEN p ELSE push[m]
  BY <1>1, <1>3
<1>5. \A m \in Notes : note'[m].stored = note[m].stored /\ (m # n => note'[m].sentAt = note[m].sentAt)
  BY <1>1, <1>3
<1>6. PushTypeOK'
  BY <1>1, <1>2, <1>3 DEF PushTypeOK
<1>7. Addressed' /\ AttemptsCounted'
  BY <1>1, <1>2, <1>4, <1>5 DEF Addressed, AttemptsCounted
<1>8. PhonesReached' /\ BrowsersReached'
  BY <1>2, <1>3, <1>4 DEF Asked, PhonesReached, BrowsersReached
<1>9. SentIsOver'
  BY <1>2, <1>4, <1>5 DEF SentIsOver
<1>10. \A d \in push[n].tokens : d \in Asked(n) \/ (d \in Browsers /\ ~browserPush)
  <2>1. push[n].tokens \subseteq Phones \cup Browsers
    BY <1>1 DEF Pushes, Tokens
  <2>2. push[n].tokens \cap Phones \subseteq Asked(n)
    BY <1>1 DEF PhonesReached
  <2>3. browserPush => push[n].tokens \cap Browsers \subseteq Asked(n)
    BY <1>1 DEF BrowsersReached
  <2> QED BY <2>1, <2>2, <2>3
<1>11. SentReachedAll'
  BY <1>2, <1>3, <1>4, <1>5, <1>10 DEF SentReachedAll, Asked
<1> QED BY <1>6, <1>7, <1>8, <1>9, <1>11

\* The ends of an attempt that are not its success.
LEMMA EndKeeps == ASSUME PushIInv, NEW n \in Notes, FailPush(n) \/ PushWorkerDies(n) PROVE PushIInv'
<1>1. push[n] \in Pushes /\ PushIs(n, "active") /\ pushTokens \subseteq Tokens
  BY DEF PushIInv, PushTypeOK, FailPush, PushWorkerDies
<1>2. ~push[n].inline => push[n].attempts > 0
  BY <1>1 DEF PushIInv, AttemptsCounted
<1>3. PICK p \in Pushes : /\ PushBecome(n, p) /\ p.tokens = push[n].tokens
                          /\ p.phones = push[n].phones /\ p.browsers = push[n].browsers
                          /\ p.state \in {"queued", "failed"}
                          /\ p.state = "queued" => p.attempts < MaxPushAttempts
  <2>1. CASE FailPush(n)
    <3> DEFINE p == Retry(push[n])
    <3>1. /\ p \in Pushes /\ p.tokens = push[n].tokens
          /\ p.phones = push[n].phones /\ p.browsers = push[n].browsers
          /\ p.state \in {"queued", "failed"}
          /\ p.state = "queued" => p.attempts < MaxPushAttempts
      BY <1>1, PushAssumption DEF Pushes, Retry
    <3> QED BY <2>1, <3>1 DEF FailPush
  <2>2. CASE PushWorkerDies(n) /\ (push[n].inline \/ push[n].stalled)
    <3> DEFINE p == [push[n] EXCEPT !.state = "failed"]
    <3>1. /\ p \in Pushes /\ p.tokens = push[n].tokens /\ p.state = "failed"
          /\ p.phones = push[n].phones /\ p.browsers = push[n].browsers
      BY <1>1 DEF Pushes
    <3> QED BY <2>2, <3>1 DEF PushWorkerDies
  <2>3. CASE PushWorkerDies(n) /\ ~(push[n].inline \/ push[n].stalled)
    <3> DEFINE p == [push[n] EXCEPT !.state = "queued", !.stalled = TRUE, !.attempts = @ - 1]
    <3>1. /\ p \in Pushes /\ p.tokens = push[n].tokens /\ p.state = "queued"
          /\ p.phones = push[n].phones /\ p.browsers = push[n].browsers
          /\ p.attempts < MaxPushAttempts
      <4>1. push[n].attempts \in 0..MaxPushAttempts
        BY <1>1 DEF Pushes
      <4>2. push[n].attempts - 1 \in 0..MaxPushAttempts /\ push[n].attempts - 1 < MaxPushAttempts
        BY <1>2, <2>3, <4>1, PushAssumption
      <4> QED BY <1>1, <4>2 DEF Pushes
    <3> QED BY <2>3, <3>1 DEF PushWorkerDies
  <2> QED BY <2>1, <2>2, <2>3
<1>4. UNCHANGED <<queueCapable, browserPush, pushTokens, gone, note, handed, missed>>
  BY DEF FailPush, PushWorkerDies
<1> QED BY <1>1, <1>3, <1>4, PushOne DEF PushIs

\* Reading notifications and registering devices touch no push.
LEMMA AsideKeeps ==
  ASSUME PushIInv, UNCHANGED <<browserPush, push, handed, missed>>,
         PushTypeOK',
         \A n \in Notes : note'[n].stored = note[n].stored /\ note'[n].sentAt = note[n].sentAt
  PROVE PushIInv'
<1> USE DEF PushIInv, PushIs
<1>1. Addressed' /\ AttemptsCounted'
  BY DEF Addressed, AttemptsCounted
<1>2. PhonesReached' /\ BrowsersReached'
  BY DEF Asked, PhonesReached, BrowsersReached
<1>3. SentIsOver' /\ SentReachedAll'
  BY DEF SentIsOver, SentReachedAll
<1> QED BY <1>1, <1>2, <1>3

LEMMA ReadKeeps == ASSUME PushIInv, NEW S, ReadNotes(S) PROVE PushIInv'
<1>1. note \in [Notes -> [stored : BOOLEAN, isRead : BOOLEAN, sentAt : BOOLEAN]]
  BY DEF PushIInv, PushTypeOK
<1>2. /\ note' = [n \in Notes |-> IF n \in S /\ note[n].stored THEN [note[n] EXCEPT !.isRead = TRUE]
                                  ELSE note[n]]
      /\ UNCHANGED <<queueCapable, browserPush, pushTokens, gone, push, handed, missed>>
  BY DEF ReadNotes
<1>3. \A n \in Notes : note'[n].stored = note[n].stored /\ note'[n].sentAt = note[n].sentAt
  BY <1>1, <1>2
<1>4. note' \in [Notes -> [stored : BOOLEAN, isRead : BOOLEAN, sentAt : BOOLEAN]]
  BY <1>1, <1>2
<1>5. PushTypeOK'
  BY <1>2, <1>4 DEF PushIInv, PushTypeOK
<1> QED BY <1>2, <1>3, <1>5, AsideKeeps

LEMMA DevicesKeep ==
  ASSUME PushIInv, NEW t \in Tokens, RegisterDevice(t) \/ UnregisterDevice(t) \/ Unsubscribe(t)
  PROVE PushIInv'
<1>1. UNCHANGED <<queueCapable, browserPush, note, push, handed, missed>>
  BY DEF RegisterDevice, UnregisterDevice, Unsubscribe
<1>2. pushTokens' \subseteq Tokens /\ gone' \subseteq Browsers
  BY DEF PushIInv, PushTypeOK, RegisterDevice, UnregisterDevice, Unsubscribe
<1>3. PushTypeOK'
  BY <1>1, <1>2 DEF PushIInv, PushTypeOK
<1> QED BY <1>1, <1>3, AsideKeeps

LEMMA PushIInvNext == PushIInv /\ [PushNext]_pushVars => PushIInv'
<1> SUFFICES ASSUME PushIInv, [PushNext]_pushVars PROVE PushIInv'
  OBVIOUS
<1>1. CASE \E n \in Notes : Notify(n) \/ PostPush(n) \/ QueueDown(n)
  BY <1>1, NotifyKeeps, PostKeeps
<1>2. CASE \E n \in Notes : Sending(n)
  BY <1>2, StartKeeps, PhonesKeep, PhonesFailKeeps, BrowsersKeep, SkipKeeps, DropKeeps, MarkKeeps, EndKeeps
  DEF Sending
<1>3. CASE \E S \in {{n} : n \in Notes} \cup {Notes} : ReadNotes(S)
  BY <1>3, ReadKeeps
<1>4. CASE \E t \in Tokens : RegisterDevice(t) \/ UnregisterDevice(t) \/ Unsubscribe(t)
  BY <1>4, DevicesKeep
<1>5. CASE UNCHANGED pushVars
  <2>1. PushTypeOK'
    BY <1>5 DEF PushIInv, PushTypeOK, pushVars
  <2> QED BY <1>5, <2>1, AsideKeeps DEF pushVars
<1> QED BY <1>1, <1>2, <1>3, <1>4, <1>5 DEF PushNext

-----------------------------------------------------------------------------
\* notify, the push worker and config/push.ts: a notification is marked as sent only when
\* every device it was addressed to was either taken by its service, or left out by an
\* answer of its service, or is a browser of a server that has no provider for browsers;
\* over all the attempts, dead workers and devices dropped in between.
THEOREM SentReached == PushSpec => []SentReachedAll
<1>1. PushInit => PushIInv
  BY PushIInvInit
<1>2. PushIInv /\ [PushNext]_pushVars => PushIInv'
  BY PushIInvNext
<1>3. PushIInv => SentReachedAll
  BY DEF PushIInv
<1> QED BY <1>1, <1>2, <1>3, PTL DEF PushSpec

\* Every variable keeps its type; above all the worker attempts no push more often than the
\* job options allow, though attempts it died in are not counted.
THEOREM PushTypes == PushSpec => []PushTypeOK
<1>1. PushInit => PushIInv
  BY PushIInvInit
<1>2. PushIInv /\ [PushNext]_pushVars => PushIInv'
  BY PushIInvNext
<1>3. PushIInv => PushTypeOK
  BY DEF PushIInv
<1> QED BY <1>1, <1>2, <1>3, PTL DEF PushSpec
=============================================================================
