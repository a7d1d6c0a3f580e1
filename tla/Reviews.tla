------------------------------ MODULE Reviews ------------------------------
(***************************************************************************)
(* Ratings: rateMaster, rateProduct, hideReview and recomputeRating of     *)
(* review.service.ts, and setReviewVisible of admin.service.ts.            *)
(*                                                                         *)
(* A key is what the unique indexes of review.model.ts allow one review    *)
(* of: a completed job (the review of its pro by its client), or an author *)
(* and a product.  What is checked once and never changes is checked       *)
(* beforehand: a key of a job is asked for by the job's client, one of a   *)
(* product not by its seller.                                              *)
(***************************************************************************)
EXTENDS Integers, FiniteSets, Functions

CONSTANTS
  JobKeys,
  ProductKeys,
  Targets,         \* the pros and products that are rated
  TargetOf,        \* [Keys -> Targets]
  Stars,
  ReviewHandlers,  \* requests that can be in flight at once
  MaxReviewCrashes,
  NoKey

Keys == JobKeys \cup ProductKeys

ASSUME ReviewsAssumption ==
  /\ TargetOf \in [Keys -> Targets]
  /\ Stars \subseteq 1..5
  /\ NoKey \notin Keys /\ IsFiniteSet(Keys)
  /\ JobKeys \cap ProductKeys = {}
  /\ MaxReviewCrashes \in Nat

VARIABLES
  review,      \* the review of each key: its stars, 0 if there is none, and isVisible
  isRated,     \* the jobs with Order.isRated
  onSale,      \* the products that are active
  rating,      \* rating, in tenths of a star, and ratingCount of each target
  outdated,    \* history: targets whose last recomputation was late or died
  cutShort,    \* history: jobs whose handler died between the review and isRated
  reviewCrashes,
  reviewTask

reviewVars == <<review, isRated, onSale, rating, outdated, cutShort, reviewCrashes, reviewTask>>

ReviewStates == [stars : Stars \cup {0}, visible : BOOLEAN]
Ratings == [tenths : Nat, count : Nat]
NoRating == [tenths |-> 0, count |-> 0]
\* "stale" records that the reviews of the target changed after they were averaged.
ReviewTasks == [pc : {"idle", "create", "mark", "aggregate", "write"}, key : Keys \cup {NoKey},
                stars : Stars \cup {0}, summary : Ratings, stale : BOOLEAN]
NoReviewTask == [pc |-> "idle", key |-> NoKey, stars |-> 0, summary |-> NoRating, stale |-> FALSE]

ReviewTypeOK ==
  /\ review \in [Keys -> ReviewStates]
  /\ isRated \subseteq JobKeys
  /\ onSale \subseteq Targets
  /\ rating \in [Targets -> Ratings]
  /\ outdated \subseteq Targets
  /\ cutShort \subseteq JobKeys
  /\ reviewCrashes \in 0..MaxReviewCrashes
  /\ reviewTask \in [ReviewHandlers -> ReviewTasks]

ReviewInit ==
  /\ review = [k \in Keys |-> [stars |-> 0, visible |-> FALSE]]
  /\ isRated = {}
  /\ onSale = {TargetOf[k] : k \in ProductKeys}
  /\ rating = [t \in Targets |-> NoRating]
  /\ outdated = {}
  /\ cutShort = {}
  /\ reviewCrashes = 0
  /\ reviewTask = [h \in ReviewHandlers |-> NoReviewTask]

-----------------------------------------------------------------------------
ReviewAt(h, label) == reviewTask[h].pc = label
ReviewBecome(h, t) == reviewTask' = [reviewTask EXCEPT ![h] = t]
ReviewReturn(h) == ReviewBecome(h, NoReviewTask)
TargetOfTask(h) == TargetOf[reviewTask[h].key]
Written(k) == review[k].stars # 0

\* The aggregate of recomputeRating over a set of <<key, stars>>: the average in
\* tenths, rounded half up as Math.round does, and the count.
Summary(S) ==
  LET count == Cardinality(S)
      sum == SumFunction([r \in S |-> r[2]])
  IN IF S = {} THEN NoRating
     ELSE [tenths |-> (20 * sum + count) \div (2 * count), count |-> count]

Visible(t) == {<<k, review[k].stars>> : k \in {k \in Keys : TargetOf[k] = t /\ review[k].visible}}

\* A review of t is written by h, which goes on as "next".
ChangeReviews(h, t, next) ==
  reviewTask' = [g \in ReviewHandlers |->
                   IF g = h THEN next
                   ELSE [reviewTask[g] EXCEPT
                           !.stale = @ \/ (ReviewAt(g, "write") /\ TargetOfTask(g) = t)]]

\* rateMaster reads the job.
Mutant_MarkFirst(h, k, s) ==
  /\ ReviewAt(h, "idle")
  /\ k \in JobKeys \ isRated
  /\ isRated' = isRated \cup {k}
  /\ ReviewBecome(h, [NoReviewTask EXCEPT !.pc = "create", !.key = k, !.stars = s])
  /\ UNCHANGED <<review, onSale, rating, outdated, cutShort, reviewCrashes>>
RateMaster(h, k, s) ==
  /\ ReviewAt(h, "idle")
  /\ k \in JobKeys \ isRated
  /\ ReviewBecome(h, [NoReviewTask EXCEPT !.pc = "create", !.key = k, !.stars = s])
  /\ UNCHANGED <<review, isRated, onSale, rating, outdated, cutShort, reviewCrashes>>

\* rateProduct reads the product and looks for a review of it by the author.
RateProduct(h, k, s) ==
  /\ ReviewAt(h, "idle")
  /\ k \in ProductKeys
  /\ TargetOf[k] \in onSale
  /\ ~Written(k)
  /\ ReviewBecome(h, [NoReviewTask EXCEPT !.pc = "create", !.key = k, !.stars = s])
  /\ UNCHANGED <<review, isRated, onSale, rating, outdated, cutShort, reviewCrashes>>

\* Review.create; a second review of the key breaks a unique index.
Mutant_MarkAny(h) ==
  LET t == reviewTask[h]
  IN /\ ReviewAt(h, "create")
     /\ ~Written(t.key)
     /\ review' = [review EXCEPT ![t.key] = [stars |-> t.stars, visible |-> TRUE]]
     /\ ChangeReviews(h, TargetOf[t.key], [t EXCEPT !.pc = "mark"])
     /\ UNCHANGED <<isRated, onSale, rating, outdated, cutShort, reviewCrashes>>
CreateReview(h) ==
  LET t == reviewTask[h]
  IN /\ ReviewAt(h, "create")
     /\ IF Written(t.key)
        THEN ReviewReturn(h) /\ UNCHANGED review
        ELSE /\ review' = [review EXCEPT ![t.key] = [stars |-> t.stars, visible |-> TRUE]]
             /\ ChangeReviews(h, TargetOf[t.key],
                  [t EXCEPT !.pc = IF t.key \in JobKeys THEN "mark" ELSE "aggregate"])
     /\ UNCHANGED <<isRated, onSale, rating, outdated, cutShort, reviewCrashes>>

MarkRated(h) ==
  /\ ReviewAt(h, "mark")
  /\ isRated' = isRated \cup {reviewTask[h].key}
  /\ ReviewBecome(h, [reviewTask[h] EXCEPT !.pc = "aggregate"])
  /\ UNCHANGED <<review, onSale, rating, outdated, cutShort, reviewCrashes>>

\* recomputeRating: the aggregate, and then the update of the target.
Aggregate(h) ==
  /\ ReviewAt(h, "aggregate")
  /\ ReviewBecome(h, [reviewTask[h] EXCEPT !.pc = "write", !.stale = FALSE,
                                           !.summary = Summary(Visible(TargetOfTask(h)))])
  /\ UNCHANGED <<review, isRated, onSale, rating, outdated, cutShort, reviewCrashes>>

WriteRating(h) ==
  /\ ReviewAt(h, "write")
  /\ rating' = [rating EXCEPT ![TargetOfTask(h)] = reviewTask[h].summary]
  /\ outdated' = IF reviewTask[h].stale THEN outdated \cup {TargetOfTask(h)}
                 ELSE outdated \ {TargetOfTask(h)}
  /\ ReviewReturn(h)
  /\ UNCHANGED <<review, isRated, onSale, cutShort, reviewCrashes>>

\* setReviewVisible; hideReview is the same with visible = FALSE.
Mutant_HideOnly(h, k, visible) ==
  /\ ReviewAt(h, "idle")
  /\ Written(k)
  /\ review' = [review EXCEPT ![k].visible = visible]
  /\ UNCHANGED <<isRated, onSale, rating, outdated, cutShort, reviewCrashes, reviewTask>>
SetReviewVisible(h, k, visible) ==
  /\ ReviewAt(h, "idle")
  /\ Written(k)
  /\ review' = [review EXCEPT ![k].visible = visible]
  /\ ChangeReviews(h, TargetOf[k], [NoReviewTask EXCEPT !.pc = "aggregate", !.key = k])
  /\ UNCHANGED <<isRated, onSale, rating, outdated, cutShort, reviewCrashes>>

\* The seller or an admin takes the product off the shelf.
Withdraw(t) ==
  /\ t \in onSale
  /\ onSale' = onSale \ {t}
  /\ UNCHANGED <<review, isRated, rating, outdated, cutShort, reviewCrashes, reviewTask>>

\* The process dies, or the database stops answering the handler.
ReviewCrash(h) ==
  /\ ~ReviewAt(h, "idle")
  /\ reviewCrashes < MaxReviewCrashes
  /\ reviewCrashes' = reviewCrashes + 1
  /\ outdated' = IF ReviewAt(h, "create") THEN outdated ELSE outdated \cup {TargetOfTask(h)}
  /\ cutShort' = IF ReviewAt(h, "mark") THEN cutShort \cup {reviewTask[h].key} ELSE cutShort
  /\ ReviewReturn(h)
  /\ UNCHANGED <<review, isRated, onSale, rating>>

-----------------------------------------------------------------------------
ReviewNext ==
  \/ \E h \in ReviewHandlers :
       \/ \E k \in Keys, s \in Stars : RateMaster(h, k, s) \/ RateProduct(h, k, s)
       \/ CreateReview(h) \/ MarkRated(h) \/ Aggregate(h) \/ WriteRating(h)
       \/ \E k \in Keys, v \in BOOLEAN : SetReviewVisible(h, k, v)
       \/ ReviewCrash(h)
  \/ \E t \in Targets : Withdraw(t)

ReviewSpec == ReviewInit /\ [][ReviewNext]_reviewVars

-----------------------------------------------------------------------------
\* A handler is still going to recompute the rating of t.
Pending(t) ==
  \E h \in ReviewHandlers :
    reviewTask[h].pc \in {"mark", "aggregate", "write"} /\ TargetOfTask(h) = t

\* A rating is what the visible reviews come to, unless its recomputation is on
\* its way, or the last one to finish was overtaken or one died.
RatingFollowsReviews ==
  \A t \in Targets : rating[t] = Summary(Visible(t)) \/ Pending(t) \/ t \in outdated

\* A job is marked as rated when its client's review is stored and not without
\* it, except while the handler is between the two or when it died there.
RatedWithReview ==
  \A k \in JobKeys :
    /\ k \in isRated => Written(k)
    /\ Written(k) => \/ k \in isRated \cup cutShort
                     \/ \E h \in ReviewHandlers : ReviewAt(h, "mark") /\ reviewTask[h].key = k

\* The stars of a stored review are never rewritten: a second one of the same
\* job or of the same author and product is refused.
ReviewStands ==
  [][\A k \in Keys : Written(k) => review'[k].stars = review[k].stars]_reviewVars
=============================================================================
