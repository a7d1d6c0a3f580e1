----------------------------- MODULE Candidates -----------------------------
(***************************************************************************)
(* Who is offered a job: buildCandidates of matching.service.ts, with the  *)
(* checks an accept makes (assertClaimable and the conditional debit) and  *)
(* the feed of order.service.ts, while pros edit their profiles, come and  *)
(* go, spend and earn, are rated, blocked and answer offers.               *)
(*                                                                         *)
(* One job that is still looking for someone.  Matching takes the list as  *)
(* given and models what is done with it.                                  *)
(***************************************************************************)
EXTENDS Integers, FiniteSets, Functions

CONSTANTS
  Pros,
  Crafts,
  Regions,
  JobCrafts,      \* CATEGORY_CRAFTS of the job's category
  MaxCandidates,  \* MATCH_MAX_CANDIDATES; the length of the home screen's list too
  MaxChanges      \* bound: how often the pros change

ASSUME CandidatesAssumption ==
  /\ IsFiniteSet(Pros)
  /\ JobCrafts \subseteq Crafts /\ JobCrafts # {}  \* as in CATEGORY_CRAFTS
  /\ MaxCandidates \in Nat \ {0} /\ MaxChanges \in Nat

VARIABLES
  profile,  \* MasterProfile and what the pipeline joins of the User
  order,    \* [located, region, client]
  outcome,  \* order.offers: what each pro answered; "none" if never offered
  changes

candidateVars == <<profile, order, outcome, changes>>

Nowhere == "nowhere"
NoRegion == "no region"
Stranger == "a client who is no pro"

\* place is seen from the job: within MATCH_RADIUS_KM or not; presence is "recent"
\* for a pro seen within MATCH_OFFLINE_GRACE_MINUTES.
Profiles == [crafts : (SUBSET Crafts) \ {{}}, regions : SUBSET Regions,
             place : {"near", "far", Nowhere}, isAvailable : BOOLEAN,
             rating : 0..2, presence : {"online", "recent", "gone"},
             funded : BOOLEAN, usable : BOOLEAN]
Orders == [located : BOOLEAN, region : Regions \cup {NoRegion}, client : Pros \cup {Stranger}]
Outcomes == {"none", "pending", "passed", "timeout"}

CandidatesTypeOK ==
  /\ profile \in [Pros -> Profiles]
  /\ order \in Orders
  /\ outcome \in [Pros -> Outcomes]
  /\ changes \in 0..MaxChanges

\* A new pro has no position and no rating; these two suit the job.
CandidatesInit ==
  /\ profile = [m \in Pros |-> [crafts |-> JobCrafts, regions |-> Regions, place |-> Nowhere,
                                isAvailable |-> TRUE, rating |-> 0, presence |-> "online",
                                funded |-> TRUE, usable |-> TRUE]]
  /\ order \in Orders
  /\ outcome = [m \in Pros |-> "none"]
  /\ changes = 0

-----------------------------------------------------------------------------
(* The list *)

Serves(m) == profile[m].crafts \cap JobCrafts # {}
BaseMatch(m) == Serves(m) /\ profile[m].isAvailable
InRegion(m) == order.region = NoRegion \/ order.region \in profile[m].regions

\* The first stage: $geoNear when the job has coordinates, the region otherwise.
Nearby == {m \in Pros : BaseMatch(m) /\ IF order.located THEN profile[m].place = "near"
                                                       ELSE InRegion(m)}

Mutant_AnyPlace == {m \in Pros : BaseMatch(m) /\ InRegion(m)}
\* The second attempt: profiles that have no position.
WithoutPosition == {m \in Pros : BaseMatch(m) /\ profile[m].place = Nowhere /\ InRegion(m)}

\* The stages behind both: the account, its balance, its presence, the client.
Joined(S) == {m \in S : /\ profile[m].usable /\ profile[m].funded
                        /\ profile[m].presence # "gone"
                        /\ m # order.client}

Reached == IF order.located /\ Joined(Nearby) = {} THEN Joined(WithoutPosition) ELSE Joined(Nearby)

\* $sort and $limit: pros who rank alike come in any order.
Lists(S) ==
  {list \in UNION {[1..n -> S] : n \in {IF Cardinality(S) < MaxCandidates
                                          THEN Cardinality(S) ELSE MaxCandidates}} :
     \A i \in DOMAIN list :
        /\ \A k \in 1..(i - 1) : list[k] # list[i] /\ profile[list[k]].rating >= profile[list[i]].rating
        /\ \A m \in S : profile[m].rating > profile[list[i]].rating
                          => \E k \in 1..(i - 1) : list[k] = m}

BuildCandidates == Lists(Reached)

\* The best-rated pros on the client's home screen, cut to a length first and rid of
\* accounts that are gone afterwards: the places of the list that remain.
TopMasters ==
  {Restrict(list, {i \in DOMAIN list : profile[list[i]].usable}) :
     list \in Lists({m \in Pros : profile[m].rating > 0})}

-----------------------------------------------------------------------------
(* Its readers *)

AssertClaimable(m) == m # order.client /\ Serves(m)
\* The condition of acceptOffer's debit.
Debitable(m) == profile[m].funded /\ profile[m].usable
Feed(m) == Serves(m) /\ m # order.client /\ outcome[m] \notin {"passed", "timeout"}

-----------------------------------------------------------------------------
(* What changes the pros *)

Change(m, p) ==
  /\ changes < MaxChanges
  /\ changes' = changes + 1
  /\ profile' = [profile EXCEPT ![m] = p]
  /\ UNCHANGED <<order, outcome>>

\* The app sends the fields it has; a position once given is never taken back.
UpdateMasterProfile(m) ==
  \E crafts \in (SUBSET Crafts) \ {{}}, regions \in SUBSET Regions,
     place \in {"near", "far", profile[m].place}, available \in BOOLEAN :
       Change(m, [profile[m] EXCEPT !.crafts = crafts, !.regions = regions,
                                    !.place = place, !.isAvailable = available])

\* Sockets, wallet, reviews and admin, as far as the pipeline reads them.
ComeOrGo(m) ==
  \E presence \in {"online", "recent", "gone"} :
     Change(m, [profile[m] EXCEPT !.presence = presence])
SpendOrEarn(m) == Change(m, [profile[m] EXCEPT !.funded = ~@])
GetRated(m) == \E rating \in 1..2 : Change(m, [profile[m] EXCEPT !.rating = rating])
BlockOrFree(m) == Change(m, [profile[m] EXCEPT !.usable = ~@])

\* The listed pros are rung one at a time, and answer or let it time out.
Ring(m) ==
  /\ outcome[m] = "none" /\ \A d \in Pros : outcome[d] # "pending"
  /\ \E list \in BuildCandidates : \E i \in DOMAIN list : list[i] = m
  /\ outcome' = [outcome EXCEPT ![m] = "pending"]
  /\ UNCHANGED <<profile, order, changes>>

Answer(m) ==
  /\ outcome[m] = "pending"
  /\ \E o \in {"passed", "timeout"} : outcome' = [outcome EXCEPT ![m] = o]
  /\ UNCHANGED <<profile, order, changes>>

CandidatesNext ==
  \E m \in Pros : \/ UpdateMasterProfile(m) \/ ComeOrGo(m) \/ SpendOrEarn(m)
                  \/ GetRated(m) \/ BlockOrFree(m) \/ Ring(m) \/ Answer(m)

CandidatesSpec == CandidatesInit /\ [][CandidatesNext]_candidateVars

-----------------------------------------------------------------------------
Listed == UNION {{list[i] : i \in DOMAIN list} : list \in BuildCandidates}

\* acceptOffer skips assertClaimable for the pro being rung: the list must have made
\* that check, and the debit's, already.
ListedMayAccept == \A m \in Listed : AssertClaimable(m) /\ Debitable(m)

\* Every job the feed shows can be taken by the pro who is shown it, and a listed
\* pro who has not answered sees the job there.
FeedMayAccept ==
  \A m \in Pros : /\ Feed(m) => AssertClaimable(m)
                  /\ m \in Listed /\ outcome[m] \in {"none", "pending"} => Feed(m)

\* "A master whose known position is outside the radius is never added here."
FarIsNeverListed == order.located => \A m \in Listed : profile[m].place # "far"

\* "The best-rated pro sees it first": no pro who could be listed, and is as far from
\* the job as one who is, comes after that one with a better rating.
Comparable(m, d) ==
  /\ AssertClaimable(m) /\ Debitable(m)
  /\ profile[m].isAvailable /\ profile[m].presence # "gone"
  /\ profile[m].place = profile[d].place /\ profile[m].regions = profile[d].regions

BestFirst ==
  \A list \in BuildCandidates : \A i \in DOMAIN list, m \in Pros :
    Comparable(m, list[i]) /\ profile[m].rating > profile[list[i]].rating
      => \E k \in 1..(i - 1) : list[k] = m

\* The home screen shows usable pros only; a pro missing from a list that is full is
\* rated no better than those on it.
TopIsBest ==
  \A top \in TopMasters : \A i \in DOMAIN top :
    /\ profile[top[i]].usable
    /\ Cardinality(DOMAIN top) = MaxCandidates
         => \A m \in Pros : profile[m].rating > profile[top[i]].rating => \E k \in DOMAIN top : top[k] = m
=============================================================================
