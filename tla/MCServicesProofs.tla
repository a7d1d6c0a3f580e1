-------------------------- MODULE MCServicesProofs --------------------------
(***************************************************************************)
(* Proofs about what MCServices puts side by side, for any values of its   *)
(* constants: the computations, whose properties are about what is read    *)
(* (Candidates, Phone, Paging, Stats), the types of every part, and that   *)
(* each part behaves as its component does on its own.                     *)
(***************************************************************************)
EXTENDS MCServices, ServicesProofs

-----------------------------------------------------------------------------
(* Whom a search reaches.  The pros' profiles are what they are; a list    *)
(* keeps its promises in every state.                                      *)

LEMMA CandidatesInitType == CandidatesInit => CandidatesTypeOK
<1> SUFFICES ASSUME CandidatesInit PROVE CandidatesTypeOK
  OBVIOUS
<1> DEFINE new == [crafts |-> JobCrafts, regions |-> Regions, place |-> Nowhere,
                   isAvailable |-> TRUE, rating |-> 0, presence |-> "online",
                   funded |-> TRUE, usable |-> TRUE]
<1>1. JobCrafts \in (SUBSET Crafts) \ {{}} /\ Regions \in SUBSET Regions
  BY CandidatesAssumption
<1>2. new \in Profiles
  BY <1>1 DEF Profiles, Nowhere
<1>3. profile = [m \in Pros |-> new]
  BY DEF CandidatesInit
<1> HIDE DEF new
<1>4. profile \in [Pros -> Profiles] /\ order \in Orders
  BY <1>2, <1>3 DEF CandidatesInit
<1>5. outcome \in [Pros -> Outcomes] /\ changes \in 0..MaxChanges
  BY CandidatesAssumption DEF CandidatesInit, Outcomes
<1> QED BY <1>4, <1>5 DEF CandidatesTypeOK

LEMMA ChangeType ==
  ASSUME CandidatesTypeOK, NEW m \in Pros, NEW q \in Profiles, Change(m, q)
  PROVE  CandidatesTypeOK'
<1>1. profile' \in [Pros -> Profiles] /\ order' \in Orders /\ outcome' \in [Pros -> Outcomes]
  BY DEF CandidatesTypeOK, Change
<1>2. changes' \in 0..MaxChanges
  BY CandidatesAssumption DEF CandidatesTypeOK, Change
<1> QED BY <1>1, <1>2 DEF CandidatesTypeOK

LEMMA CandidatesNextType ==
  ASSUME CandidatesTypeOK, [CandidatesNext]_candidateVars
  PROVE  CandidatesTypeOK'
<1>1. CASE UNCHANGED candidateVars
  BY <1>1 DEF CandidatesTypeOK, candidateVars
<1>2. ASSUME NEW m \in Pros,
             UpdateMasterProfile(m) \/ ComeOrGo(m) \/ SpendOrEarn(m) \/ GetRated(m) \/ BlockOrFree(m)
      PROVE  CandidatesTypeOK'
  <2>1. profile[m] \in Profiles
    BY DEF CandidatesTypeOK
  <2>2. \E q \in Profiles : Change(m, q)
    <3>1. CASE UpdateMasterProfile(m)
      BY <2>1, <3>1 DEF UpdateMasterProfile, Profiles
    <3>2. CASE ComeOrGo(m)
      BY <2>1, <3>2 DEF ComeOrGo, Profiles
    <3>3. CASE SpendOrEarn(m)
      BY <2>1, <3>3 DEF SpendOrEarn, Profiles
    <3>4. CASE GetRated(m)
      BY <2>1, <3>4 DEF GetRated, Profiles
    <3>5. CASE BlockOrFree(m)
      BY <2>1, <3>5 DEF BlockOrFree, Profiles
    <3> QED BY <1>2, <3>1, <3>2, <3>3, <3>4, <3>5
  <2> QED BY <2>2, ChangeType
<1>3. ASSUME NEW m \in Pros, Ring(m) \/ Answer(m) PROVE CandidatesTypeOK'
  BY <1>3 DEF Ring, Answer, CandidatesTypeOK, Outcomes
<1> QED BY <1>1, <1>2, <1>3 DEF CandidatesNext

-----------------------------------------------------------------------------
(* A list: who is on it, and how long it is. *)

LEMMA ListOf ==
  ASSUME NEW S, IsFiniteSet(S), NEW list \in Lists(S)
  PROVE  \E n \in Nat :
           /\ n <= MaxCandidates
           /\ list \in [1..n -> S] /\ DOMAIN list = 1..n
           /\ \A i \in 1..n, m \in S : profile[m].rating > profile[list[i]].rating
                                         => \E k \in 1..(i - 1) : list[k] = m
<1> DEFINE n == IF Cardinality(S) < MaxCandidates THEN Cardinality(S) ELSE MaxCandidates
<1>1. n \in Nat /\ n <= MaxCandidates
  BY FS_CardinalityType, CandidatesAssumption
<1>2. list \in [1..n -> S]
  BY DEF Lists
<1>3. DOMAIN list = 1..n
  BY <1>2
<1>4. \A i \in DOMAIN list, m \in S : profile[m].rating > profile[list[i]].rating
                                        => \E k \in 1..(i - 1) : list[k] = m
  BY DEF Lists
<1> HIDE DEF n
<1> QED BY <1>1, <1>2, <1>3, <1>4

LEMMA ListedAreReached == Listed \subseteq Reached /\ Reached \subseteq Pros /\ IsFiniteSet(Reached)
<1>1. Reached \subseteq Pros
  BY DEF Reached, Joined, Nearby, WithoutPosition
<1>2. IsFiniteSet(Reached)
  BY <1>1, CandidatesAssumption, FS_Subset
<1>3. ASSUME NEW list \in Lists(Reached), NEW i \in DOMAIN list PROVE list[i] \in Reached
  BY <1>2, ListOf
<1>4. ASSUME NEW m \in Listed PROVE m \in Reached
  <2>1. PICK list \in Lists(Reached) : m \in {list[i] : i \in DOMAIN list}
    BY DEF Listed, BuildCandidates
  <2> QED BY <1>3, <2>1
<1> QED BY <1>1, <1>2, <1>4

LEMMA ReachedMayAccept ==
  ASSUME NEW m \in Reached
  PROVE  /\ Serves(m) /\ profile[m].isAvailable /\ m # order.client
         /\ profile[m].funded /\ profile[m].usable /\ profile[m].presence # "gone"
BY DEF Reached, Joined, Nearby, WithoutPosition, BaseMatch

\* Who is as far from the job as a pro who is reached, and fit to take it, is reached.
LEMMA ReachedAlike ==
  ASSUME NEW d \in Reached, NEW m \in Pros, Comparable(m, d)
  PROVE  m \in Reached
BY DEF Comparable, AssertClaimable, Debitable, Reached, Joined, Nearby, WithoutPosition, BaseMatch, InRegion

LEMMA TheBestAreFirst == BestFirst
<1> SUFFICES ASSUME NEW list \in Lists(Reached), NEW i \in DOMAIN list, NEW m \in Pros,
                    Comparable(m, list[i]), profile[m].rating > profile[list[i]].rating
             PROVE  \E k \in 1..(i - 1) : list[k] = m
  BY DEF BestFirst, BuildCandidates
<1>1. list[i] \in Reached
  BY ListedAreReached, ListOf
<1>2. m \in Reached
  BY <1>1, ReachedAlike
<1> QED BY <1>2, ListedAreReached, ListOf

LEMMA TheTopIsBest == ASSUME CandidatesTypeOK PROVE TopIsBest
<1> DEFINE S == {m \in Pros : profile[m].rating > 0}
           Left(list) == {i \in DOMAIN list : profile[list[i]].usable}
<1>1. IsFiniteSet(S)
  BY CandidatesAssumption, FS_Subset
<1>2. SUFFICES ASSUME NEW list \in Lists(S),
                      NEW i \in Left(list)
               PROVE  /\ profile[list[i]].usable
                      /\ Cardinality(Left(list)) = MaxCandidates
                           => \A m \in Pros : profile[m].rating > profile[list[i]].rating
                                                => \E k \in Left(list) : list[k] = m
  <2> SUFFICES ASSUME NEW top \in TopMasters, NEW i \in DOMAIN top
               PROVE  /\ profile[top[i]].usable
                      /\ Cardinality(DOMAIN top) = MaxCandidates
                           => \A m \in Pros : profile[m].rating > profile[top[i]].rating
                                                => \E k \in DOMAIN top : top[k] = m
    BY DEF TopIsBest
  <2>1. PICK list \in Lists(S) : top = [k \in Left(list) |-> list[k]]
    BY DEF TopMasters, Restrict
  <2>2. DOMAIN top = Left(list) /\ \A k \in Left(list) : top[k] = list[k]
    BY <2>1
  <2> HIDE DEF Left, S
  <2> QED BY <1>2, <2>2
<1>3. PICK n \in Nat : /\ n <= MaxCandidates
                       /\ list \in [1..n -> S] /\ DOMAIN list = 1..n
                       /\ \A k \in 1..n, m \in S : profile[m].rating > profile[list[k]].rating
                                                     => \E l \in 1..(k - 1) : list[l] = m
  BY <1>1, ListOf
<1>4. ASSUME Cardinality(Left(list)) = MaxCandidates PROVE Left(list) = 1..n
  <2>1. IsFiniteSet(1..n) /\ Cardinality(1..n) = n
    BY CountTo
  <2>2. Left(list) \subseteq 1..n
    BY <1>3
  <2>3. IsFiniteSet(Left(list)) /\ Cardinality(Left(list)) <= n
    BY <2>1, <2>2, FS_Subset
  <2>4. Cardinality(Left(list)) = Cardinality(1..n)
    BY <1>3, <1>4, <2>1, <2>3, CandidatesAssumption
  <2> HIDE DEF Left
  <2> QED BY <2>1, <2>2, <2>4, FS_Subset
<1>5. ASSUME Cardinality(Left(list)) = MaxCandidates, NEW m \in Pros,
             profile[m].rating > profile[list[i]].rating
      PROVE  \E k \in Left(list) : list[k] = m
  <2>1. i \in 1..n /\ profile[list[i]].rating > 0 /\ list[i] \in Pros
    BY <1>3
  <2>2. m \in S
    BY <1>5, <2>1 DEF CandidatesTypeOK, Profiles
  <2>3. PICK k \in 1..(i - 1) : list[k] = m
    BY <1>3, <1>5, <2>1, <2>2
  <2>4. k \in 1..n
    BY <2>1
  <2> QED BY <1>4, <1>5, <2>3, <2>4
<1> QED BY <1>5

LEMMA PromisesKept ==
  ASSUME CandidatesTypeOK
  PROVE  ListedMayAccept /\ FeedMayAccept /\ FarIsNeverListed /\ BestFirst /\ TopIsBest
<1>1. ListedMayAccept
  BY ListedAreReached, ReachedMayAccept DEF ListedMayAccept, AssertClaimable, Debitable
<1>2. FeedMayAccept
  BY ListedAreReached, ReachedMayAccept DEF FeedMayAccept, Feed, AssertClaimable
<1>3. FarIsNeverListed
  BY ListedAreReached DEF FarIsNeverListed, Reached, Joined, Nearby, WithoutPosition, Nowhere
<1> QED BY <1>1, <1>2, <1>3, TheBestAreFirst, TheTopIsBest

-----------------------------------------------------------------------------
(* Numbers: a national number comes out of the country code unchanged. *)

Numbers == Seq(0..9)

LEMMA PartIs ==
  ASSUME NEW S, NEW s \in Seq(S), NEW i \in Nat \ {0}, NEW j \in Nat, j <= Len(s)
  PROVE  /\ SubSeq(s, i, j) \in Seq(S)
         /\ Len(SubSeq(s, i, j)) = IF i <= j THEN j - i + 1 ELSE 0
         /\ \A k \in 1..(j - i + 1) : SubSeq(s, i, j)[k] = s[i + k - 1]
<1>1. Len(s) \in Nat
  BY LenProperties
<1>2. ASSUME NEW k \in i..j PROVE s[k] \in S
  <2>1. k \in 1..Len(s)
    BY <1>1
  <2> QED BY <2>1, ElementOfSeq
<1> QED BY <1>1, <1>2, SubSeqProperties

LEMMA PartOfNumber ==
  ASSUME NEW d \in Numbers, NEW i \in Nat \ {0}, NEW j \in Nat, j <= Len(d)
  PROVE  /\ SubSeq(d, i, j) \in Numbers
         /\ Len(SubSeq(d, i, j)) = IF i <= j THEN j - i + 1 ELSE 0
         /\ \A k \in 1..(j - i + 1) : SubSeq(d, i, j)[k] = d[i + k - 1]
<1>1. PICK S : S = 0..9
  OBVIOUS
<1> QED BY <1>1, PartIs DEF Numbers

LEMMA WithCode ==
  ASSUME NEW n \in Numbers
  PROVE  /\ COUNTRY_CODE \o n \in Numbers /\ Len(COUNTRY_CODE \o n) = 3 + Len(n)
         /\ HasCountryCode(COUNTRY_CODE \o n)
         /\ WithoutCountryCode(COUNTRY_CODE \o n) = n
<1> DEFINE d == COUNTRY_CODE \o n
<1>1. COUNTRY_CODE \in Numbers /\ Len(COUNTRY_CODE) = 3
  BY DEF COUNTRY_CODE, Numbers
<1>2. Len(n) \in Nat
  BY LenProperties DEF Numbers
<1>3. PICK S : S = 0..9
  OBVIOUS
<1>4. n \in Seq(S) /\ COUNTRY_CODE \in Seq(S)
  BY <1>3, <1>1 DEF Numbers
<1>5. /\ d \in Seq(S) /\ Len(d) = Len(COUNTRY_CODE) + Len(n)
       /\ \A i \in 1..Len(COUNTRY_CODE) + Len(n) :
            d[i] = IF i <= Len(COUNTRY_CODE) THEN COUNTRY_CODE[i] ELSE n[i - Len(COUNTRY_CODE)]
  BY <1>4, ConcatProperties
<1>6. d \in Numbers /\ Len(d) = 3 + Len(n)
  BY <1>3, <1>1, <1>5 DEF Numbers
<1> HIDE DEF d
<1>7. \A i \in 1..3 : d[i] = COUNTRY_CODE[i]
  BY <1>1, <1>5, <1>2
<1>8. \A i \in 1..Len(n) : d[3 + i] = n[i]
  BY <1>1, <1>5, <1>2
<1>9. SubSeq(d, 1, 3) = COUNTRY_CODE
  <2> DEFINE head == SubSeq(d, 1, 3)
  <2>1. head \in Numbers /\ Len(head) = 3 /\ \A i \in 1..3 : head[i] = d[i]
    BY <1>6, <1>2, PartOfNumber
  <2> HIDE DEF head
  <2>2. Len(head) = Len(COUNTRY_CODE) /\ \A i \in 1..Len(head) : head[i] = COUNTRY_CODE[i]
    BY <1>1, <1>7, <2>1
  <2>3. head = COUNTRY_CODE
    BY <1>1, <2>1, <2>2, SeqEqual DEF Numbers
  <2> QED BY <2>3 DEF head
<1>10. SubSeq(d, 4, Len(d)) = n
  <2> DEFINE rest == SubSeq(d, 4, Len(d))
  <2>1. rest \in Numbers /\ Len(rest) = Len(n) /\ \A i \in 1..Len(n) : rest[i] = d[3 + i]
    BY <1>6, <1>2, PartOfNumber
  <2> HIDE DEF rest
  <2>2. \A i \in 1..Len(rest) : rest[i] = n[i]
    BY <1>8, <2>1
  <2>3. rest = n
    BY <2>1, <2>2, SeqEqual DEF Numbers
  <2> QED BY <2>3 DEF rest
<1>11. Len(d) >= 3
  BY <1>6, <1>2
<1> QED BY <1>6, <1>9, <1>10, <1>11 DEF HasCountryCode, WithoutCountryCode, d

LEMMA NationalNumber ==
  ASSUME NEW n \in Numbers, Len(n) = NATIONAL_LENGTH
  PROVE  ToNationalDigits(n) = n /\ ToNationalDigits(COUNTRY_CODE \o n) = n
<1>1. ToNationalDigits(n) = n
  BY DEF ToNationalDigits, NATIONAL_LENGTH
<1> DEFINE d == COUNTRY_CODE \o n
<1>2. HasCountryCode(d) /\ WithoutCountryCode(d) = n /\ Len(d) = 3 + NATIONAL_LENGTH
  BY WithCode
<1> HIDE DEF d
<1>3. ToNationalDigits(d) = n
  BY <1>2 DEF ToNationalDigits, NATIONAL_LENGTH
<1> QED BY <1>1, <1>3 DEF d

LEMMA NationalType == ASSUME NEW d \in Numbers PROVE ToNationalDigits(d) \in Numbers
<1>1. Len(d) \in Nat
  BY LenProperties DEF Numbers
<1>2. SubSeq(d, 4, Len(d)) \in Numbers
  BY <1>1, PartOfNumber
<1> QED BY <1>2 DEF ToNationalDigits, WithoutCountryCode

LEMMA NumbersDoAgree == ASSUME typed \in Numbers PROVE NumbersAgree
<1> DEFINE national == ToNationalDigits(typed)
<1>1. national \in Numbers
  BY NationalType
<1> HIDE DEF national
<1>2. OneShape
  <2> DEFINE kept == NormalizePhone(typed)
  <2> SUFFICES ASSUME kept # Invalid
               PROVE  /\ Len(kept) = 3 + NATIONAL_LENGTH /\ HasCountryCode(kept)
                      /\ NormalizePhone(kept) = kept
    BY DEF OneShape
  <2>1. IsValidUzPhone(typed) /\ NormalizePhone(typed) = COUNTRY_CODE \o national
    BY DEF NormalizePhone, national
  <2>2. Len(national) = NATIONAL_LENGTH /\ HasOperator(national)
    BY <2>1 DEF IsValidUzPhone, national
  <2>3. ToNationalDigits(COUNTRY_CODE \o national) = national
    BY <1>1, <2>2, NationalNumber
  <2>4. NormalizePhone(COUNTRY_CODE \o national) = COUNTRY_CODE \o national
    BY <2>2, <2>3 DEF NormalizePhone, IsValidUzPhone
  <2> QED BY <1>1, <2>1, <2>2, <2>4, WithCode
<1>3. ASSUME Len(typed) = NATIONAL_LENGTH
      PROVE  /\ NormalizePhone(typed) = NormalizePhone(COUNTRY_CODE \o typed)
             /\ IsValidUzPhone(typed) = (<<typed[1], typed[2]>> \in OperatorCodes)
  <2>1. ToNationalDigits(typed) = typed /\ ToNationalDigits(COUNTRY_CODE \o typed) = typed
    BY <1>3, NationalNumber
  <2>2. IsValidUzPhone(typed) <=> HasOperator(typed)
    BY <1>3, <2>1 DEF IsValidUzPhone
  <2>3. IsValidUzPhone(COUNTRY_CODE \o typed) <=> HasOperator(typed)
    BY <1>3, <2>1 DEF IsValidUzPhone
  <2>4. HasOperator(typed) <=> <<typed[1], typed[2]>> \in OperatorCodes
    <3>1. Len(typed) >= 2
      BY <1>3 DEF NATIONAL_LENGTH
    <3> QED BY <2>1, <3>1 DEF HasOperator
  <2>5. NormalizePhone(typed) = NormalizePhone(COUNTRY_CODE \o typed)
    BY <2>1, <2>2, <2>3 DEF NormalizePhone
  <2> QED BY <2>2, <2>4, <2>5 DEF IsValidUzPhone
<1> QED BY <1>2, <1>3 DEF NumbersAgree, Spelling

TypedOK == typed \in Numbers

LEMMA PhoneTypeInit == PhoneInit => TypedOK
BY DEF PhoneInit, Numbers, TypedOK

LEMMA PhoneTypeNext == TypedOK /\ [PhoneNext]_typed => TypedOK'
<1>2. ASSUME typed \in Numbers, Erase PROVE typed' \in Numbers
  <2>1. Len(typed) \in Nat \ {0} /\ typed' = SubSeq(typed, 1, Len(typed) - 1)
    BY <1>2, EmptySeq DEF Erase, Numbers
  <2> QED BY <1>2, <2>1, PartOfNumber
<1>3. ASSUME typed \in Numbers, NEW digit \in Digits, Type(digit) PROVE typed' \in Numbers
  BY <1>3, PhoneAssumption DEF Type, Numbers
<1> QED BY <1>2, <1>3 DEF PhoneNext, TypedOK

-----------------------------------------------------------------------------
(* Lists that are read page by page. A row that is put in, taken out or    *)
(* moved shifts the ones behind it.                                        *)

LEMMA InsertAtIs ==
  ASSUME NEW S, NEW s \in Seq(S), NEW i \in 1..(Len(s) + 1), NEW e \in S
  PROVE  /\ InsertAt(s, i, e) \in Seq(S)
         /\ Len(InsertAt(s, i, e)) = Len(s) + 1
         /\ \A k \in 1..(Len(s) + 1) :
              InsertAt(s, i, e)[k] = IF k < i THEN s[k] ELSE IF k = i THEN e ELSE s[k - 1]
<1> DEFINE front == SubSeq(s, 1, i - 1)
           back == SubSeq(s, i, Len(s))
           most == front \o <<e>>
           all == most \o back
<1>1. Len(s) \in Nat
  BY LenProperties
<1>2. front \in Seq(S) /\ Len(front) = i - 1 /\ \A k \in 1..(i - 1) : front[k] = s[k]
  BY <1>1, PartIs
<1>3. back \in Seq(S) /\ Len(back) = Len(s) - i + 1 /\ \A k \in 1..(Len(s) - i + 1) : back[k] = s[i + k - 1]
  BY <1>1, PartIs
<1>4. <<e>> \in Seq(S) /\ Len(<<e>>) = 1 /\ <<e>>[1] = e
  OBVIOUS
<1> HIDE DEF front, back
<1>5. /\ most \in Seq(S) /\ Len(most) = Len(front) + 1
      /\ \A k \in 1..Len(front) + 1 : most[k] = IF k <= Len(front) THEN front[k] ELSE <<e>>[k - Len(front)]
  BY <1>2, <1>4, ConcatProperties
<1> HIDE DEF most
<1>6. /\ all \in Seq(S) /\ Len(all) = Len(most) + Len(back)
      /\ \A k \in 1..Len(most) + Len(back) : all[k] = IF k <= Len(most) THEN most[k] ELSE back[k - Len(most)]
  BY <1>3, <1>5, ConcatProperties
<1>7. InsertAt(s, i, e) = all
  BY DEF InsertAt, front, back, most
<1> HIDE DEF all
<1>8. Len(all) = Len(s) + 1
  BY <1>1, <1>2, <1>3, <1>5, <1>6
<1>9. ASSUME NEW k \in 1..(Len(s) + 1)
      PROVE  all[k] = IF k < i THEN s[k] ELSE IF k = i THEN e ELSE s[k - 1]
  <2>0. /\ Len(front) = i - 1 /\ Len(most) = i /\ Len(most) + Len(back) = Len(s) + 1
        /\ k \in 1..Len(most) + Len(back) /\ Len(s) \in Nat /\ i \in 1..(Len(s) + 1)
    BY <1>1, <1>2, <1>3, <1>5
  <2>1. CASE k < i
    <3>1. k <= Len(most) /\ k \in 1..Len(front) + 1 /\ k <= Len(front) /\ k \in 1..(i - 1)
      BY <2>0, <2>1
    <3>2. all[k] = most[k]
      BY <1>6, <2>0, <3>1
    <3>3. most[k] = front[k]
      BY <1>5, <3>1
    <3> QED BY <1>2, <2>1, <3>1, <3>2, <3>3
  <2>2. CASE k = i
    <3>1. k <= Len(most) /\ k \in 1..Len(front) + 1 /\ ~(k <= Len(front)) /\ k - Len(front) = 1
      BY <2>0, <2>2
    <3>2. all[k] = most[k]
      BY <1>6, <2>0, <3>1
    <3>3. most[k] = <<e>>[1]
      BY <1>5, <3>1
    <3> QED BY <1>4, <2>2, <3>2, <3>3
  <2>3. CASE k > i
    <3>1. all[k] = back[k - i]
      <4>1. ~(k <= Len(most)) /\ k - Len(most) = k - i
        BY <2>0, <2>3
      <4> QED BY <1>6, <2>0, <4>1
    <3>2. k - i \in 1..(Len(s) - i + 1) /\ i + (k - i) - 1 = k - 1
      BY <1>1, <2>3
    <3> QED BY <1>1, <1>3, <2>3, <3>1, <3>2
  <2> QED BY <1>1, <2>1, <2>2, <2>3
<1> QED BY <1>6, <1>7, <1>8, <1>9

LEMMA RemoveAtIs ==
  ASSUME NEW S, NEW s \in Seq(S), NEW i \in 1..Len(s)
  PROVE  /\ RemoveAt(s, i) \in Seq(S)
         /\ Len(RemoveAt(s, i)) = Len(s) - 1
         /\ \A k \in 1..(Len(s) - 1) : RemoveAt(s, i)[k] = IF k < i THEN s[k] ELSE s[k + 1]
<1> DEFINE front == SubSeq(s, 1, i - 1)
           back == SubSeq(s, i + 1, Len(s))
           all == front \o back
<1>1. Len(s) \in Nat
  BY LenProperties
<1>2. front \in Seq(S) /\ Len(front) = i - 1 /\ \A k \in 1..(i - 1) : front[k] = s[k]
  BY <1>1, PartIs
<1>3. back \in Seq(S) /\ Len(back) = Len(s) - i /\ \A k \in 1..(Len(s) - i) : back[k] = s[i + k]
  BY <1>1, PartIs
<1> HIDE DEF front, back
<1>4. /\ all \in Seq(S) /\ Len(all) = Len(front) + Len(back)
      /\ \A k \in 1..Len(front) + Len(back) : all[k] = IF k <= Len(front) THEN front[k] ELSE back[k - Len(front)]
  BY <1>2, <1>3, ConcatProperties
<1>5. RemoveAt(s, i) = all
  BY DEF RemoveAt, front, back
<1> HIDE DEF all
<1>6. Len(all) = Len(s) - 1
  BY <1>1, <1>2, <1>3, <1>4
<1>7. ASSUME NEW k \in 1..(Len(s) - 1) PROVE all[k] = IF k < i THEN s[k] ELSE s[k + 1]
  <2>1. /\ Len(front) = i - 1 /\ Len(s) \in Nat /\ i \in 1..Len(s)
        /\ k \in 1..Len(front) + Len(back)
    BY <1>1, <1>2, <1>3
  <2>2. CASE k < i
    <3>1. k <= Len(front) /\ k \in 1..(i - 1)
      BY <2>1, <2>2
    <3> QED BY <1>2, <1>4, <2>1, <2>2, <3>1
  <2>3. CASE ~(k < i)
    <3>1. ~(k <= Len(front)) /\ k - Len(front) = k - i + 1
      BY <2>1, <2>3
    <3>2. all[k] = back[k - i + 1]
      BY <1>4, <2>1, <3>1
    <3>3. k - i + 1 \in 1..(Len(s) - i) /\ i + (k - i + 1) = k + 1
      BY <2>1, <2>3
    <3> QED BY <1>3, <2>3, <3>2, <3>3
  <2> QED BY <2>2, <2>3
<1> QED BY <1>4, <1>5, <1>6, <1>7

Once(s) == \A i, k \in 1..Len(s) : s[i] = s[k] => i = k
Lacks(s, e) == \A k \in 1..Len(s) : s[k] # e

\* t is s, once each, with e put in at i.
PutIn(s, i, e, t) ==
  /\ Len(t) = Len(s) + 1 /\ Len(s) \in Nat /\ Once(t)
  /\ \A k \in 1..Len(s) : \E l \in 1..Len(t) : t[l] = s[k]
  /\ \E l \in 1..Len(t) : t[l] = e
  /\ \A l \in 1..Len(t) : \/ l = i /\ t[l] = e
                          \/ l < i /\ l \in 1..Len(s) /\ t[l] = s[l]
                          \/ l > i /\ l - 1 \in 1..Len(s) /\ t[l] = s[l - 1]

LEMMA InsertedRow ==
  ASSUME NEW S, NEW s \in Seq(S), Once(s), NEW i \in 1..(Len(s) + 1), NEW e \in S,
         Lacks(s, e), NEW t, t = InsertAt(s, i, e)
  PROVE  t \in Seq(S) /\ PutIn(s, i, e, t)
<1>1. /\ t \in Seq(S) /\ Len(t) = Len(s) + 1
      /\ \A k \in 1..(Len(s) + 1) : t[k] = IF k < i THEN s[k] ELSE IF k = i THEN e ELSE s[k - 1]
  <2>1. /\ InsertAt(s, i, e) \in Seq(S) /\ Len(InsertAt(s, i, e)) = Len(s) + 1
        /\ \A k \in 1..(Len(s) + 1) :
             InsertAt(s, i, e)[k] = IF k < i THEN s[k] ELSE IF k = i THEN e ELSE s[k - 1]
    BY SMTT(20), InsertAtIs
  <2> HIDE DEF InsertAt
  <2> QED BY <2>1
<1>2. PICK n \in Nat : Len(s) = n /\ Len(t) = n + 1
  BY <1>1, LenProperties
<1>3. i \in 1..(n + 1)
  BY <1>2
<1>4. ASSUME NEW l \in 1..(n + 1)
      PROVE  \/ l = i /\ t[l] = e
             \/ l < i /\ l \in 1..n /\ t[l] = s[l]
             \/ l > i /\ l - 1 \in 1..n /\ t[l] = s[l - 1]
  <2>1. t[l] = IF l < i THEN s[l] ELSE IF l = i THEN e ELSE s[l - 1]
    BY <1>1, <1>2
  <2>2. l = i \/ (l < i /\ l \in 1..n) \/ (l > i /\ l - 1 \in 1..n /\ ~(l < i) /\ l # i)
    BY <1>3
  <2>3. l < i => l # i
    BY <1>3
  <2>4. l = i => ~(l < i)
    BY <1>3
  <2> QED BY <2>1, <2>2, <2>3, <2>4
<1>5. ASSUME NEW k \in 1..n PROVE \E l \in 1..(n + 1) : t[l] = s[k]
  <2>1. CASE k < i
    <3>1. k \in 1..(n + 1) /\ ~(k > i) /\ k # i
      BY <1>3, <2>1
    <3> QED BY <1>4, <3>1
  <2>2. CASE ~(k < i)
    <3>1. k + 1 \in 1..(n + 1) /\ ~(k + 1 < i) /\ k + 1 # i /\ (k + 1) - 1 = k
      BY <1>3, <2>2
    <3>2. t[k + 1] = s[(k + 1) - 1]
      BY <1>4, <3>1
    <3> QED BY <3>1, <3>2
  <2> QED BY <2>1, <2>2
<1>6. \E l \in 1..(n + 1) : t[l] = e
  <2>1. t[i] = e
    BY <1>3, <1>4
  <2> QED BY <1>3, <2>1
<1>7. ASSUME NEW k \in 1..(n + 1), NEW l \in 1..(n + 1), t[k] = t[l] PROVE k = l
  <2>1. \A m \in 1..n : s[m] # e
    BY <1>2 DEF Lacks
  <2>2. \A m, o \in 1..n : s[m] = s[o] => m = o
    BY <1>2 DEF Once
  <2>3. CASE t[k] = e
    <3>1. k = i /\ l = i
      BY <1>4, <1>7, <2>1, <2>3
    <3> QED BY <3>1
  <2>4. CASE t[k] # e
    <3>1. CASE k < i /\ k \in 1..n /\ t[k] = s[k]
      <4>1. CASE l < i /\ l \in 1..n /\ t[l] = s[l]
        BY <1>7, <2>2, <3>1, <4>1
      <4>2. CASE l > i /\ l - 1 \in 1..n /\ t[l] = s[l - 1]
        <5>1. k = l - 1
          BY <1>7, <2>2, <3>1, <4>2
        <5> QED BY <1>3, <3>1, <4>2, <5>1
      <4> QED BY <1>4, <1>7, <2>4, <4>1, <4>2
    <3>2. CASE k > i /\ k - 1 \in 1..n /\ t[k] = s[k - 1]
      <4>1. CASE l < i /\ l \in 1..n /\ t[l] = s[l]
        <5>1. l = k - 1
          BY <1>7, <2>2, <3>2, <4>1
        <5> QED BY <1>3, <3>2, <4>1, <5>1
      <4>2. CASE l > i /\ l - 1 \in 1..n /\ t[l] = s[l - 1]
        <5>1. k - 1 = l - 1
          BY <1>7, <2>2, <3>2, <4>2
        <5> QED BY <5>1
      <4> QED BY <1>4, <1>7, <2>4, <4>1, <4>2
    <3> QED BY <1>4, <2>4, <3>1, <3>2
  <2> QED BY <2>3, <2>4
<1>8. Once(t)
  BY <1>2, <1>7 DEF Once
<1> QED BY <1>1, <1>2, <1>4, <1>5, <1>6, <1>8 DEF PutIn

LEMMA RemovedRow ==
  ASSUME NEW S, NEW s \in Seq(S), Once(s), NEW i \in 1..Len(s), NEW t, t = RemoveAt(s, i)
  PROVE  /\ t \in Seq(S) /\ Len(t) = Len(s) - 1 /\ Len(t) \in Nat /\ Len(s) \in Nat /\ Once(t)
         /\ Lacks(t, s[i])
         /\ \A k \in 1..Len(s) : s[k] = s[i] \/ \E l \in 1..Len(t) : t[l] = s[k]
         /\ \A l \in 1..Len(t) : t[l] = IF l < i THEN s[l] ELSE s[l + 1]
<1>1. PICK n \in Nat : Len(s) = n + 1
  <2>1. Len(s) \in Nat /\ Len(s) - 1 \in Nat
    BY LenProperties
  <2> QED BY <2>1
<1>2. /\ t \in Seq(S) /\ Len(t) = n
      /\ \A l \in 1..n : t[l] = IF l < i THEN s[l] ELSE s[l + 1]
  <2>1. Len(s) - 1 = n
    BY <1>1
  <2> QED BY <2>1, RemoveAtIs
<1>3. i \in 1..(n + 1) /\ \A m, o \in 1..(n + 1) : s[m] = s[o] => m = o
  BY <1>1 DEF Once
<1> DEFINE From(l) == IF l < i THEN l ELSE l + 1
<1>4. \A l \in 1..n : From(l) \in 1..(n + 1) /\ From(l) # i /\ t[l] = s[From(l)]
  BY <1>2, <1>3
<1>5. \A k, l \in 1..n : From(k) = From(l) => k = l
  BY <1>3
<1>6. ASSUME NEW k \in 1..(n + 1), k # i PROVE \E l \in 1..n : From(l) = k
  <2>1. CASE k < i
    <3>1. k \in 1..n /\ From(k) = k
      BY <1>3, <2>1
    <3> QED BY <3>1
  <2>2. CASE ~(k < i)
    <3>1. k - 1 \in 1..n /\ From(k - 1) = k
      BY <1>3, <1>6, <2>2
    <3> QED BY <3>1
  <2> QED BY <2>1, <2>2
<1> HIDE DEF From
<1>7. Once(t)
  <2>1. ASSUME NEW k \in 1..n, NEW l \in 1..n, t[k] = t[l] PROVE k = l
    <3>1. s[From(k)] = s[From(l)] /\ From(k) \in 1..(n + 1) /\ From(l) \in 1..(n + 1)
      BY <1>4, <2>1
    <3>2. From(k) = From(l)
      BY <1>3, <3>1
    <3> QED BY <1>5, <3>2
  <2> QED BY <1>2, <2>1 DEF Once
<1>8. Lacks(t, s[i])
  <2>1. ASSUME NEW k \in 1..n PROVE t[k] # s[i]
    <3>1. From(k) # i /\ From(k) \in 1..(n + 1) /\ t[k] = s[From(k)]
      BY <1>4
    <3> QED BY <1>3, <3>1
  <2> QED BY <1>2, <2>1 DEF Lacks
<1>9. \A k \in 1..(n + 1) : s[k] = s[i] \/ \E l \in 1..n : t[l] = s[k]
  BY <1>4, <1>6
<1> QED BY <1>1, <1>2, <1>7, <1>8, <1>9

\* t is s with the row at i moved to k.
MovedTo(s, i, k, t) ==
  /\ Len(t) = Len(s) /\ Once(t)
  /\ \A m \in 1..Len(s) : \E l \in 1..Len(t) : t[l] = s[m]
  /\ k < i => \A l \in 1..Len(t) : t[l] = s[i] \/ \E m \in 1..Len(s) : m <= l /\ s[m] = t[l]

\* A row that is moved is taken out and put in again.
LEMMA MovedRow ==
  ASSUME NEW S, NEW s \in Seq(S), Once(s), NEW i \in 1..Len(s), NEW k \in 1..Len(s),
         NEW t, t = InsertAt(RemoveAt(s, i), k, s[i])
  PROVE  t \in Seq(S) /\ MovedTo(s, i, k, t)
<1> DEFINE r == RemoveAt(s, i)
<1>1. /\ r \in Seq(S) /\ Len(r) = Len(s) - 1 /\ Len(r) \in Nat /\ Len(s) \in Nat /\ Once(r)
      /\ Lacks(r, s[i])
      /\ \A m \in 1..Len(s) : s[m] = s[i] \/ \E l \in 1..Len(r) : r[l] = s[m]
      /\ \A l \in 1..Len(r) : r[l] = IF l < i THEN s[l] ELSE s[l + 1]
  BY RemovedRow
<1>2. t = InsertAt(r, k, s[i])
  OBVIOUS
<1> HIDE DEF r
<1>3. PICK n \in Nat : Len(r) = n /\ Len(s) = n + 1
  BY <1>1
<1>4. s[i] \in S /\ k \in 1..(Len(r) + 1) /\ i \in 1..(n + 1)
  BY <1>3, ElementOfSeq
<1>5. /\ t \in Seq(S) /\ Len(t) = Len(r) + 1 /\ Once(t)
      /\ \A l \in 1..Len(r) : \E m \in 1..Len(t) : t[m] = r[l]
      /\ \E l \in 1..Len(t) : t[l] = s[i]
      /\ \A l \in 1..Len(t) : \/ l = k /\ t[l] = s[i]
                              \/ l < k /\ l \in 1..Len(r) /\ t[l] = r[l]
                              \/ l > k /\ l - 1 \in 1..Len(r) /\ t[l] = r[l - 1]
  <2>1. Lacks(r, s[i])
    BY <1>1
  <2>2. r \in Seq(S) /\ Once(r)
    BY <1>1
  <2>3. PICK e \in S : e = s[i]
    BY <1>4
  <2>4. Lacks(r, e) /\ t = InsertAt(r, k, e) /\ k \in 1..(Len(r) + 1)
    BY <1>2, <1>4, <2>1, <2>3
  <2>5. t \in Seq(S) /\ PutIn(r, k, e, t)
    BY <2>2, <2>4, InsertedRow
  <2> QED BY <2>3, <2>5 DEF PutIn
<1>6. ASSUME NEW m \in 1..Len(s) PROVE \E l \in 1..Len(t) : t[l] = s[m]
  <2>1. s[m] = s[i] \/ \E l \in 1..Len(r) : r[l] = s[m]
    BY <1>1
  <2>2. CASE s[m] = s[i]
    BY <1>5, <2>2
  <2>3. CASE \E l \in 1..Len(r) : r[l] = s[m]
    BY <1>5, <2>3
  <2> QED BY <2>1, <2>2, <2>3
<1>7. ASSUME k < i, NEW l \in 1..(n + 1), t[l] # s[i] PROVE \E m \in 1..(n + 1) : m <= l /\ s[m] = t[l]
  <2>1. CASE l < k /\ l \in 1..n /\ t[l] = r[l]
    <3>1. l < i /\ l \in 1..(n + 1) /\ l <= l
      BY <1>4, <1>7, <2>1
    <3>2. r[l] = s[l]
      BY <1>1, <1>3, <2>1, <3>1
    <3> QED BY <2>1, <3>1, <3>2
  <2>2. CASE l > k /\ l - 1 \in 1..n /\ t[l] = r[l - 1]
    <3>1. CASE l - 1 < i
      <4>1. r[l - 1] = s[l - 1] /\ l - 1 <= l /\ l - 1 \in 1..(n + 1)
        BY <1>1, <1>3, <2>2, <3>1
      <4> QED BY <2>2, <4>1
    <3>2. CASE ~(l - 1 < i)
      <4>1. r[l - 1] = s[(l - 1) + 1] /\ (l - 1) + 1 = l /\ l <= l
        BY <1>1, <1>3, <2>2, <3>2
      <4> QED BY <2>2, <4>1
    <3> QED BY <3>1, <3>2
  <2> QED BY <1>3, <1>5, <1>7, <2>1, <2>2
<1> QED BY <1>3, <1>5, <1>6, <1>7 DEF MovedTo

\* The rows are there once each, and the reader's request is one.
RowsOK ==
  /\ rows \in 0..MaxRows
  /\ listed \in Seq(1..rows)
  /\ Once(listed)

ReaderOK ==
  /\ reader \in [page : Nat \ {0}, pages : Nat, found : (SUBSET (1..rows)) \cup {NotFound},
                 total : Nat \cup {-1}]
  /\ seen \subseteq 1..rows /\ begun \subseteq 1..rows /\ moved \subseteq 1..rows
  /\ slipped \in BOOLEAN

\* The rows the answers held, how far down the list they went, and who is still to come.
Answered == seen \cup (IF reader.found = NotFound THEN {} ELSE reader.found)
ReadTo == Skip(reader.page) + (IF reader.found = NotFound THEN 0 ELSE PageLimit)
ToCome == (begun \ moved) \ Answered

\* As long as no row has slipped past the reader, whoever is still to come is further
\* down the list than the reader has got, and the count that was read beside a page
\* says that there is a next one.
PagesInv ==
  /\ RowsOK /\ ReaderOK
  /\ ~slipped =>
       /\ \A r \in begun \ moved : \E i \in 1..Len(listed) : listed[i] = r
       /\ \A i \in 1..Len(listed) : listed[i] \in ToCome => i > ReadTo
       /\ reader.found = NotFound /\ reader.total # -1 => reader.total = Len(listed)
       /\ reader.found # NotFound /\ reader.total # -1 /\ ToCome # {} => reader.total > ReadTo
       /\ reader.found = NotFound /\ reader.page = 1 => begun = {}
       /\ PagesMissNothing

LEMMA PagesInvInit == PagingInit => PagesInv
<1> SUFFICES ASSUME PagingInit PROVE PagesInv
  OBVIOUS
<1>1. rows \in 0..MaxRows /\ rows \in Nat
  BY PagingAssumption DEF PagingInit
<1>2. listed = [i \in 1..rows |-> i] /\ listed \in [1..rows -> 1..rows]
  BY DEF PagingInit
<1>3. listed \in Seq(1..rows) /\ Len(listed) = rows
  <2>1. listed \in Seq(1..rows)
    BY <1>1, <1>2, SeqDef
  <2>2. 1..Len(listed) = 1..rows /\ Len(listed) \in Nat
    BY <1>2, <2>1, LenProperties
  <2>3. \A n, m \in Nat : 1..n = 1..m => n = m
    <3> SUFFICES ASSUME NEW n \in Nat, NEW m \in Nat, 1..n = 1..m PROVE n = m
      OBVIOUS
    <3>1. n > 0 => n \in 1..m
      OBVIOUS
    <3>2. m > 0 => m \in 1..n
      OBVIOUS
    <3> QED BY <3>1, <3>2
  <2> QED BY <1>1, <2>1, <2>2, <2>3
<1>4. RowsOK
  BY <1>1, <1>2, <1>3 DEF RowsOK, Once
<1>5. ReaderOK
  <2>1. reader = [page |-> 1, pages |-> 0, found |-> NotFound, total |-> -1]
    BY DEF PagingInit, Asking
  <2>2. 1 \in Nat \ {0} /\ 0 \in Nat /\ -1 \in Nat \cup {-1} /\ NotFound \in (SUBSET (1..rows)) \cup {NotFound}
    OBVIOUS
  <2>3. reader \in [page : Nat \ {0}, pages : Nat, found : (SUBSET (1..rows)) \cup {NotFound},
                   total : Nat \cup {-1}]
    BY <2>1, <2>2
  <2> QED BY <2>3 DEF PagingInit, ReaderOK
<1> QED BY <1>4, <1>5 DEF PagingInit, PagesInv, ToCome, Asking, PagesMissNothing

LEMMA ReadToInt == ASSUME ReaderOK PROVE Skip(reader.page) \in Nat /\ ReadTo \in Int
<1>1. reader.page - 1 \in Nat /\ PageLimit \in Nat
  BY PagingAssumption DEF ReaderOK
<1>2. \A a, b \in Nat : a * b \in Nat
  OBVIOUS
<1>3. Skip(reader.page) \in Nat
  BY <1>1, <1>2 DEF Skip
<1> QED BY <1>1, <1>3 DEF ReadTo

\* What happens to the list while nobody slips past the reader.
LEMMA ListMoves ==
  ASSUME PagesInv, ~slipped, ~Finished, RowsOK', ReaderOK', UNCHANGED <<reader, seen, begun>>,
         moved \subseteq moved',
         \A r \in begun \ moved', i \in 1..Len(listed) :
           listed[i] = r => \E k \in 1..Len(listed') : listed'[k] = r,
         \A i \in 1..Len(listed') : listed'[i] \in begun \ moved' =>
           \E k \in 1..Len(listed) : k <= i /\ listed[k] = listed'[i],
         ~Between \/ Len(listed') = Len(listed)
  PROVE  PagesInv'
<1>1. ToCome' \subseteq ToCome /\ ReadTo' = ReadTo /\ ToCome' \subseteq begun \ moved'
  BY DEF ToCome, Answered, ReadTo
<1>2. \A r \in (begun \ moved)' : \E i \in 1..Len(listed') : listed'[i] = r
  BY DEF PagesInv
<1>3. ASSUME NEW i \in 1..Len(listed'), listed'[i] \in ToCome' PROVE i > ReadTo'
  <2>1. PICK k \in 1..Len(listed) : k <= i /\ listed[k] = listed'[i]
    BY <1>1, <1>3
  <2>2. k > ReadTo
    BY <1>1, <1>3, <2>1 DEF PagesInv
  <2>4. ReadTo \in Int
    BY ReadToInt DEF PagesInv
  <2>3. Len(listed') \in Nat /\ Len(listed) \in Nat
    BY LenProperties DEF PagesInv, RowsOK
  <2> QED BY <1>1, <2>1, <2>2, <2>3, <2>4
<1>4. reader'.found = NotFound /\ reader'.total # -1 => reader'.total = Len(listed')
  BY DEF PagesInv, Between
<1>5. reader'.found # NotFound /\ reader'.total # -1 /\ ToCome' # {} => reader'.total > ReadTo'
  BY <1>1 DEF PagesInv
<1>6. reader'.found = NotFound /\ reader'.page = 1 => begun' = {}
  BY DEF PagesInv
<1>7. PagesMissNothing'
  BY DEF PagesMissNothing, Finished
<1> QED BY <1>2, <1>3, <1>4, <1>5, <1>6, <1>7 DEF PagesInv

\* A step that only changes the list, or lets somebody slip.
LEMMA ListStays ==
  ASSUME ReaderOK, rows' \in Nat, rows \in Nat, rows' >= rows, UNCHANGED <<reader, seen, begun>>,
         moved' \subseteq 1..rows', slipped' \in BOOLEAN
  PROVE  ReaderOK'
<1>1. \A i \in 1..rows : i \in 1..rows'
  OBVIOUS
<1> QED BY <1>1 DEF ReaderOK

LEMMA SlippedIsOut == ASSUME RowsOK, ReaderOK, slipped PROVE PagesInv
BY DEF PagesInv

\* A row that comes in, or back, is nobody the reader waits for.
LEMMA RowComes ==
  ASSUME PagesInv, ~slipped, ~Finished, UNCHANGED <<reader, seen, begun, moved>>, slipped' = Between,
         rows' \in 0..MaxRows, rows' >= rows, NEW e \in 1..rows', Lacks(listed, e),
         e \notin begun \ moved, NEW i \in 1..(Len(listed) + 1), listed' = InsertAt(listed, i, e)
  PROVE  PagesInv'
<1>1. rows \in Nat /\ rows' \in Nat /\ listed \in Seq(1..rows')
  <2>1. rows \in Nat /\ rows' \in Nat
    BY PagingAssumption DEF PagesInv, RowsOK
  <2>2. \A n \in 1..rows : n \in 1..rows'
    BY <2>1
  <2> QED BY <2>1, <2>2, SeqMonotonic DEF PagesInv, RowsOK
<1>2. listed' \in Seq(1..rows') /\ PutIn(listed, i, e, listed')
  <2>1. PICK S : S = 1..rows'
    OBVIOUS
  <2>2. PICK t : t = listed'
    OBVIOUS
  <2>3. listed \in Seq(S) /\ e \in S /\ t = InsertAt(listed, i, e) /\ Once(listed)
    BY <1>1, <2>1, <2>2 DEF PagesInv, RowsOK
  <2>4. t \in Seq(S) /\ PutIn(listed, i, e, t)
    BY <2>3, InsertedRow
  <2> QED BY <2>1, <2>2, <2>4
<1>3. RowsOK'
  BY <1>2 DEF RowsOK, PutIn, Once
<1>4. ReaderOK'
  <2>1. moved' \subseteq 1..rows' /\ slipped' \in BOOLEAN
    BY <1>1 DEF PagesInv, ReaderOK, Between
  <2> QED BY <1>1, <2>1, ListStays DEF PagesInv
<1>5. CASE slipped'
  BY <1>3, <1>4, <1>5 DEF PagesInv
<1>6. CASE ~slipped'
  <2>1. ~Between
    BY <1>6
  <2>2. \A r \in begun \ moved', k \in 1..Len(listed) :
           listed[k] = r => \E l \in 1..Len(listed') : listed'[l] = r
    BY <1>2 DEF PutIn
  <2>3. ASSUME NEW l \in 1..Len(listed'), listed'[l] \in begun \ moved'
        PROVE  \E k \in 1..Len(listed) : k <= l /\ listed[k] = listed'[l]
    <3>1. CASE l < i /\ l \in 1..Len(listed) /\ listed'[l] = listed[l]
      <4>1. l <= l
        OBVIOUS
      <4> QED BY <3>1, <4>1
    <3>2. CASE l > i /\ l - 1 \in 1..Len(listed) /\ listed'[l] = listed[l - 1]
      <4>1. l - 1 <= l
        OBVIOUS
      <4> QED BY <3>2, <4>1
    <3> QED BY <1>2, <2>3, <3>1, <3>2 DEF PutIn
  <2> QED BY <1>3, <1>4, <2>1, <2>2, <2>3, ListMoves
<1> QED BY <1>5, <1>6

LEMMA AddRowKeeps == ASSUME PagesInv, ~slipped, ~Finished, AddRow PROVE PagesInv'
<1>1. rows \in Nat /\ Len(listed) \in Nat /\ listed \in Seq(1..rows)
  BY PagingAssumption, LenProperties DEF PagesInv, RowsOK
<1>2. rows' \in 0..MaxRows /\ rows' >= rows /\ rows + 1 \in 1..rows' /\ rows + 1 \notin 1..rows
  BY <1>1, PagingAssumption DEF AddRow
<1>3. PICK i \in 1..(Len(listed) + 1) : listed' = InsertAt(listed, i, rows + 1)
  BY <1>1 DEF AddRow
<1>4. Lacks(listed, rows + 1)
  BY <1>1, <1>2, ElementOfSeq DEF Lacks
<1>5. rows + 1 \notin begun \ moved
  BY <1>2 DEF PagesInv, ReaderOK
<1>6. PICK e : e = rows + 1
  OBVIOUS
<1> QED BY <1>2, <1>3, <1>4, <1>5, <1>6, RowComes DEF AddRow

LEMMA ReturnKeeps == ASSUME PagesInv, ~slipped, ~Finished, ReturnToList PROVE PagesInv'
<1>1. rows \in Nat /\ rows' = rows /\ rows' \in 0..MaxRows
  BY PagingAssumption DEF PagesInv, RowsOK, ReturnToList
<1>2. PICK e \in (1..rows) \ ToSet(listed), i \in 1..(Len(listed) + 1) : listed' = InsertAt(listed, i, e)
  BY DEF ReturnToList
<1>3. DOMAIN listed = 1..Len(listed)
  BY LenProperties DEF PagesInv, RowsOK
<1>4. Lacks(listed, e)
  BY <1>2, <1>3 DEF Lacks, ToSet
<1>5. e \notin begun \ moved
  BY <1>4 DEF PagesInv, Lacks
<1> QED BY <1>1, <1>2, <1>4, <1>5, RowComes DEF ReturnToList

LEMMA NobodyAsked == ASSUME PagesInv, ~slipped, Unasked PROVE begun = {} /\ ~Between
<1>1. reader = [page |-> 1, pages |-> 0, found |-> NotFound, total |-> -1]
  BY DEF Unasked, Asking
<1>2. reader.page = 1 /\ reader.found = NotFound /\ reader.total = -1
  BY <1>1
<1> QED BY <1>2 DEF PagesInv, Between

\* A row that leaves.
LEMMA LeaveKeeps == ASSUME PagesInv, ~slipped, ~Finished, LeaveList PROVE PagesInv'
<1>1. /\ rows \in Nat /\ rows' = rows /\ listed \in Seq(1..rows) /\ Once(listed)
      /\ DOMAIN listed = 1..Len(listed)
  BY PagingAssumption, LenProperties DEF PagesInv, RowsOK, LeaveList
<1>2. PICK i \in 1..Len(listed) : listed' = RemoveAt(listed, i) /\ moved' = moved \cup {listed[i]}
  BY <1>1 DEF LeaveList
<1>3. listed' \in Seq(1..rows) /\ Once(listed')
  <2>1. PICK S : S = 1..rows
    OBVIOUS
  <2>2. PICK t : t = listed'
    OBVIOUS
  <2>3. t \in Seq(S) /\ Once(t)
    BY <1>1, <1>2, <2>1, <2>2, RemovedRow
  <2> QED BY <2>1, <2>2, <2>3
<1>4. RowsOK'
  BY <1>1, <1>3 DEF PagesInv, RowsOK, Once
<1>5. ReaderOK'
  <2>1. listed[i] \in 1..rows
    BY <1>1, ElementOfSeq
  <2>2. moved' \subseteq 1..rows' /\ slipped' \in BOOLEAN
    BY <1>1, <1>2, <2>1 DEF PagesInv, ReaderOK, LeaveList, Unasked
  <2> QED BY <1>1, <2>2, ListStays DEF PagesInv, LeaveList
<1>6. CASE slipped'
  BY <1>4, <1>5, <1>6 DEF PagesInv
<1>7. CASE ~slipped'
  <2>1. Unasked /\ begun = {} /\ ~Between
    BY <1>7, NobodyAsked DEF LeaveList
  <2> QED BY <1>2, <1>4, <1>5, <2>1, ListMoves DEF LeaveList
<1> QED BY <1>6, <1>7

\* A row that moves, forward or back.
LEMMA MoveIs ==
  ASSUME PagesInv, rows' = rows, NEW i \in 1..Len(listed), NEW k \in 1..Len(listed),
         listed' = InsertAt(RemoveAt(listed, i), k, listed[i]),
         moved' = moved \cup {listed[i]}, UNCHANGED <<reader, seen, begun>>, slipped' \in BOOLEAN
  PROVE  RowsOK' /\ ReaderOK' /\ MovedTo(listed, i, k, listed')
<1>1. rows \in Nat /\ listed \in Seq(1..rows) /\ Once(listed)
  BY PagingAssumption DEF PagesInv, RowsOK
<1>2. listed' \in Seq(1..rows) /\ MovedTo(listed, i, k, listed')
  <2>1. PICK S : S = 1..rows
    OBVIOUS
  <2>2. PICK t : t = listed'
    OBVIOUS
  <2>3. t \in Seq(S) /\ MovedTo(listed, i, k, t)
    BY <1>1, <2>1, <2>2, MovedRow
  <2> QED BY <2>1, <2>2, <2>3
<1>3. RowsOK'
  BY <1>1, <1>2 DEF PagesInv, RowsOK, MovedTo, Once
<1>4. ReaderOK'
  <2>1. listed[i] \in 1..rows
    BY <1>1, ElementOfSeq
  <2>2. moved' \subseteq 1..rows'
    BY <1>1, <2>1 DEF PagesInv, ReaderOK
  <2> QED BY <1>1, <2>2, ListStays DEF PagesInv
<1> QED BY <1>2, <1>3, <1>4

LEMMA ForwardKeeps == ASSUME PagesInv, ~slipped, ~Finished, MoveForward PROVE PagesInv'
<1>1. DOMAIN listed = 1..Len(listed) /\ Len(listed) \in Nat
  BY LenProperties DEF PagesInv, RowsOK
<1>2. PICK i \in 1..Len(listed), k \in Int :
        k \in 1..(i - 1) /\ listed' = InsertAt(RemoveAt(listed, i), k, listed[i]) /\ moved' = moved \cup {listed[i]}
  BY <1>1 DEF MoveForward
<1>3. k \in 1..Len(listed) /\ k < i
  BY <1>1, <1>2
<1>4. RowsOK' /\ ReaderOK' /\ MovedTo(listed, i, k, listed')
  <2>1. rows' = rows /\ UNCHANGED <<reader, seen, begun>> /\ slipped' \in BOOLEAN
    BY DEF MoveForward, PagesInv, ReaderOK
  <2> QED BY <1>2, <1>3, <2>1, MoveIs
<1>5. \A l \in 1..Len(listed') : listed'[l] \in begun \ moved' =>
           \E m \in 1..Len(listed) : m <= l /\ listed[m] = listed'[l]
  BY <1>2, <1>3, <1>4 DEF MovedTo
<1>6. \A r \in begun \ moved', m \in 1..Len(listed) :
           listed[m] = r => \E l \in 1..Len(listed') : listed'[l] = r
  BY <1>4 DEF MovedTo
<1>7. Len(listed') = Len(listed)
  BY <1>4 DEF MovedTo
<1> QED BY <1>2, <1>4, <1>5, <1>6, <1>7, ListMoves DEF MoveForward

LEMMA BackKeeps == ASSUME PagesInv, ~slipped, ~Finished, MoveBack PROVE PagesInv'
<1>1. DOMAIN listed = 1..Len(listed) /\ Len(listed) \in Nat
  BY LenProperties DEF PagesInv, RowsOK
<1>2. PICK i \in 1..Len(listed), k \in Int :
        k \in (i + 1)..Len(listed) /\ listed' = InsertAt(RemoveAt(listed, i), k, listed[i]) /\ moved' = moved \cup {listed[i]}
  BY <1>1 DEF MoveBack
<1>3. k \in 1..Len(listed) /\ slipped' \in BOOLEAN
  BY <1>1, <1>2 DEF MoveBack, Unasked
<1>4. RowsOK' /\ ReaderOK'
  BY <1>2, <1>3, MoveIs DEF MoveBack
<1>5. CASE slipped'
  BY <1>4, <1>5 DEF PagesInv
<1>6. CASE ~slipped'
  <2>1. Unasked /\ begun = {} /\ ~Between
    BY <1>6, NobodyAsked DEF MoveBack
  <2> QED BY <1>2, <1>4, <2>1, ListMoves DEF MoveBack
<1> QED BY <1>5, <1>6

\* The two reads of a page, and the next request.
LEMMA FindKeeps == ASSUME PagesInv, ~slipped, ~Finished, FindPage PROVE PagesInv'
<1>1. rows \in Nat /\ Len(listed) \in Nat /\ listed \in Seq(1..rows) /\ DOMAIN listed = 1..Len(listed)
  BY PagingAssumption, LenProperties DEF PagesInv, RowsOK
<1>2. Skip(reader.page) \in Nat /\ PageLimit \in Nat
  BY ReadToInt, PagingAssumption DEF PagesInv
<1>3. PageRows \subseteq 1..rows /\ ToSet(listed) \subseteq 1..rows
  BY <1>1, ElementOfSeq DEF PageRows, ToSet
<1>4. reader.found = NotFound /\ -1 \notin 1..rows
  BY <1>1 DEF FindPage
<1>5. PageRows # NotFound
  BY <1>3, <1>4 DEF NotFound
<1>6. /\ reader'.found = PageRows /\ reader'.page = reader.page /\ reader'.pages = reader.pages
      /\ reader'.total = reader.total
  BY DEF FindPage, PagesInv, ReaderOK
<1>7. RowsOK' /\ ReaderOK'
  <2>1. RowsOK'
    BY DEF FindPage, PagesInv, RowsOK
  <2>2. begun' \subseteq 1..rows' /\ moved' \subseteq 1..rows' /\ rows' = rows
    BY <1>3 DEF FindPage, PagesInv, ReaderOK
  <2> QED BY <1>3, <2>1, <2>2 DEF FindPage, PagesInv, ReaderOK
<1>8. Answered' = seen \cup PageRows /\ ReadTo' = Skip(reader.page) + PageLimit
  BY <1>5, <1>6 DEF Answered, ReadTo, Skip, FindPage
<1>9. \A r \in (begun \ moved)' : \E i \in 1..Len(listed) : listed[i] = r
  <2>1. CASE Fresh
    BY <1>1, <2>1 DEF FindPage, ToSet
  <2>2. CASE ~Fresh
    BY <2>2 DEF FindPage, PagesInv
  <2> QED BY <2>1, <2>2
<1>10. ASSUME NEW i \in 1..Len(listed), listed[i] \in ToCome' PROVE i > ReadTo'
  <2>1. listed[i] \in (begun \ moved)' /\ listed[i] \notin seen /\ listed[i] \notin PageRows
    BY <1>8, <1>10 DEF ToCome
  <2>2. ~(i \in (Skip(reader.page) + 1)..(Skip(reader.page) + PageLimit))
    BY <1>1, <2>1 DEF PageRows
  <2>3. i > Skip(reader.page)
    <3>1. CASE Fresh
      <4>1. Skip(reader.page) = 0
        BY <1>2, <3>1 DEF Fresh, Skip
      <4> QED BY <4>1
    <3>2. CASE ~Fresh
      <4>1. begun' = begun /\ moved' = moved
        BY <3>2 DEF FindPage
      <4>2. listed[i] \in ToCome
        BY <1>4, <2>1, <4>1 DEF ToCome, Answered
      <4>3. i > ReadTo
        BY <4>2 DEF PagesInv
      <4> QED BY <1>2, <1>4, <4>3 DEF ReadTo
    <3> QED BY <3>1, <3>2
  <2> QED BY <1>1, <1>2, <1>8, <2>2, <2>3
<1>11. reader'.total # -1 /\ ToCome' # {} => reader'.total > ReadTo'
  <2> SUFFICES ASSUME reader.total # -1, NEW r \in ToCome' PROVE reader.total > ReadTo'
    BY <1>6
  <2>1. PICK i \in 1..Len(listed) : listed[i] = r
    BY <1>9 DEF ToCome
  <2>2. i > ReadTo' /\ reader.total = Len(listed)
    BY <1>4, <1>10, <2>1 DEF PagesInv
  <2> QED BY <1>1, <1>2, <1>8, <2>2
<1>12. listed' = listed
  BY DEF FindPage
<1>13. ~Finished'
  BY <1>6 DEF Finished
<1>14. PagesMissNothing'
  BY <1>13 DEF PagesMissNothing
<1> QED BY <1>5, <1>6, <1>7, <1>9, <1>10, <1>11, <1>12, <1>14 DEF PagesInv

LEMMA CountKeeps == ASSUME PagesInv, ~slipped, ~Finished, CountRows PROVE PagesInv'
<1>1. /\ reader'.found = reader.found /\ reader'.page = reader.page /\ reader'.pages = reader.pages
      /\ reader'.total = Len(listed) /\ Len(listed) \in Nat
  BY LenProperties DEF CountRows, PagesInv, ReaderOK, RowsOK
<1>2. RowsOK' /\ ReaderOK'
  <2>1. RowsOK'
    BY DEF CountRows, PagesInv, RowsOK
  <2> QED BY <1>1, <2>1 DEF CountRows, PagesInv, ReaderOK
<1>3. ToCome' = ToCome /\ ReadTo' = ReadTo /\ listed' = listed /\ begun' = begun /\ moved' = moved
  BY <1>1 DEF ToCome, Answered, ReadTo, Skip, CountRows
<1>4. ASSUME ToCome # {} PROVE Len(listed) > ReadTo
  <2>1. PICK r \in ToCome : TRUE
    BY <1>4
  <2>2. PICK i \in 1..Len(listed) : listed[i] = r
    BY <2>1 DEF CountRows, PagesInv, ToCome
  <2>3. i > ReadTo /\ ReadTo \in Int
    BY <2>1, <2>2, ReadToInt DEF CountRows, PagesInv
  <2> QED BY <1>1, <2>3
<1>5. PagesMissNothing'
  BY <1>1 DEF PagesMissNothing, Finished
<1>6. ~slipped'
  BY DEF CountRows
<1>7. /\ \A r \in begun \ moved : \E i \in 1..Len(listed) : listed[i] = r
      /\ \A i \in 1..Len(listed) : listed[i] \in ToCome => i > ReadTo
      /\ reader.found = NotFound /\ reader.page = 1 => begun = {}
  BY DEF PagesInv
<1> QED BY <1>1, <1>2, <1>3, <1>4, <1>5, <1>7 DEF PagesInv

\* Who counts more rows than the pages so far hold is told of one more page.
LEMMA OneMorePage ==
  ASSUME NEW page \in Nat, NEW limit \in Nat \ {0}, NEW total \in Nat, total > page * limit
  PROVE  (total + limit - 1) \div limit >= page + 1
<1> DEFINE n == total + limit - 1
           q == n \div limit
<1>1. n \in Nat
  OBVIOUS
<1>2. q \in Int /\ limit * q <= n /\ n < limit * q + limit
  BY <1>1
<1>3. n >= page * limit + limit
  OBVIOUS
<1> HIDE DEF n, q
<1>4. CASE q <= page
  <2>1. limit * q <= limit * page
    BY <1>2, <1>4
  <2> QED BY <1>1, <1>2, <1>3, <2>1
<1> QED BY <1>2, <1>4 DEF n, q

LEMMA PaginateKeeps == ASSUME PagesInv, ~slipped, ~Finished, Paginate PROVE PagesInv'
<1>1. reader' = [page |-> reader.page + 1, pages |-> Pages(reader.total), found |-> NotFound, total |-> -1]
  BY DEF Paginate, Asking
<1>2. /\ reader.page \in Nat \ {0} /\ reader.total \in Nat /\ PageLimit \in Nat \ {0}
      /\ reader.found # NotFound /\ reader.total # -1 /\ reader.found \subseteq 1..rows
  BY PagingAssumption DEF Paginate, PagesInv, ReaderOK
<1>3. Pages(reader.total) \in Nat
  <2>1. reader.total + PageLimit - 1 \in Nat
    BY <1>2
  <2>2. (reader.total + PageLimit - 1) \div PageLimit \in Nat
    BY <1>2, <2>1
  <2> QED BY <2>2 DEF Pages
<1>4. RowsOK'
  BY DEF Paginate, PagesInv, RowsOK
<1>5. ReaderOK'
  <2>1. reader.page + 1 \in Nat \ {0} /\ -1 \in Nat \cup {-1}
    BY <1>2
  <2>2. reader' \in [page : Nat \ {0}, pages : Nat, found : (SUBSET (1..rows)) \cup {NotFound},
                     total : Nat \cup {-1}]
    BY <1>1, <1>3, <2>1
  <2> QED BY <1>2, <2>2 DEF Paginate, PagesInv, ReaderOK
<1>6. Skip(reader.page + 1) = Skip(reader.page) + PageLimit /\ Skip(reader.page) \in Nat
      /\ Skip(reader.page + 1) = reader.page * PageLimit
  <2>1. Skip(reader.page) \in Nat
    BY ReadToInt DEF PagesInv
  <2>2. \A a, b \in Nat : (a + 1 - 1) * b = (a - 1) * b + b /\ (a + 1 - 1) * b = a * b
    OBVIOUS
  <2> QED BY <1>2, <2>1, <2>2 DEF Skip
<1>7. /\ reader'.found = NotFound /\ reader'.page = reader.page + 1
      /\ reader'.pages = Pages(reader.total) /\ reader'.total = -1
  BY <1>1
<1>8. Answered' = Answered
  BY <1>2, <1>7 DEF Answered, Paginate
<1>9. ReadTo' = ReadTo + 0 /\ ReadTo = reader.page * PageLimit
  <2>1. ReadTo' = Skip(reader.page + 1) + 0
    BY <1>7 DEF ReadTo, Skip
  <2>2. ReadTo = Skip(reader.page) + PageLimit
    BY <1>2 DEF ReadTo
  <2> QED BY <1>2, <1>6, <2>1, <2>2
<1>10. ToCome' = ToCome /\ listed' = listed /\ begun' = begun /\ moved' = moved /\ ReadTo' = ReadTo
  <2>1. ReadTo \in Int
    BY ReadToInt DEF PagesInv
  <2> QED BY <1>8, <1>9, <2>1 DEF ToCome, Paginate
<1>11. PagesMissNothing'
  <2> SUFFICES ASSUME Finished', ToCome # {} PROVE FALSE
    BY <1>7, <1>8, <1>10 DEF PagesMissNothing, ToCome, Answered
  <2>1. reader.total > reader.page * PageLimit
    BY <1>2, <1>9 DEF PagesInv
  <2>2. (reader.total + PageLimit - 1) \div PageLimit >= reader.page + 1
    BY <1>2, <2>1, OneMorePage
  <2>3. reader.total # 0
    BY <1>2, <1>6, <2>1
  <2>4. Pages(reader.total) >= reader.page + 1
    BY <2>2, <2>3 DEF Pages
  <2>5. reader.page + 1 > Pages(reader.total)
    BY <1>7 DEF Finished
  <2> QED BY <1>2, <1>3, <2>4, <2>5
<1>12. reader'.page # 1
  BY <1>2, <1>7
<1>13. /\ \A r \in begun \ moved : \E i \in 1..Len(listed) : listed[i] = r
       /\ \A i \in 1..Len(listed) : listed[i] \in ToCome => i > ReadTo
  BY DEF PagesInv
<1> QED BY <1>4, <1>5, <1>7, <1>10, <1>11, <1>12, <1>13 DEF PagesInv

LEMMA PagesInvNext == PagesInv /\ [PagingNext]_pagingVars => PagesInv'
<1>1. CASE UNCHANGED pagingVars
  BY <1>1 DEF PagesInv, RowsOK, Once, ReaderOK, ToCome, Answered, ReadTo, Skip, PagesMissNothing,
              Finished, pagingVars
<1>2. ASSUME PagesInv, PagingNext PROVE PagesInv'
  BY <1>2, FindKeeps, CountKeeps, PaginateKeeps, AddRowKeeps, LeaveKeeps, ReturnKeeps,
     ForwardKeeps, BackKeeps DEF PagingNext
<1> QED BY <1>1, <1>2

\* An answer never promises more pages than there can be rows.
LEMMA PagesAreFew ==
  ASSUME NEW total \in Nat, NEW max \in Nat \ {0}, total <= max
  PROVE  Pages(total) \in 1..max
<1>1. CASE total = 0
  BY <1>1 DEF Pages
<1>2. CASE total # 0
  <2> DEFINE n == total + PageLimit - 1
             q == n \div PageLimit
  <2>1. PageLimit \in Nat /\ PageLimit > 0 /\ n \in Nat /\ n >= PageLimit
    BY <1>2, PagingAssumption
  <2>2. q \in Int /\ PageLimit * q <= n /\ n < PageLimit * q + PageLimit
    BY <2>1
  <2>3. n = total + PageLimit - 1 /\ Pages(total) = q
    BY <1>2 DEF Pages
  <2> HIDE DEF n, q
  <2>4. q >= 1
    <3> SUFFICES ASSUME q <= 0 PROVE FALSE
      BY <2>2
    <3>1. PageLimit * q <= 0
      BY <2>1, <2>2
    <3>2. PageLimit * q \in Int
      BY <2>1, <2>2
    <3> QED BY <2>1, <2>2, <3>1, <3>2
  <2>5. q <= total
    <3> SUFFICES ASSUME q >= total + 1 PROVE FALSE
      BY <2>2
    <3>1. \A a \in Nat, b, c \in Int : b >= c => a * b >= a * c
      OBVIOUS
    <3>2. PageLimit * q >= PageLimit * (total + 1)
      BY <2>1, <2>2, <3>1
    <3>3. \A a, b \in Nat : a > 0 => a * (b + 1) >= b + a
      <4> SUFFICES ASSUME NEW a \in Nat, NEW b \in Nat, a > 0 PROVE a * (b + 1) >= b + a
        OBVIOUS
      <4>1. a * (b + 1) = a * b + a /\ a * b \in Nat
        OBVIOUS
      <4>2. a * b >= b
        <5>1. \A k \in Nat : (k + 1) * b = k * b + b /\ k * b \in Nat
          OBVIOUS
        <5>2. a - 1 \in Nat /\ (a - 1) + 1 = a
          OBVIOUS
        <5> QED BY <5>1, <5>2
      <4> QED BY <4>1, <4>2
    <3>4. PageLimit * (total + 1) >= total + PageLimit
      BY <2>1, <3>3
    <3>5. PageLimit * q \in Int /\ PageLimit * (total + 1) \in Int
      BY <2>1, <2>2
    <3> QED BY <2>1, <2>2, <2>3, <3>2, <3>4, <3>5
  <2> QED BY <2>2, <2>3, <2>4, <2>5
<1> QED BY <1>1, <1>2

\* A list without repetitions is as long as it has rows.
LEMMA ListedOnce ==
  ASSUME RowsOK
  PROVE  /\ ToSet(listed) \subseteq 1..rows /\ Cardinality(ToSet(listed)) = Len(listed)
         /\ Len(listed) <= rows
<1>1. PICK s \in Seq(1..rows) : s = listed
  BY DEF RowsOK
<1>2. Len(s) \in Nat /\ DOMAIN s = 1..Len(s) /\ s = [i \in 1..Len(s) |-> s[i]]
      /\ \A i \in 1..Len(s) : s[i] \in 1..rows
  BY LenProperties, ElementOfSeq
<1>3. PICK D : D = 1..Len(s)
  OBVIOUS
<1>4. PICK T : T = {s[i] : i \in D}
  OBVIOUS
<1>5. \A i, j \in D : s[i] = s[j] => i = j
  BY <1>1, <1>3 DEF RowsOK, Once
<1>6. rows \in Nat
  BY <1>2, PagingAssumption DEF RowsOK
<1>7. IsFiniteSet(D) /\ Cardinality(D) = Len(s) /\ IsFiniteSet(1..rows) /\ Cardinality(1..rows) = rows
  BY <1>2, <1>3, <1>6, CountTo
<1>8. Cardinality(T) = Cardinality(D)
  BY <1>2, <1>3, <1>4, <1>5, <1>7, SizeOfImage
<1>9. T \in SUBSET (1..rows)
  BY <1>2, <1>3, <1>4
<1>10. Cardinality(T) <= rows
  BY <1>7, <1>9, FS_Subset
<1>11. ToSet(listed) = T
  BY <1>1, <1>2, <1>3, <1>4 DEF ToSet
<1> QED BY <1>1, <1>2, <1>6, <1>7, <1>8, <1>9, <1>10, <1>11

\* Besides PagesInv: no answer counts more rows than there are, nor promises more pages.
PagesTyped ==
  /\ PagesInv
  /\ nature \in Natures
  /\ MaxRows >= 1
  /\ reader.total <= rows
  /\ reader.pages <= MaxRows /\ reader.page <= MaxRows + 1
  /\ reader.pages = 0 => reader.page = 1

LEMMA PagesTypedInit == PagingInit => PagesTyped
<1> SUFFICES ASSUME PagingInit PROVE PagesTyped
  OBVIOUS
<1>1. reader.page = 1 /\ reader.pages = 0 /\ reader.total = -1
  BY DEF PagingInit, Asking
<1>2. rows \in Nat /\ MaxRows >= 1 /\ MaxRows \in Nat
  BY PagingAssumption DEF PagingInit
<1> QED BY <1>1, <1>2, PagesInvInit DEF PagingInit, PagesTyped

LEMMA PagesTypedNext == PagesTyped /\ [PagingNext]_pagingVars => PagesTyped'
<1> SUFFICES ASSUME PagesTyped, [PagingNext]_pagingVars PROVE PagesTyped'
  OBVIOUS
<1>1. PagesInv' /\ RowsOK /\ RowsOK' /\ ReaderOK
  BY PagesInvNext DEF PagesTyped, PagesInv
<1>2. /\ rows \in Nat /\ rows <= MaxRows /\ MaxRows \in Nat
      /\ reader.page \in Nat \ {0} /\ reader.pages \in Nat /\ reader.total \in Nat \cup {-1}
  BY <1>1, PagingAssumption DEF RowsOK, ReaderOK
<1>3. CASE UNCHANGED <<nature, reader>> /\ rows' \in Nat /\ rows' >= rows
  BY <1>1, <1>2, <1>3 DEF PagesTyped
<1>4. CASE FindPage
  <2>1. /\ reader'.page = reader.page /\ reader'.pages = reader.pages /\ reader'.total = reader.total
        /\ UNCHANGED <<nature, rows>>
    BY <1>1, <1>4 DEF FindPage, ReaderOK
  <2> QED BY <1>1, <2>1 DEF PagesTyped
<1>5. CASE CountRows
  <2>1. /\ reader'.page = reader.page /\ reader'.pages = reader.pages /\ reader'.total = Len(listed)
        /\ UNCHANGED <<nature, rows>>
    BY <1>1, <1>5 DEF CountRows, ReaderOK
  <2>2. Len(listed) <= rows
    BY <1>1, ListedOnce
  <2> QED BY <1>1, <2>1, <2>2 DEF PagesTyped
<1>6. CASE Paginate /\ ~Finished
  <2>1. /\ reader'.page = reader.page + 1 /\ reader'.pages = Pages(reader.total) /\ reader'.total = -1
        /\ reader.total \in Nat /\ UNCHANGED <<nature, rows>>
    BY <1>2, <1>6 DEF Paginate, Asking
  <2>2. reader.total <= MaxRows /\ MaxRows \in Nat \ {0}
    BY <1>2, <2>1 DEF PagesTyped
  <2>3. Pages(reader.total) \in 1..MaxRows
    BY <2>1, <2>2, PagesAreFew
  <2>4. reader.page <= MaxRows
    BY <1>2, <1>6, <2>2 DEF PagesTyped, Finished
  <2> QED BY <1>1, <1>2, <2>1, <2>2, <2>3, <2>4 DEF PagesTyped
<1>7. CASE PagingNext
  <2>1. FindPage \/ CountRows \/ (Paginate /\ ~Finished) \/ AddRow
        \/ LeaveList \/ ReturnToList \/ MoveForward \/ MoveBack
    BY <1>7 DEF PagingNext
  <2>2. AddRow => UNCHANGED <<nature, reader>> /\ rows' \in Nat /\ rows' >= rows
    BY <1>2 DEF AddRow
  <2>3. LeaveList \/ ReturnToList \/ MoveForward \/ MoveBack
        => UNCHANGED <<nature, reader>> /\ rows' \in Nat /\ rows' >= rows
    BY <1>2 DEF LeaveList, ReturnToList, MoveForward, MoveBack
  <2> QED BY <1>3, <1>4, <1>5, <1>6, <2>1, <2>2, <2>3
<1>8. CASE UNCHANGED pagingVars
  BY <1>2, <1>3, <1>8 DEF pagingVars
<1> QED BY <1>7, <1>8

LEMMA PagesTypedIsType == PagesTyped => PagingTypeOK
<1> SUFFICES ASSUME PagesTyped PROVE PagingTypeOK
  OBVIOUS
<1>1. RowsOK /\ ReaderOK
  BY DEF PagesTyped, PagesInv
<1>2. /\ rows \in Nat /\ rows <= MaxRows /\ MaxRows \in Nat
      /\ reader.page \in Nat \ {0} /\ reader.pages \in Nat /\ reader.total \in Nat \cup {-1}
      /\ reader.found \in (SUBSET (1..rows)) \cup {NotFound}
  BY <1>1, PagingAssumption DEF RowsOK, ReaderOK
<1>3. reader.page \in 1..(MaxRows + 1) /\ reader.pages \in 0..(MaxRows + 1) /\ reader.total \in -1..rows
  BY <1>2 DEF PagesTyped
<1> QED BY <1>1, <1>2, <1>3, ListedOnce DEF PagingTypeOK, PagesTyped, RowsOK, ReaderOK

-----------------------------------------------------------------------------
(* The dashboard.  Midnights: the day d begins at DayStart(d), whatever    *)
(* the offset, and every moment lies in the day that DayKey says.          *)

DayStart(d) == d * DayLength - Offset

StatsInv ==
  /\ StatsTypeOK
  /\ \A j \in DashboardJobs : jobs[j].refunded # Never => jobs[j].accepted # Never

LEMMA StatsInvInit == StatsInit => StatsInv
<1> SUFFICES ASSUME StatsInit PROVE StatsInv
  OBVIOUS
<1>1. Never \in Moments /\ 0 \in Times
  BY StatsAssumption DEF Moments, Times
<1>2. jobs \in [DashboardJobs -> [posted : Moments, accepted : Moments, completed : Moments,
                                  refunded : Moments, status : JobStatuses]]
  BY <1>1 DEF StatsInit, JobStatuses
<1>3. topUps \in [DashboardTopUps -> [started : Moments, status : TopUpStatuses]]
  BY <1>1 DEF StatsInit, TopUpStatuses
<1>4. \A j \in DashboardJobs : jobs[j].refunded = Never
  BY DEF StatsInit
<1> QED BY <1>1, <1>2, <1>3, <1>4 DEF StatsInit, StatsInv, StatsTypeOK

LEMMA StatsInvNext == StatsInv /\ [StatsNext]_statsVars => StatsInv'
<1> SUFFICES ASSUME StatsInv, [StatsNext]_statsVars PROVE StatsInv'
  OBVIOUS
<1>1. clock \in Times /\ clock \in Moments /\ Times \subseteq Moments /\ asked \in Moments
  BY DEF StatsInv, StatsTypeOK, Moments
<1> DEFINE Job == [posted : Moments, accepted : Moments, completed : Moments,
                   refunded : Moments, status : JobStatuses]
<1>2. ASSUME NEW j \in DashboardJobs, NEW fields \in Job, ChangeJob(j, fields),
             fields.refunded # Never => fields.accepted # Never
      PROVE  StatsInv'
  BY <1>2 DEF ChangeJob, StatsInv, StatsTypeOK
<1>3. CASE UNCHANGED statsVars
  BY <1>3 DEF statsVars, StatsInv, StatsTypeOK
<1>4. ASSUME NEW j \in DashboardJobs, PostJob(j) PROVE StatsInv'
  <2>1. [jobs[j] EXCEPT !.posted = clock] \in Job
    BY <1>1 DEF StatsInv, StatsTypeOK
  <2> QED BY <1>2, <1>4, <2>1 DEF PostJob, StatsInv, StatsTypeOK
<1>5. ASSUME NEW j \in DashboardJobs, ChargeJob(j) PROVE StatsInv'
  <2>1. [jobs[j] EXCEPT !.accepted = clock, !.status = "accepted"] \in Job
    BY <1>1 DEF StatsInv, StatsTypeOK, JobStatuses
  <2>2. clock # Never
    BY <1>1, StatsAssumption DEF Times, Never
  <2> QED BY <1>2, <1>5, <2>1, <2>2 DEF ChargeJob, StatsInv, StatsTypeOK
<1>6. ASSUME NEW j \in DashboardJobs, FinishJob(j) PROVE StatsInv'
  <2>1. [jobs[j] EXCEPT !.completed = clock, !.status = "done"] \in Job
    BY <1>1 DEF StatsInv, StatsTypeOK, JobStatuses
  <2> QED BY <1>2, <1>6, <2>1 DEF FinishJob, StatsInv, StatsTypeOK
<1>7. ASSUME NEW j \in DashboardJobs, CallOffJob(j) PROVE StatsInv'
  <2>1. [jobs[j] EXCEPT !.status = "cancelled"] \in Job
    BY <1>1 DEF StatsInv, StatsTypeOK, JobStatuses
  <2> QED BY <1>2, <1>7, <2>1 DEF CallOffJob, StatsInv, StatsTypeOK
<1>8. ASSUME NEW j \in DashboardJobs, RefundJob(j) PROVE StatsInv'
  <2>1. [jobs[j] EXCEPT !.refunded = clock] \in Job
    BY <1>1 DEF StatsInv, StatsTypeOK
  <2> QED BY <1>2, <1>8, <2>1 DEF RefundJob, StatsInv, StatsTypeOK
<1>9. ASSUME NEW t \in DashboardTopUps, OpenTopUp(t) \/ CloseTopUp(t) PROVE StatsInv'
  <2>1. topUps' \in [DashboardTopUps -> [started : Moments, status : TopUpStatuses]]
    BY <1>1, <1>9 DEF OpenTopUp, CloseTopUp, StatsInv, StatsTypeOK, TopUpStatuses
  <2> QED BY <1>9, <2>1 DEF OpenTopUp, CloseTopUp, StatsInv, StatsTypeOK
<1>10. CASE AskStats
  BY <1>1, <1>10 DEF AskStats, StatsInv, StatsTypeOK
<1>11. CASE TimePasses
  <2>1. clock + 1 \in Times
    BY <1>1, <1>11, StatsAssumption DEF TimePasses, Times
  <2> QED BY <1>11, <2>1 DEF TimePasses, StatsInv, StatsTypeOK
<1> QED BY <1>3, <1>4, <1>5, <1>6, <1>7, <1>8, <1>9, <1>10, <1>11 DEF StatsNext

\* Days follow each other.
LEMMA DayStarts ==
  ASSUME NEW d \in Int, NEW e \in Int
  PROVE  /\ DayStart(d) \in Int /\ DayStart(d + 1) = DayStart(d) + DayLength
         /\ d <= e => DayStart(d) <= DayStart(e)
         /\ DayStart(d - e) = DayStart(d) - e * DayLength
<1>1. DayLength \in Nat \ {0} /\ Offset \in Nat
  BY StatsAssumption
<1>2. \A n, m, k \in Int : n * k \in Int /\ (n + 1) * k = n * k + k /\ (n - m) * k = n * k - m * k
  OBVIOUS
<1>3. ASSUME NEW n \in Int, NEW m \in Int, n <= m, NEW k \in Nat PROVE n * k <= m * k
  <2>1. PICK a \in Nat : m = n + a
    BY <1>3
  <2>2. a * k \in Nat /\ (n + a) * k = n * k + a * k /\ n * k \in Int
    OBVIOUS
  <2> QED BY <2>1, <2>2
<1> QED BY <1>1, <1>2, <1>3 DEF DayStart

LEMMA DayInt == \A d \in Int : d + 1 \in Int /\ DayStart(d) \in Int /\ DayStart(d + 1) \in Int
<1> SUFFICES ASSUME NEW d \in Int PROVE d + 1 \in Int /\ DayStart(d) \in Int /\ DayStart(d + 1) \in Int
  OBVIOUS
<1>1. d + 1 \in Int
  OBVIOUS
<1>2. DayStart(d) \in Int
  BY DayStarts
<1>3. DayStart(d + 1) \in Int
  BY <1>1, DayStarts
<1> QED BY <1>1, <1>2, <1>3

LEMMA Divided ==
  ASSUME NEW n \in Int, NEW m \in Nat \ {0}
  PROVE  n \div m \in Int /\ (n \div m) * m <= n /\ n < (n \div m) * m + m
OBVIOUS

\* A day is known by any of its moments.
LEMMA OneDay ==
  ASSUME NEW d \in Int, NEW e \in Int, NEW t \in Int,
         DayStart(d) <= t, t < DayStart(d + 1), DayStart(e) <= t, t < DayStart(e + 1)
  PROVE  d = e
<1>1. d + 1 <= e => DayStart(d + 1) <= DayStart(e)
  BY DayStarts
<1>2. e + 1 <= d => DayStart(e + 1) <= DayStart(d)
  BY DayStarts
<1>3. DayStart(d) \in Int /\ DayStart(e) \in Int /\ DayStart(d + 1) \in Int /\ DayStart(e + 1) \in Int
  BY DayStarts
<1>4. ~(d + 1 <= e) /\ ~(e + 1 <= d)
  BY <1>1, <1>2, <1>3
<1> QED BY <1>4

LEMMA DayOf ==
  ASSUME NEW t \in Int
  PROVE  DayKey(t) \in Int /\ DayStart(DayKey(t)) <= t /\ t < DayStart(DayKey(t) + 1)
<1>1. t + Offset \in Int /\ DayLength \in Nat \ {0} /\ Offset \in Int
  BY StatsAssumption
<1>2. PICK q : q = (t + Offset) \div DayLength
  OBVIOUS
<1>3. q \in Int /\ q * DayLength <= t + Offset /\ t + Offset < q * DayLength + DayLength
  BY <1>1, <1>2, Divided
<1>4. q * DayLength \in Int /\ DayStart(q) = q * DayLength - Offset
      /\ DayStart(q + 1) = DayStart(q) + DayLength
  BY <1>1, <1>3, DayStarts DEF DayStart
<1> QED BY <1>1, <1>2, <1>3, <1>4 DEF DayKey

\* The day MongoDB finds for a moment is the one the charts name.
LEMMA DaysAgree ==
  ASSUME NEW t \in Times
  PROVE  ByDay(t) = DayKey(t)
<1>1. t \in Int /\ MaxClock \in Nat /\ DayLength \in Nat \ {0} /\ Offset \in 0..DayLength /\ t \in 0..MaxClock
  BY StatsAssumption DEF Times
<1>2. PICK d \in Int : d = DayKey(t) /\ DayStart(d) <= t /\ t < DayStart(d + 1)
  BY <1>1, DayOf
<1>3. d \in 0..(MaxClock + DayLength)
  <2>1. d * DayLength - Offset <= t /\ t < d * DayLength - Offset + DayLength /\ d * DayLength \in Int
    BY <1>1, <1>2, DayStarts DEF DayStart
  <2>2. d >= 0
    <3>1. CASE d <= -1
      <4>1. d * DayLength <= -DayLength
        BY <1>1, <3>1
      <4> QED BY <1>1, <2>1, <4>1
    <3> QED BY <3>1
  <2>3. d <= d * DayLength
    BY <1>1, <2>2
  <2> QED BY <1>1, <2>1, <2>2, <2>3
<1>4. \A e \in 0..(MaxClock + DayLength) :
        e * DayLength - Offset <= t /\ t < (e + 1) * DayLength - Offset <=> e = d
  <2> SUFFICES ASSUME NEW e \in 0..(MaxClock + DayLength)
               PROVE  DayStart(e) <= t /\ t < DayStart(e + 1) <=> e = d
    BY DEF DayStart
  <2> QED BY <1>1, <1>2, OneDay
<1> QED BY <1>2, <1>3, <1>4 DEF ByDay

\* What a job brought in and took out between two moments, or since one.
AcceptedIn(M) == {j \in DashboardJobs : jobs[j].accepted \in M}
RefundedIn(M) == {j \in DashboardJobs : jobs[j].refunded \in M}
KeptIn(M) == JobFee * (Cardinality(AcceptedIn(M)) - Cardinality(RefundedIn(M)))
Later(start) == {t \in Times : t >= start}

LEMMA JobSets ==
  ASSUME NEW M
  PROVE  /\ IsFiniteSet(AcceptedIn(M)) /\ Cardinality(AcceptedIn(M)) \in Nat
         /\ IsFiniteSet(RefundedIn(M)) /\ Cardinality(RefundedIn(M)) \in Nat
         /\ KeptIn(M) \in Int
<1>1. IsFiniteSet(AcceptedIn(M)) /\ IsFiniteSet(RefundedIn(M))
  BY StatsAssumption, FS_Subset DEF AcceptedIn, RefundedIn
<1>2. Cardinality(AcceptedIn(M)) \in Nat /\ Cardinality(RefundedIn(M)) \in Nat
  BY <1>1, FS_CardinalityType
<1>3. \A a, b \in Nat, c \in Int : c * (a - b) \in Int
  OBVIOUS
<1> QED BY <1>1, <1>2, <1>3, StatsAssumption DEF KeptIn

\* The records of the fees and of the refunds, one for each job they are about.
LEMMA FeeRecords ==
  ASSUME StatsInv, NEW M \in SUBSET Times, NEW R, R = {r \in Settled("order_fee") : r.at \in M}
  PROVE  /\ IsFiniteSet(R) /\ Cardinality(R) = Cardinality(AcceptedIn(M))
         /\ \A r \in R : r.amount = -JobFee
<1> DEFINE f == [j \in AcceptedIn(M) |-> Record(j, "order_fee", "success", -JobFee, jobs[j].accepted)]
<1>1. Never \notin M
  BY StatsAssumption DEF Times, Never
<1>2. R = {f[j] : j \in AcceptedIn(M)}
  <2>1. ASSUME NEW r \in R PROVE r \in {f[j] : j \in AcceptedIn(M)}
    <3>1. r \in Transactions /\ r.type = "order_fee" /\ r.at \in M
      BY <2>1 DEF Settled
    <3>2. PICK j \in DashboardJobs :
            jobs[j].accepted # Never /\ r = Record(j, "order_fee", "success", -JobFee, jobs[j].accepted)
      BY <3>1 DEF Transactions, Record
    <3>3. j \in AcceptedIn(M)
      BY <3>1, <3>2 DEF Record, AcceptedIn
    <3> QED BY <3>2, <3>3
  <2>2. ASSUME NEW j \in AcceptedIn(M) PROVE f[j] \in R
    <3>1. jobs[j].accepted # Never /\ j \in DashboardJobs /\ jobs[j].accepted \in M
      BY <1>1 DEF AcceptedIn
    <3>2. f[j] = Record(j, "order_fee", "success", -JobFee, jobs[j].accepted)
      OBVIOUS
    <3>3. f[j] \in Transactions
      BY <3>1, <3>2 DEF Transactions
    <3> QED BY <3>1, <3>2, <3>3 DEF Settled, Record
  <2> HIDE DEF f
  <2> QED BY <2>1, <2>2
<1>3. \A j, k \in AcceptedIn(M) : f[j] = f[k] => j = k
  BY DEF Record
<1>4. \A j \in AcceptedIn(M) : f[j].amount = -JobFee
  BY DEF Record
<1>5. DOMAIN f = AcceptedIn(M) /\ f = [j \in AcceptedIn(M) |-> f[j]]
  OBVIOUS
<1> HIDE DEF f
<1> QED BY <1>2, <1>3, <1>4, <1>5, JobSets, SizeOfImage

LEMMA RefundRecords ==
  ASSUME StatsInv, NEW M \in SUBSET Times, NEW R, R = {r \in Settled("refund") : r.at \in M}
  PROVE  /\ IsFiniteSet(R) /\ Cardinality(R) = Cardinality(RefundedIn(M))
         /\ \A r \in R : r.amount = JobFee
<1> DEFINE f == [j \in RefundedIn(M) |-> Record(j, "refund", "success", JobFee, jobs[j].refunded)]
<1>1. Never \notin M
  BY StatsAssumption DEF Times, Never
<1>2. R = {f[j] : j \in RefundedIn(M)}
  <2>1. ASSUME NEW r \in R PROVE r \in {f[j] : j \in RefundedIn(M)}
    <3>1. r \in Transactions /\ r.type = "refund" /\ r.at \in M
      BY <2>1 DEF Settled
    <3>2. PICK j \in DashboardJobs :
            jobs[j].refunded # Never /\ r = Record(j, "refund", "success", JobFee, jobs[j].refunded)
      BY <3>1 DEF Transactions, Record
    <3>3. j \in RefundedIn(M)
      BY <3>1, <3>2 DEF Record, RefundedIn
    <3> QED BY <3>2, <3>3
  <2>2. ASSUME NEW j \in RefundedIn(M) PROVE f[j] \in R
    <3>1. jobs[j].refunded # Never /\ j \in DashboardJobs /\ jobs[j].refunded \in M
      BY <1>1 DEF RefundedIn
    <3>2. f[j] = Record(j, "refund", "success", JobFee, jobs[j].refunded)
      OBVIOUS
    <3>3. f[j] \in Transactions
      BY <3>1, <3>2 DEF Transactions
    <3> QED BY <3>1, <3>2, <3>3 DEF Settled, Record
  <2> HIDE DEF f
  <2> QED BY <2>1, <2>2
<1>3. \A j, k \in RefundedIn(M) : f[j] = f[k] => j = k
  BY DEF Record
<1>4. \A j \in RefundedIn(M) : f[j].amount = JobFee
  BY DEF Record
<1>5. DOMAIN f = RefundedIn(M) /\ f = [j \in RefundedIn(M) |-> f[j]]
  OBVIOUS
<1> HIDE DEF f
<1> QED BY <1>2, <1>3, <1>4, <1>5, JobSets, SizeOfImage

\* Every settled fee or refund happened at a moment.
LEMMA SettledAt ==
  ASSUME StatsInv, NEW type \in {"order_fee", "refund"}, NEW r \in Settled(type)
  PROVE  r.at \in Times
<1>1. r \in Transactions /\ r.type = type
  BY DEF Settled
<1>2. CASE type = "order_fee"
  <2>1. PICK j \in DashboardJobs :
          jobs[j].accepted # Never /\ r = Record(j, "order_fee", "success", -JobFee, jobs[j].accepted)
    BY <1>1, <1>2 DEF Transactions, Record
  <2> QED BY <2>1 DEF Record, StatsInv, StatsTypeOK, Moments
<1>3. CASE type = "refund"
  <2>1. PICK j \in DashboardJobs :
          jobs[j].refunded # Never /\ r = Record(j, "refund", "success", JobFee, jobs[j].refunded)
    BY <1>1, <1>3 DEF Transactions, Record
  <2> QED BY <2>1 DEF Record, StatsInv, StatsTypeOK, Moments
<1> QED BY <1>2, <1>3

\* What a set of records comes to.
LEMMA TotalOf ==
  ASSUME StatsInv, NEW M \in SUBSET Times
  PROVE  /\ SumTransactions({r \in Settled("order_fee") : r.at \in M}).total
              = JobFee * Cardinality(AcceptedIn(M))
         /\ SumTransactions({r \in Settled("refund") : r.at \in M}).total
              = JobFee * Cardinality(RefundedIn(M))
         /\ SumFunction([r \in {s \in Settled("order_fee") : s.at \in M} |-> r.amount])
              = (-JobFee) * Cardinality(AcceptedIn(M))
         /\ SumFunction([r \in {s \in Settled("refund") : s.at \in M} |-> r.amount])
              = JobFee * Cardinality(RefundedIn(M))
<1>1. PICK F, R : F = {r \in Settled("order_fee") : r.at \in M} /\ R = {r \in Settled("refund") : r.at \in M}
  OBVIOUS
<1>2. /\ IsFiniteSet(F) /\ Cardinality(F) = Cardinality(AcceptedIn(M)) /\ \A r \in F : r.amount = -JobFee
      /\ IsFiniteSet(R) /\ Cardinality(R) = Cardinality(RefundedIn(M)) /\ \A r \in R : r.amount = JobFee
  BY <1>1, FeeRecords, RefundRecords
<1>3. JobFee \in Int /\ -JobFee \in Int /\ Magnitude(-JobFee) = JobFee /\ Magnitude(JobFee) = JobFee
  BY StatsAssumption DEF Magnitude
<1>4. ASSUME NEW S, IsFiniteSet(S), NEW c \in Int, NEW f, DOMAIN f = S, \A r \in S : f[r] = c
      PROVE  SumFunction(f) = c * Cardinality(S)
  BY <1>4, SumConstant DEF SumFunction
<1>5. SumFunction([r \in F |-> Magnitude(r.amount)]) = JobFee * Cardinality(F)
  <2>1. PICK f : f = [r \in F |-> Magnitude(r.amount)]
    OBVIOUS
  <2>2. DOMAIN f = F /\ \A r \in F : f[r] = JobFee
    BY <1>2, <1>3, <2>1
  <2> QED BY <1>2, <1>3, <1>4, <2>1, <2>2
<1>6. SumFunction([r \in R |-> Magnitude(r.amount)]) = JobFee * Cardinality(R)
  <2>1. PICK f : f = [r \in R |-> Magnitude(r.amount)]
    OBVIOUS
  <2>2. DOMAIN f = R /\ \A r \in R : f[r] = JobFee
    BY <1>2, <1>3, <2>1
  <2> QED BY <1>2, <1>3, <1>4, <2>1, <2>2
<1>7. SumFunction([r \in F |-> r.amount]) = (-JobFee) * Cardinality(F)
  <2>1. PICK f : f = [r \in F |-> r.amount]
    OBVIOUS
  <2>2. DOMAIN f = F /\ \A r \in F : f[r] = -JobFee
    BY <1>2, <2>1
  <2> QED BY <1>2, <1>3, <1>4, <2>1, <2>2
<1>8. SumFunction([r \in R |-> r.amount]) = JobFee * Cardinality(R)
  <2>1. PICK f : f = [r \in R |-> r.amount]
    OBVIOUS
  <2>2. DOMAIN f = R /\ \A r \in R : f[r] = JobFee
    BY <1>2, <2>1
  <2> QED BY <1>2, <1>3, <1>4, <2>1, <2>2
<1>9. SumTransactions(F).total = JobFee * Cardinality(F) /\ SumTransactions(R).total = JobFee * Cardinality(R)
  BY <1>5, <1>6 DEF SumTransactions
<1> QED BY <1>1, <1>2, <1>7, <1>8, <1>9

LEMMA RevenueIs ==
  ASSUME StatsInv, NEW start \in Int
  PROVE  Revenue(start) = KeptIn(Later(start))
<1>1. \A type \in {"order_fee", "refund"} :
        Since(Settled(type), start) = {r \in Settled(type) : r.at \in Later(start)}
  BY SettledAt DEF Since, Later
<1>2. Later(start) \in SUBSET Times
  BY DEF Later
<1>3. PICK a \in Nat, b \in Nat : a = Cardinality(AcceptedIn(Later(start))) /\ b = Cardinality(RefundedIn(Later(start)))
  BY JobSets
<1>4. Revenue(start) = JobFee * a - JobFee * b
  BY <1>1, <1>2, <1>3, TotalOf DEF Revenue
<1>5. JobFee * a - JobFee * b = JobFee * (a - b)
  BY StatsAssumption
<1> QED BY <1>3, <1>4, <1>5 DEF KeptIn

LEMMA NetRevenueIs == ASSUME StatsInv PROVE NetRevenue = KeptIn(Times)
<1>1. \A type \in {"order_fee", "refund"} : Settled(type) = {r \in Settled(type) : r.at \in Times}
  BY SettledAt
<1>3. PICK a \in Nat, b \in Nat : a = Cardinality(AcceptedIn(Times)) /\ b = Cardinality(RefundedIn(Times))
  BY JobSets
<1>4. NetRevenue = JobFee * a - JobFee * b
  <2>1. Times \in SUBSET Times
    OBVIOUS
  <2> QED BY <1>1, <1>3, <2>1, TotalOf DEF NetRevenue
<1>5. JobFee * a - JobFee * b = JobFee * (a - b)
  BY StatsAssumption
<1> QED BY <1>3, <1>4, <1>5 DEF KeptIn

\* What is kept in two spans is what is kept in each.
LEMMA KeptInBoth ==
  ASSUME NEW M, NEW N, M \cap N = {}
  PROVE  KeptIn(M \cup N) = KeptIn(M) + KeptIn(N)
<1>1. /\ AcceptedIn(M \cup N) = AcceptedIn(M) \cup AcceptedIn(N) /\ AcceptedIn(M) \cap AcceptedIn(N) = {}
      /\ RefundedIn(M \cup N) = RefundedIn(M) \cup RefundedIn(N) /\ RefundedIn(M) \cap RefundedIn(N) = {}
  BY DEF AcceptedIn, RefundedIn
<1>2. ASSUME NEW S, NEW T, IsFiniteSet(S), IsFiniteSet(T), S \cap T = {}
      PROVE  Cardinality(S \cup T) = Cardinality(S) + Cardinality(T)
  <2>1. Cardinality(S \cup T) = Cardinality(S) + Cardinality(T) - Cardinality({})
    BY <1>2, FS_Union
  <2> QED BY <1>2, <2>1, FS_EmptySet, FS_CardinalityType
<1>3. PICK a \in Nat, b \in Nat, c \in Nat, d \in Nat :
        /\ a = Cardinality(AcceptedIn(M)) /\ b = Cardinality(AcceptedIn(N))
        /\ c = Cardinality(RefundedIn(M)) /\ d = Cardinality(RefundedIn(N))
  BY JobSets
<1>4. Cardinality(AcceptedIn(M \cup N)) = a + b /\ Cardinality(RefundedIn(M \cup N)) = c + d
  BY <1>1, <1>2, <1>3, JobSets
<1>5. JobFee * ((a + b) - (c + d)) = JobFee * (a - c) + JobFee * (b - d)
  BY StatsAssumption
<1> QED BY <1>3, <1>4, <1>5 DEF KeptIn

\* The moments of a day, and what its bar holds.
MomentsOf(d) == Times \cap DayStart(d)..(DayStart(d + 1) - 1)

BarHolds(now, days, i, d) ==
  /\ Timeseries(now, days)[i].revenue = KeptIn(MomentsOf(d))
  /\ Timeseries(now, days)[i].orders =
       Cardinality({j \in Posted : jobs[j].posted \in DayStart(d)..(DayStart(d + 1) - 1)})

LEMMA BarIs ==
  ASSUME StatsInv, NEW now \in Int, NEW days \in Nat \ {0}, NEW i \in 1..days,
         NEW d, d = DayKey(now) - (days - i)
  PROVE  BarHolds(now, days, i, d)
<1> DEFINE since == DaysAgo(now, days - 1)
           date == DayKey(since + (i - 1) * DayLength)
<1>1. DayLength \in Nat \ {0} /\ Offset \in Int /\ JobFee \in Nat /\ DayKey(now) \in Int
  BY StatsAssumption, DayOf
<1>2. d \in Int /\ DayStart(d) \in Int /\ DayStart(d + 1) \in Int /\ DayStart(d + 1) = DayStart(d) + DayLength
  <2>1. d \in Int
    BY <1>1
  <2>2. DayStart(d) \in Int /\ DayStart(d + 1) = DayStart(d) + DayLength
    BY <2>1, DayStarts
  <2> QED BY <1>1, <2>1, <2>2
<1>3. PICK k \in Int : k = DayKey(now)
  BY <1>1
<1>4. since = DayStart(k - (days - 1)) /\ since \in Int /\ since <= DayStart(d)
  <2>1. StartOfTashkentDay(now) = DayStart(k)
    BY <1>3 DEF StartOfTashkentDay, DayKey, DayStart
  <2>2. since = DayStart(k - (days - 1))
    BY <1>3, <2>1, DayStarts DEF DaysAgo
  <2>3. k - (days - 1) \in Int /\ k - (days - 1) <= d
    BY <1>3
  <2> QED BY <1>2, <2>2, <2>3, DayStarts
<1>5. date = d
  <2>1. since + (i - 1) * DayLength = DayStart(d)
    <3>1. PICK m \in Int, n \in Int : m = k - (days - 1) /\ n = 1 - i /\ d = m - n
      BY <1>3
    <3>2. DayStart(d) = since - (1 - i) * DayLength
      <4>1. DayStart(m - n) = DayStart(m) - n * DayLength
        BY DayStarts
      <4> QED BY <1>4, <3>1, <4>1
    <3>3. since - (1 - i) * DayLength = since + (i - 1) * DayLength
      BY <1>1, <1>4
    <3> QED BY <3>2, <3>3
  <2>2. DayKey(DayStart(d)) = d
    <3>1. DayStart(d) < DayStart(d + 1) /\ DayStart(d) <= DayStart(d)
      BY <1>1, <1>2
    <3> QED BY <1>2, <3>1, DayOf, OneDay
  <2> QED BY <2>1, <2>2
<1>6. ASSUME NEW t \in Times PROVE t >= since /\ ByDay(t) = d <=> t \in MomentsOf(d)
  <2>1. t \in Int
    BY DEF Times
  <2>2. ByDay(t) \in Int /\ DayStart(ByDay(t)) <= t /\ t < DayStart(ByDay(t) + 1)
    BY <2>1, DaysAgree, DayOf
  <2>3. t \in MomentsOf(d) <=> DayStart(d) <= t /\ t < DayStart(d + 1)
    BY <1>2, <2>1 DEF MomentsOf
  <2>4. DayStart(d) <= t /\ t < DayStart(d + 1) => ByDay(t) = d
    BY <1>2, <2>1, <2>2, OneDay
  <2> QED BY <1>2, <1>4, <2>1, <2>2, <2>3, <2>4
<1>7. MomentsOf(d) \in SUBSET Times
  BY DEF MomentsOf
<1>8. \A type \in {"order_fee", "refund"} :
        {r \in Since(Settled(type), since) : ByDay(r.at) = d} = {r \in Settled(type) : r.at \in MomentsOf(d)}
  BY <1>6, SettledAt DEF Since
<1>9. PICK a \in Nat, b \in Nat : a = Cardinality(AcceptedIn(MomentsOf(d))) /\ b = Cardinality(RefundedIn(MomentsOf(d)))
  BY JobSets
<1>10. DailySum("order_fee", since, d) = (-JobFee) * a /\ DailySum("refund", since, d) = JobFee * b
  BY <1>7, <1>8, <1>9, TotalOf DEF DailySum
<1>11. Magnitude((-JobFee) * a) - Magnitude(JobFee * b) = JobFee * (a - b)
  <2>1. PICK fee \in Nat : fee = JobFee
    BY <1>1
  <2>2. fee * a \in Nat /\ fee * b \in Nat /\ (-fee) * a = -(fee * a) /\ fee * (a - b) = fee * a - fee * b
    OBVIOUS
  <2>3. Magnitude(-(fee * a)) = fee * a /\ Magnitude(fee * b) = fee * b
    BY <2>2 DEF Magnitude
  <2> QED BY <2>1, <2>2, <2>3
<1>12. {j \in DashboardJobs : jobs[j].posted # Never /\ jobs[j].posted >= since /\ ByDay(jobs[j].posted) = d}
         = {j \in Posted : jobs[j].posted \in DayStart(d)..(DayStart(d + 1) - 1)}
  <2>1. ASSUME NEW j \in DashboardJobs, jobs[j].posted # Never
        PROVE  jobs[j].posted >= since /\ ByDay(jobs[j].posted) = d
                 <=> jobs[j].posted \in DayStart(d)..(DayStart(d + 1) - 1)
    <3>1. jobs[j].posted \in Times
      BY <2>1 DEF StatsInv, StatsTypeOK, Moments
    <3> QED BY <1>6, <3>1 DEF MomentsOf
  <2> QED BY <2>1 DEF Posted
<1>13. DailyCount([j \in DashboardJobs |-> jobs[j].posted], since, d) =
         Cardinality({j \in Posted : jobs[j].posted \in DayStart(d)..(DayStart(d + 1) - 1)})
  <2>1. {j \in DashboardJobs : /\ [l \in DashboardJobs |-> jobs[l].posted][j] # Never
                               /\ [l \in DashboardJobs |-> jobs[l].posted][j] >= since
                               /\ ByDay([l \in DashboardJobs |-> jobs[l].posted][j]) = d}
          = {j \in DashboardJobs : jobs[j].posted # Never /\ jobs[j].posted >= since /\ ByDay(jobs[j].posted) = d}
    OBVIOUS
  <2> QED BY <1>12, <2>1 DEF DailyCount
<1>14. /\ DOMAIN Timeseries(now, days) = 1..days
       /\ Timeseries(now, days)[i].revenue =
            Magnitude(DailySum("order_fee", since, date)) - Magnitude(DailySum("refund", since, date))
       /\ Timeseries(now, days)[i].orders = DailyCount([j \in DashboardJobs |-> jobs[j].posted], since, date)
  BY DEF Timeseries
<1> HIDE DEF since, date
<1> QED BY <1>5, <1>9, <1>10, <1>11, <1>13, <1>14 DEF KeptIn, BarHolds

\* The bars of a chart add up to what was kept from its first day on, but for what came
\* after the last.
LEMMA BarsAddUp ==
  ASSUME StatsInv, NEW now \in Int, NEW days \in Nat \ {0},
         NEW first, first = DayKey(now) - (days - 1), NEW next, next = DayKey(now) + 1
  PROVE  Added(Timeseries(now, days), "revenue") + KeptIn(Later(DayStart(next)))
           = KeptIn(Later(DayStart(first)))
<1>0. ASSUME NEW i \in 1..days PROVE BarHolds(now, days, i, DayKey(now) - (days - i))
  <2>1. PICK d : d = DayKey(now) - (days - i)
    OBVIOUS
  <2>2. BarHolds(now, days, i, d)
    BY <2>1, BarIs
  <2> QED BY <2>1, <2>2
<1> DEFINE day(i) == first + (i - 1)
           A == [i \in 1..days |-> AcceptedIn(MomentsOf(day(i)))]
           R == [i \in 1..days |-> RefundedIn(MomentsOf(day(i)))]
           a == [i \in 1..days |-> Cardinality(A[i])]
           r == [i \in 1..days |-> Cardinality(R[i])]
           v == [i \in 1..days |-> Timeseries(now, days)[i].revenue]
           M == {t \in Times : DayStart(first) <= t /\ t < DayStart(next)}
<1>1. DayKey(now) \in Int /\ first \in Int /\ next \in Int /\ next = first + days
  BY DayOf
<1>2. \A i \in 1..days : day(i) \in Int /\ day(i) = DayKey(now) - (days - i)
  BY <1>1
<1>3. ASSUME NEW i \in 1..days, NEW k \in 1..days, i # k
      PROVE  MomentsOf(day(i)) \cap MomentsOf(day(k)) = {}
  <2> SUFFICES ASSUME NEW t \in MomentsOf(day(i)), t \in MomentsOf(day(k)) PROVE FALSE
    OBVIOUS
  <2>1. PICK p \in Int, q \in Int : p = day(i) /\ q = day(k)
    BY <1>2
  <2>2. p # q
    BY <1>1, <1>3, <2>1
  <2>3. /\ DayStart(p) \in Int /\ DayStart(p + 1) \in Int /\ DayStart(q) \in Int /\ DayStart(q + 1) \in Int
        /\ t \in Int
    BY DayInt DEF MomentsOf, Times
  <2>4. DayStart(p) <= t /\ t < DayStart(p + 1) /\ DayStart(q) <= t /\ t < DayStart(q + 1)
    BY <2>1, <2>3 DEF MomentsOf
  <2> QED BY <2>2, <2>3, <2>4, OneDay
<1>4. \A t \in Times : t \in M <=> \E i \in 1..days : t \in MomentsOf(day(i))
  <2> SUFFICES ASSUME NEW t \in Times PROVE t \in M <=> \E i \in 1..days : t \in MomentsOf(day(i))
    OBVIOUS
  <2>1. t \in Int /\ DayStart(first) \in Int /\ DayStart(next) \in Int
    BY <1>1, DayStarts DEF Times
  <2>2. PICK d \in Int : DayStart(d) <= t /\ t < DayStart(d + 1)
    BY <2>1, DayOf
  <2>3. DayStart(d) \in Int /\ DayStart(d + 1) \in Int
    BY DayInt
  <2>4. ASSUME t \in M PROVE \E i \in 1..days : t \in MomentsOf(day(i))
    <3>1. first <= d
      <4>1. d + 1 <= first => DayStart(d + 1) <= DayStart(first)
        BY <1>1, DayStarts
      <4> QED BY <1>1, <2>1, <2>2, <2>3, <2>4, <4>1
    <3>2. d < next
      <4>1. next <= d => DayStart(next) <= DayStart(d)
        BY <1>1, DayStarts
      <4> QED BY <1>1, <2>1, <2>2, <2>3, <2>4, <4>1
    <3>3. d - first + 1 \in 1..days /\ day(d - first + 1) = d
      BY <1>1, <3>1, <3>2
    <3>4. t \in MomentsOf(d)
      BY <2>1, <2>2, <2>3 DEF MomentsOf
    <3> QED BY <3>3, <3>4
  <2>5. ASSUME NEW i \in 1..days, t \in MomentsOf(day(i)) PROVE t \in M
    <3>1. PICK p \in Int : p = day(i) /\ first <= p /\ p + 1 <= next
      BY <1>1, <1>2
    <3>2. DayStart(p) \in Int /\ DayStart(p + 1) \in Int /\ p + 1 \in Int
      BY DayInt
    <3>3. DayStart(first) <= DayStart(p)
      BY <1>1, <3>1, DayStarts
    <3>5. DayStart(p + 1) <= DayStart(next)
      BY <1>1, <3>1, <3>2, DayStarts
    <3>4. DayStart(p) <= t /\ t < DayStart(p + 1)
      BY <2>1, <2>5, <3>1, <3>2 DEF MomentsOf
    <3> QED BY <2>1, <3>2, <3>3, <3>4, <3>5
  <2> QED BY <2>4, <2>5
<1>5. M \in SUBSET Times /\ \A i \in 1..days : MomentsOf(day(i)) \in SUBSET Times
  BY DEF MomentsOf
<1> HIDE DEF M, day
<1>6. AcceptedIn(M) = UNION {A[i] : i \in 1..days} /\ RefundedIn(M) = UNION {R[i] : i \in 1..days}
  BY <1>4, <1>5 DEF AcceptedIn, RefundedIn
<1>7. \A i, k \in 1..days : i # k => A[i] \cap A[k] = {} /\ R[i] \cap R[k] = {}
  BY <1>3 DEF AcceptedIn, RefundedIn
<1>8. \A i \in 1..days : /\ IsFiniteSet(A[i]) /\ IsFiniteSet(R[i])
                         /\ a[i] = Cardinality(A[i]) /\ r[i] = Cardinality(R[i])
                         /\ a[i] \in Int /\ r[i] \in Int
  BY JobSets
<1>9. ASSUME NEW i \in 1..days PROVE v[i] = JobFee * (a[i] - r[i])
  <2>1. PICK d : d = day(i) /\ d = DayKey(now) - (days - i)
    BY <1>2
  <2>2. v[i] = Timeseries(now, days)[i].revenue
    OBVIOUS
  <2>3. Timeseries(now, days)[i].revenue = KeptIn(MomentsOf(d))
    BY <1>0, <2>1 DEF BarHolds
  <2> QED BY <2>1, <2>2, <2>3 DEF KeptIn
<1>10. IsFiniteSet(1..days)
  BY CountTo
<1>11. DOMAIN v = 1..days /\ Added(Timeseries(now, days), "revenue") = SumFunctionOnSet(v, 1..days)
  <2>1. 1 \in 1..days
    OBVIOUS
  <2>2. DOMAIN Timeseries(now, days) = 1..days
    BY DEF Timeseries
  <2>3. DOMAIN v = 1..days
    OBVIOUS
  <2> QED BY <2>2, <2>3 DEF Added, SumFunction
<1> HIDE DEF A, R, a, r, v
<1>12. SumFunctionOnSet(v, 1..days) = JobFee * (SumFunctionOnSet(a, 1..days) - SumFunctionOnSet(r, 1..days))
  <2>1. JobFee \in Int /\ \A i \in 1..days : a[i] \in Int /\ r[i] \in Int /\ v[i] = JobFee * (a[i] - r[i])
    BY <1>8, <1>9, StatsAssumption
  <2> QED BY <1>10, <2>1, SumOfDifferences
<1>13. SumFunctionOnSet(a, 1..days) = Cardinality(AcceptedIn(M))
  <2>1. PICK S, F, n : S = 1..days /\ F = A /\ n = a
    OBVIOUS
  <2>2. Apart(F, n, S)
    BY <1>7, <1>8, <2>1 DEF Apart
  <2>3. SumFunctionOnSet(n, S) = Cardinality(Together(F, S))
    BY <1>10, <2>1, <2>2, SizesAddUp
  <2>4. Together(F, S) = AcceptedIn(M)
    BY <1>6, <2>1 DEF Together
  <2> QED BY <2>1, <2>3, <2>4
<1>14. SumFunctionOnSet(r, 1..days) = Cardinality(RefundedIn(M))
  <2>1. PICK S, F, n : S = 1..days /\ F = R /\ n = r
    OBVIOUS
  <2>2. Apart(F, n, S)
    BY <1>7, <1>8, <2>1 DEF Apart
  <2>3. SumFunctionOnSet(n, S) = Cardinality(Together(F, S))
    BY <1>10, <2>1, <2>2, SizesAddUp
  <2>4. Together(F, S) = RefundedIn(M)
    BY <1>6, <2>1 DEF Together
  <2> QED BY <2>1, <2>3, <2>4
<1>15. Added(Timeseries(now, days), "revenue") = KeptIn(M)
  BY <1>11, <1>12, <1>13, <1>14 DEF KeptIn
<1>16. Later(DayStart(first)) = M \cup Later(DayStart(next)) /\ M \cap Later(DayStart(next)) = {}
  <2>1. DayStart(first) \in Int /\ DayStart(next) \in Int /\ DayStart(first) <= DayStart(next)
    BY <1>1, DayStarts
  <2> QED BY <2>1 DEF M, Later, Times
<1> QED BY <1>15, <1>16, KeptInBoth

LEMMA Whole ==
  ASSUME NEW q \in Int, NEW m \in Nat \ {0}
  PROVE  (q * m) % m = 0
<1>1. PICK n \in Int : n = q * m
  OBVIOUS
<1>2. PICK e \in Int, rest \in 0..(m - 1) : n = m * e + rest /\ rest = (n % m)
  <2>1. n \div m \in Int /\ n % m \in Int
    OBVIOUS
  <2>2. 0 <= n % m /\ n % m < m
    OBVIOUS
  <2>3. n = m * (n \div m) + (n % m)
    OBVIOUS
  <2> QED BY <2>1, <2>2, <2>3
<1>3. PICK z \in Int : z = q - e /\ z * m = rest
  <2>1. PICK u \in Int : u = m * e
    OBVIOUS
  <2>2. q - e \in Int /\ (q - e) * m = q * m - m * e
    OBVIOUS
  <2>3. n - u = rest
    BY <1>2, <2>1
  <2> QED BY <1>1, <2>1, <2>2, <2>3
<1>4. z >= 1 => z * m >= m
  OBVIOUS
<1>5. z <= -1 => z * m <= -m
  OBVIOUS
<1>6. z = 0
  BY <1>2, <1>3, <1>4, <1>5
<1>7. 0 * m = 0
  OBVIOUS
<1>8. rest = 0
  BY <1>3, <1>6, <1>7
<1> QED BY <1>1, <1>2, <1>8

LEMMA MidnightIs ==
  ASSUME NEW now \in Int
  PROVE  /\ StartOfTashkentDay(now) = DayStart(DayKey(now))
         /\ StartOfTashkentDay(now) + DayLength = DayStart(DayKey(now) + 1)
<1>1. StartOfTashkentDay(now) = DayStart(DayKey(now))
  BY DEF StartOfTashkentDay, DayKey, DayStart
<1>2. DayKey(now) \in Int
  BY DayOf
<1> QED BY <1>1, <1>2, DayStarts

\* The chart of a request holds one Tashkent day a bar.
LEMMA BarsHoldDays ==
  ASSUME StatsInv, NEW now \in Int, NEW days \in Nat \ {0}
  PROVE  BarsAreDays(now, days)
<1>1. DayLength \in Nat \ {0} /\ Offset \in Int
  BY StatsAssumption
<1>2. PICK k \in Int : k = DayKey(now)
  BY DayOf
<1>3. PICK midnight \in Int : midnight = StartOfTashkentDay(now) /\ midnight = DayStart(k)
  BY <1>2, MidnightIs, DayInt
<1>4. midnight <= now /\ now < midnight + DayLength
  BY <1>2, <1>3, DayOf, MidnightIs
<1>5. (midnight + Offset) % DayLength = 0
  <2>1. k * DayLength \in Int /\ midnight = k * DayLength - Offset
    BY <1>1, <1>3 DEF DayStart
  <2>2. midnight + Offset = k * DayLength
    BY <1>1, <2>1
  <2> QED BY <1>1, <2>2, Whole
<1>6. ASSUME NEW i \in 1..days, NEW from, from = midnight - (days - i) * DayLength,
             NEW to, to = from + DayLength
      PROVE  /\ Timeseries(now, days)[i].revenue = Kept(from, to)
             /\ Timeseries(now, days)[i].orders = Cardinality({j \in Posted : jobs[j].posted \in from..(to - 1)})
  <2>1. PICK n \in Int, d \in Int : n = days - i /\ d = k - n
    OBVIOUS
  <2>2. DayStart(d) = midnight - n * DayLength
    BY <1>3, <2>1, DayStarts
  <2>3. from = DayStart(d)
    BY <1>6, <2>1, <2>2
  <2>4. to = DayStart(d + 1)
    BY <1>6, <2>1, <2>3, DayStarts
  <2>5. BarHolds(now, days, i, d)
    BY <1>2, <2>1, BarIs
  <2> QED BY <2>3, <2>4, <2>5 DEF BarHolds, Kept, KeptIn, AcceptedIn, RefundedIn, MomentsOf
<1> QED BY <1>3, <1>4, <1>5, <1>6 DEF BarsAreDays

\* What a moment's day holds of what is kept from its midnight on.
LEMMA TodayIs ==
  ASSUME NEW k \in Int
  PROVE  KeptIn(Later(DayStart(k))) = KeptIn(MomentsOf(k)) + KeptIn(Later(DayStart(k + 1)))
<1>1. PICK a \in Int, b \in Int : a = DayStart(k) /\ b = DayStart(k + 1) /\ a <= b
  <2>1. DayStart(k + 1) = DayStart(k) + DayLength /\ DayStart(k) \in Int /\ DayStart(k + 1) \in Int
    BY DayInt, DayStarts
  <2>2. DayLength \in Nat
    BY StatsAssumption
  <2> QED BY <2>1, <2>2
<1>2. Times \subseteq Int
  BY DEF Times
<1>3. Later(a) = MomentsOf(k) \cup Later(b) /\ MomentsOf(k) \cap Later(b) = {}
  <2>1. MomentsOf(k) = Times \cap a..(b - 1)
    BY <1>1 DEF MomentsOf
  <2>2. \A t \in Times : /\ t >= a <=> t \in a..(b - 1) \/ t >= b
                         /\ ~(t \in a..(b - 1) /\ t >= b)
    BY <1>1, <1>2
  <2> QED BY <2>1, <2>2 DEF Later
<1> QED BY <1>1, <1>3, KeptInBoth

LEMMA ThePagesAgree ==
  ASSUME StatsInv, NEW now \in Int
  PROVE  PagesAgree(now)
<1>1. PICK k \in Int : k = DayKey(now)
  BY DayOf
<1>2. PICK month \in Nat : month = MonthDays
  BY StatsAssumption
<1>3. PICK a \in Int, b \in Int : /\ a = StartOfTashkentDay(now) /\ a = DayStart(k)
                                  /\ b = StartOfTashkentDay(now) + DayLength /\ b = DayStart(k + 1)
  BY <1>1, MidnightIs, DayInt
<1>4. Revenue(b) = KeptIn(Later(b)) /\ Revenue(a) = KeptIn(Later(a))
  BY <1>3, RevenueIs
<1>5. BarHolds(now, month + 1, month + 1, k)
  <2>1. PICK n \in Nat \ {0} : n = month + 1
    BY <1>2
  <2>2. n \in 1..n /\ k = DayKey(now) - (n - n)
    BY <1>1, <2>1
  <2>3. BarHolds(now, n, n, k)
    BY <2>2, BarIs
  <2> QED BY <2>1, <2>3
<1>6. Revenue(a) = Timeseries(now, month + 1)[month + 1].revenue + Revenue(b)
  BY <1>3, <1>4, <1>5, TodayIs DEF BarHolds
<1>7. Revenue(DaysAgo(now, month)) = Added(Timeseries(now, month + 1), "revenue") + Revenue(b)
  <2>1. PICK n \in Nat \ {0}, first \in Int, next \in Int :
          n = month + 1 /\ first = DayKey(now) - (n - 1) /\ next = DayKey(now) + 1
    <3>1. month + 1 \in Nat \ {0} /\ k - ((month + 1) - 1) \in Int /\ k + 1 \in Int
      OBVIOUS
    <3> QED BY <1>1, <3>1
  <2>2. Added(Timeseries(now, n), "revenue") + KeptIn(Later(DayStart(next))) = KeptIn(Later(DayStart(first)))
    BY <2>1, BarsAddUp
  <2>3. DayStart(first) = DaysAgo(now, month) /\ DayStart(first) \in Int
    <3>1. first = k - month /\ month \in Int
      BY <1>1, <2>1
    <3>2. DayStart(first) = DayStart(k) - month * DayLength
      BY <3>1, DayStarts
    <3>3. DayStart(first) \in Int
      BY DayInt
    <3> QED BY <1>3, <3>2, <3>3 DEF DaysAgo
  <2>4. Revenue(DaysAgo(now, month)) = KeptIn(Later(DayStart(first)))
    BY <2>3, RevenueIs
  <2>5. next = k + 1
    BY <1>1, <2>1
  <2> QED BY <1>3, <1>4, <2>1, <2>2, <2>4, <2>5
<1>8. Cardinality({j \in Posted : jobs[j].posted >= a}) >= Timeseries(now, month + 1)[month + 1].orders
  <2>1. PICK S, T : S = {j \in Posted : jobs[j].posted >= a} /\ T = {j \in Posted : jobs[j].posted \in a..(b - 1)}
    OBVIOUS
  <2>2. T \subseteq S
    BY <1>3, <2>1
  <2>3. IsFiniteSet(S)
    BY <2>1, StatsAssumption, FS_Subset DEF Posted
  <2>4. Cardinality(T) <= Cardinality(S)
    BY <2>2, <2>3, FS_Subset
  <2>5. Cardinality(T) \in Nat /\ Cardinality(S) \in Nat
    BY <2>2, <2>3, FS_Subset, FS_CardinalityType
  <2> QED BY <1>3, <1>5, <2>1, <2>4, <2>5 DEF BarHolds
<1> QED BY <1>2, <1>3, <1>6, <1>7, <1>8 DEF PagesAgree, Overview

\* The share of what ended well, in tenths of a per cent.
LEMMA Share ==
  ASSUME NEW well \in Nat, NEW over \in Nat \ {0}, well <= over,
         NEW q, q = (2000 * well + over) \div (2 * over)
  PROVE  q \in 0..1000 /\ (well = over => q = 1000)
<1>1. PICK m \in Nat \ {0}, n \in Nat : m = 2 * over /\ n = 2000 * well + over
  OBVIOUS
<1>2. PICK s \in Int : q \in Int /\ s = q * m /\ s <= n /\ n < s + m
  <2>1. q = n \div m
    BY <1>1
  <2>2. n \div m \in Int /\ (n \div m) * m <= n /\ n < (n \div m) * m + m
    BY Divided
  <2>3. q \in Int /\ q * m \in Int
    BY <2>1, <2>2
  <2> QED BY <2>1, <2>2, <2>3
<1>3. q >= 0
  <2>1. q <= -1 => q * m <= -m
    OBVIOUS
  <2> QED BY <1>2, <2>1
<1>4. q <= 1000
  <2>1. q >= 1001 => q * m >= 1001 * m
    OBVIOUS
  <2>2. n < 1001 * m
    BY <1>1
  <2> QED BY <1>2, <2>1, <2>2
<1>5. well = over => q >= 1000
  <2>1. q <= 999 => q * m <= 999 * m
    OBVIOUS
  <2>2. well = over => n = 1000 * m + over
    BY <1>1
  <2> QED BY <1>1, <1>2, <2>1, <2>2
<1>6. \A p \in Int : p >= 0 /\ p <= 1000 => p \in 0..1000 /\ (p >= 1000 => p = 1000)
  OBVIOUS
<1>7. q \in Int
  BY <1>2
<1>8. q \in 0..1000
  BY SMTT(20), <1>3, <1>4, <1>6, <1>7
<1>9. ASSUME well = over PROVE q = 1000
  <2>1. q >= 1000
    BY <1>5, <1>9
  <2> QED BY SMTT(20), <1>3, <1>4, <1>6, <1>7, <2>1
<1> QED BY <1>8, <1>9

LEMMA TheTotalsAreRight ==
  ASSUME StatsInv, NEW now \in Int
  PROVE  TotalsAreRight(now)
<1> DEFINE With(s) == {j \in Posted : jobs[j].status = s}
<1>1. \A s : IsFiniteSet(With(s)) /\ Cardinality(With(s)) \in Nat
  BY StatsAssumption, FS_Subset, FS_CardinalityType DEF Posted
<1>2. CountByStatus = [s \in JobStatuses |-> Cardinality(With(s))]
  BY DEF CountByStatus
<1>3. SumFunction(CountByStatus) = Cardinality(Posted)
  <2>1. PICK F, n, S : F = [s \in JobStatuses |-> With(s)] /\ n = CountByStatus /\ S = JobStatuses
    OBVIOUS
  <2>2. DOMAIN n = S
    BY <1>2, <2>1
  <2>3. Apart(F, n, S)
    BY <1>1, <1>2, <2>1 DEF Apart
  <2>4. IsFiniteSet(S)
    <3>1. IsFiniteSet({"pending"}) /\ IsFiniteSet({"accepted"}) /\ IsFiniteSet({"done"}) /\ IsFiniteSet({"cancelled"})
      BY FS_Singleton
    <3>2. S = (({"pending"} \cup {"accepted"}) \cup {"done"}) \cup {"cancelled"}
      BY <2>1 DEF JobStatuses
    <3> QED BY <3>1, <3>2, FS_Union
  <2>5. SumFunctionOnSet(n, S) = Cardinality(Together(F, S))
    BY <2>3, <2>4, SizesAddUp
  <2>6. Together(F, S) = Posted
    BY <2>1 DEF Together, Posted, StatsInv, StatsTypeOK
  <2> QED BY <2>1, <2>2, <2>5, <2>6 DEF SumFunction
<1>4. NetRevenue = Kept(0, MaxClock + 1)
  <2>1. Times \cap 0..((MaxClock + 1) - 1) = Times
    <3>1. PICK n \in Nat : n = MaxClock
      BY StatsAssumption
    <3>2. (n + 1) - 1 = n
      OBVIOUS
    <3> QED BY <3>1, <3>2 DEF Times
  <2> QED BY <2>1, NetRevenueIs DEF Kept, KeptIn, AcceptedIn, RefundedIn
<1>5. NetRevenue >= 0
  <2>1. PICK a \in Nat, b \in Nat : a = Cardinality(AcceptedIn(Times)) /\ b = Cardinality(RefundedIn(Times)) /\ b <= a
    <3>1. RefundedIn(Times) \subseteq AcceptedIn(Times)
      BY DEF RefundedIn, AcceptedIn, StatsInv, StatsTypeOK, Moments, Times, Never
    <3>2. Cardinality(RefundedIn(Times)) <= Cardinality(AcceptedIn(Times))
      BY <3>1, JobSets, FS_Subset
    <3> QED BY <3>2, JobSets
  <2>2. PICK fee \in Nat : fee = JobFee
    BY StatsAssumption
  <2>3. a - b \in Nat
    BY <2>1
  <2>4. fee * (a - b) >= 0
    BY <2>3
  <2> QED BY <2>1, <2>2, <2>4, NetRevenueIs DEF KeptIn
<1>6. PICK f \in Nat, c \in Nat : f = CountByStatus["done"] /\ c = CountByStatus["cancelled"]
  BY <1>1, <1>2 DEF JobStatuses
<1>7. CompletionRate \in 0..1000 /\ (f > 0 /\ c = 0 => CompletionRate = 1000)
  <2>1. PICK over \in Nat : over = f + c
    BY <1>6
  <2>2. CompletionRate = IF over = 0 THEN 0 ELSE (2000 * f + over) \div (2 * over)
    BY <1>6, <2>1 DEF CompletionRate
  <2>3. CASE over = 0
    BY SMTT(20), <2>1, <2>2, <2>3
  <2>4. CASE over # 0
    <3>1. over \in Nat \ {0} /\ f <= over
      BY <2>1, <2>4
    <3>2. PICK q : q = (2000 * f + over) \div (2 * over)
      OBVIOUS
    <3>3. q \in 0..1000 /\ (f = over => q = 1000)
      BY <3>1, <3>2, Share
    <3> QED BY SMTT(20), <2>1, <2>2, <2>4, <3>2, <3>3
  <2> QED BY <2>3, <2>4
<1> QED BY <1>3, <1>4, <1>5, <1>6, <1>7 DEF TotalsAreRight, Overview

LEMMA FiguresDoAddUp == ASSUME StatsInv PROVE FiguresAddUp
<1> SUFFICES ASSUME asked # Never PROVE BarsAreDays(asked, MonthDays) /\ PagesAgree(asked) /\ TotalsAreRight(asked)
  BY DEF FiguresAddUp
<1>1. PICK now \in Int : now = asked
  BY DEF StatsInv, StatsTypeOK, Moments, Times
<1>2. PICK days \in Nat \ {0} : days = MonthDays
  BY StatsAssumption
<1>3. BarsAreDays(now, days)
  BY BarsHoldDays
<1>4. PagesAgree(now) /\ TotalsAreRight(now)
  BY ThePagesAgree, TheTotalsAreRight
<1> QED BY <1>1, <1>2, <1>3, <1>4

-----------------------------------------------------------------------------
(* The components side by side. *)

\* The steps of the components named by "part" are steps of their own; a component
\* that is not named stands still.
LEMMA StepsAreTheirOwn ==
  ASSUME [Next]_services
  PROVE  /\ [ChatNext]_chatVars /\ [ReviewNext]_reviewVars /\ [PresenceNext]_presenceVars
         /\ [TrafficNext]_trafficVars /\ [ServerNext]_serverVars
         /\ [SessionNext]_sessionVars /\ [CandidatesNext]_candidateVars
         /\ [PhoneNext]_typed /\ [StatsNext]_statsVars /\ [PagingNext]_pagingVars
<1>1. CASE UNCHANGED services
  BY <1>1 DEF services, aroundJobs, reading
<1>2. CASE Next
  <2>1. CASE AroundJobs /\ UNCHANGED <<sessionVars, candidateVars, reading>>
    <3>1. UNCHANGED sessionVars /\ UNCHANGED candidateVars
          /\ UNCHANGED typed /\ UNCHANGED statsVars /\ UNCHANGED pagingVars
      BY <2>1 DEF reading
    <3>2. /\ [ChatNext]_chatVars /\ [ReviewNext]_reviewVars /\ [PresenceNext]_presenceVars
          /\ [TrafficNext]_trafficVars /\ [ServerNext]_serverVars
      BY <2>1 DEF AroundJobs
    <3> QED BY <3>1, <3>2
  <2>2. CASE SessionsNext /\ UNCHANGED <<aroundJobs, candidateVars, reading>>
    <3>1. SessionNext
      <4>1. \A c \in Calls : EndScan(c) \/ GiveUp(c) => TokenStep(c)
        BY DEF TokenStep
      <4> QED BY <2>2, <4>1 DEF SessionsNext, SessionNext
    <3> QED BY <2>2, <3>1 DEF aroundJobs, reading
  <2>3. CASE CandidatesNext /\ UNCHANGED <<aroundJobs, sessionVars, reading>>
    BY <2>3 DEF aroundJobs, reading
  <2>4. CASE ReadingNext /\ UNCHANGED <<aroundJobs, sessionVars, candidateVars>>
    BY <2>4 DEF aroundJobs, ReadingNext
  <2>5. CASE UNCHANGED services
    BY <2>5 DEF services, aroundJobs, reading
  <2> QED BY <1>2, <2>1, <2>2, <2>3, <2>4, <2>5 DEF Next
<1> QED BY <1>1, <1>2

\* Each component behaves among the others as its own specification lets it: what is
\* proved of a component is true of the services together.
THEOREM TheyKeepTheirSpecs ==
  Spec => /\ ChatSpec /\ ReviewSpec /\ PresenceSpec /\ TrafficSpec /\ ServerSpec
          /\ SessionSpec /\ CandidatesSpec /\ PhoneSpec /\ StatsSpec /\ PagingSpec
<1>1. Init => /\ ChatInit /\ ReviewInit /\ PresenceInit /\ TrafficInit /\ ServerInit
              /\ SessionInit /\ CandidatesInit /\ PhoneInit /\ StatsInit /\ PagingInit
  BY DEF Init
<1> QED
  BY <1>1, StepsAreTheirOwn, PTL
  DEF Spec, ChatSpec, ReviewSpec, PresenceSpec, TrafficSpec, ServerSpec, SessionSpec,
      CandidatesSpec, PhoneSpec, StatsSpec, PagingSpec

\* Whoever a search lists or rings may take the job and can pay for it, nobody far away
\* is listed when the job is placed, and a better pro is never left out for one as near,
\* whatever the pros' profiles (buildCandidates, Feed and TopMasters of Candidates).
THEOREM TheOffersKeepPromises == Spec => []OffersKeepPromises
<1>1. CandidatesSpec => []CandidatesTypeOK
  BY CandidatesInitType, CandidatesNextType, PTL DEF CandidatesSpec
<1>2. CandidatesTypeOK => OffersKeepPromises
  BY PromisesKept DEF OffersKeepPromises
<1> QED BY <1>1, <1>2, TheyKeepTheirSpecs, PTL

\* A number has one spelling, and one account, however it is typed (normalizePhone).
THEOREM OneAccountANumber == PhoneSpec => []NumbersAgree
<1>1. TypedOK => NumbersAgree
  BY NumbersDoAgree DEF TypedOK
<1> QED BY <1>1, PhoneTypeInit, PhoneTypeNext, PTL DEF PhoneSpec

\* No row is lost between the pages of a list, whatever its length, the limit of a page
\* and the rows that come in or move forward meanwhile (paginate and the reads beside it).
THEOREM NothingBetweenPages == PagingSpec => []PagesMissNothing
<1>1. PagesInv => PagesMissNothing
  BY DEF PagesInv, PagesMissNothing
<1> QED BY <1>1, PagesInvInit, PagesInvNext, PTL DEF PagingSpec

\* Every page that is asked for is one of the list's, whatever answers say of its length:
\* a total counts no more rows than there are, and pages end when the rows do (paginate).
THEOREM PagingTypes == PagingSpec => []PagingTypeOK
BY PagesTypedInit, PagesTypedNext, PagesTypedIsType, PTL DEF PagingSpec

\* The dashboard's figures add up, whatever happened and whenever they were asked for:
\* a bar is a Tashkent day, the pages agree and the totals are those of the jobs.
THEOREM TheFiguresAddUp == StatsSpec => []FiguresAddUp
BY StatsInvInit, StatsInvNext, FiguresDoAddUp, PTL DEF StatsSpec

\* What is read of the services is right: the numbers, the dashboard, the pages.
THEOREM WhatIsReadIsRight == Spec => []ReadsAreRight
<1>1. NumbersAgree /\ FiguresAddUp /\ PagesMissNothing => ReadsAreRight
  BY DEF ReadsAreRight
<1> QED BY <1>1, OneAccountANumber, TheFiguresAddUp, NothingBetweenPages, TheyKeepTheirSpecs, PTL

\* The components of MCServices, by their names.
PartOK ==
  part \in {"chat", "reviews", "presence", "traffic", "server",
            "tokens", "reset", "candidates", "phone", "stats", "paging"}

\* The state of every component keeps the shape its schema and its code give it, however
\* many members, requests, pros, jobs and rows there are.
THEOREM ShapesAreKept == Spec => []ServicesTypeOK
<1>1. Init => PartOK
  BY DEF Init, PartOK
<1>2. PartOK /\ [Next]_services => PartOK'
  BY DEF Next, PartOK, services
<1>3. CandidatesSpec => []CandidatesTypeOK
  BY CandidatesInitType, CandidatesNextType, PTL DEF CandidatesSpec
<1>4. StatsSpec => []StatsTypeOK
  <2>1. StatsInv => StatsTypeOK
    BY DEF StatsInv
  <2> QED BY <2>1, StatsInvInit, StatsInvNext, PTL DEF StatsSpec
<1>5. /\ ChatTypeOK /\ ReviewTypeOK /\ PresenceTypeOK /\ TrafficTypeOK /\ ServerTypeOK
      /\ SessionTypeOK /\ CandidatesTypeOK /\ StatsTypeOK /\ PagingTypeOK /\ PartOK
      => ServicesTypeOK
  <2> HIDE DEF ChatTypeOK, ReviewTypeOK, PresenceTypeOK, TrafficTypeOK, ServerTypeOK,
               SessionTypeOK, CandidatesTypeOK, StatsTypeOK, PagingTypeOK
  <2> QED BY DEF PartOK, ServicesTypeOK
<1>6. Spec => []PartOK
  BY <1>1, <1>2, PTL DEF Spec
<1> QED
  BY <1>3, <1>4, <1>5, <1>6, TheyKeepTheirSpecs, ChatTypes, ReviewTypes, PresenceTypes, TrafficTypes,
     ServerTypes, SessionTypes, PagingTypes, PTL
=============================================================================
