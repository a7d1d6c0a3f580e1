------------------------------- MODULE Paging -------------------------------
(***************************************************************************)
(* The lists that are read page by page.  Each of them filters a           *)
(* collection, sorts it, skips (page - 1) * limit rows and counts the rows *)
(* beside that; paginate of common/utils/http.ts tells the reader how many *)
(* pages there are.  Meanwhile rows are added, leave the filter, come back *)
(* and, in lists sorted by what changes, move.                             *)
(*                                                                         *)
(* One reader who asks for the first page, the second, and so on to the    *)
(* last page of the last answer.  Searches by text are left out, and no two *)
(* rows are taken to share the date they are sorted by.                    *)
(***************************************************************************)
EXTENDS Integers, SequencesExt

CONSTANTS
  PageLimit,
  MaxRows    \* bound: the rows of the collection

ASSUME PagingAssumption == PageLimit \in Nat \ {0} /\ MaxRows \in Nat

VARIABLES
  nature,  \* what may happen to the rows of the list that is read
  listed,  \* the rows the filter lets through, in the order of the list
  rows,    \* the rows there are
  reader,  \* [page, found, total, pages]: the request, and what the last answer said
  seen,    \* the rows of the answers so far
  begun,   \* history: the rows listed when the first page was read
  moved,   \* history: rows that left the list or moved since
  slipped  \* history: a row left or moved back, or one came between the reads of a page

pagingVars == <<nature, listed, rows, reader, seen, begun, moved, slipped>>

-----------------------------------------------------------------------------
(* The lists: the fields their filters test, and how they may be sorted *)

NewestFirst == <<"createdAt", "desc">>
OldestFirst == <<"createdAt", "asc">>

UserSort == {NewestFirst, OldestFirst, <<"balance", "desc">>, <<"lastSeenAt", "desc">>}
ListUsers == [filter |-> {"role", "isBlocked", "isActive"}, sort |-> UserSort]
ListOrders == [filter |-> {"status", "category", "client", "master"}, sort |-> {NewestFirst}]
ListChats == [filter |-> {"isClosed", "participants"}, sort |-> {<<"lastMessageAt", "desc">>}]
ListMessages == [filter |-> {"chat", "_id"}, sort |-> {NewestFirst}]
ListProducts == [filter |-> {"isActive", "seller"}, sort |-> {NewestFirst}]
ListReviews == [filter |-> {"targetType", "isVisible", "stars", "author"}, sort |-> {NewestFirst}]
ListTransactions == [filter |-> {"type", "status", "provider", "user"}, sort |-> {NewestFirst}]
ListLogs == [filter |-> {"action", "admin"}, sort |-> {NewestFirst}]

\* The lists of the apps.
ListOrdersForUser == [filter |-> {"client", "master", "status"}, sort |-> {NewestFirst}]
FeedForMaster == [filter |-> {"status", "category", "client", "offers"}, sort |-> {NewestFirst}]
OwnTransactions == [filter |-> {"user"}, sort |-> {NewestFirst}]
OwnMessages == [filter |-> {"chat", "_id"}, sort |-> {NewestFirst}]
ListForUser == [filter |-> {"user"}, sort |-> {NewestFirst}]
ListFor == [filter |-> {"targetType", "target", "isVisible"}, sort |-> {NewestFirst}]
ShopWindow == [filter |-> {"isActive", "category", "seller"}, sort |-> {NewestFirst}]
ListPurchases == [filter |-> {"buyer", "seller"}, sort |-> {NewestFirst}]

PagedLists == {ListUsers, ListOrders, ListChats, ListMessages, ListProducts, ListReviews,
               ListTransactions, ListLogs, ListOrdersForUser, FeedForMaster, OwnTransactions,
               OwnMessages, ListForUser, ListFor, ShopWindow, ListPurchases}

\* What some service writes after a row was inserted ("_id" stands for deletion), and
\* what of it only grows, or also falls: a debit, a deleted last message.
ChangingFields == {"isBlocked", "isActive", "status", "master", "offers", "isClosed", "isVisible",
                   "_id", "balance", "lastSeenAt", "lastMessageAt"}
FallingFields == {"balance", "lastMessageAt"}

NatureOf(list, sort) ==
  [leaves |-> list.filter \cap ChangingFields # {},
   rises |-> sort[1] \in ChangingFields,
   falls |-> sort[1] \in FallingFields,
   newestFirst |-> sort[2] = "desc"]
Natures == UNION {{NatureOf(l, s) : s \in l.sort} : l \in PagedLists}

-----------------------------------------------------------------------------
Pages(total) == IF total = 0 THEN 1 ELSE (total + PageLimit - 1) \div PageLimit

NotFound == {-1}
Asking(page, pages) == [page |-> page, pages |-> pages, found |-> NotFound, total |-> -1]

PagingTypeOK ==
  /\ nature \in Natures
  /\ rows \in 0..MaxRows
  /\ ToSet(listed) \subseteq 1..rows /\ Cardinality(ToSet(listed)) = Len(listed)
  /\ reader.page \in 1..(MaxRows + 1) /\ reader.pages \in 0..(MaxRows + 1)
  /\ reader.found = NotFound \/ reader.found \subseteq 1..rows
  /\ reader.total \in -1..rows
  /\ seen \subseteq 1..rows /\ begun \subseteq 1..rows /\ moved \subseteq 1..rows
  /\ slipped \in BOOLEAN

\* Pages is 0 until the first answer.
PagingInit ==
  /\ nature \in Natures
  /\ rows \in 0..(MaxRows - 1)
  /\ listed = [i \in 1..rows |-> i]
  /\ reader = Asking(1, 0)
  /\ seen = {} /\ begun = {} /\ moved = {}
  /\ slipped = FALSE

Unasked == reader = Asking(1, 0)
Fresh == reader.page = 1 /\ reader.found = NotFound
Between == (reader.found = NotFound) # (reader.total = -1)
Finished == reader.pages # 0 /\ reader.page > reader.pages

-----------------------------------------------------------------------------
(* The two reads of a page, in any order *)

Mutant_SkipPages(page) == page * PageLimit
Skip(page) == (page - 1) * PageLimit

PageRows == {listed[i] : i \in DOMAIN listed \cap (Skip(reader.page) + 1)..(Skip(reader.page) + PageLimit)}

FindPage ==
  /\ reader.found = NotFound
  /\ reader' = [reader EXCEPT !.found = PageRows]
  /\ begun' = IF Fresh THEN ToSet(listed) ELSE begun
  /\ moved' = IF Fresh THEN {} ELSE moved
  /\ UNCHANGED <<nature, listed, rows, seen, slipped>>

CountRows ==
  /\ reader.total = -1
  /\ reader' = [reader EXCEPT !.total = Len(listed)]
  /\ UNCHANGED <<nature, listed, rows, seen, begun, moved, slipped>>

\* paginate, and the reader's next request.
Paginate ==
  /\ reader.found # NotFound /\ reader.total # -1
  /\ seen' = seen \cup reader.found
  /\ reader' = Asking(reader.page + 1, Pages(reader.total))
  /\ UNCHANGED <<nature, listed, rows, begun, moved, slipped>>

-----------------------------------------------------------------------------
(* What happens to the list meanwhile *)

\* A row is inserted: by createdAt at one end, anywhere by a field that is not its date.
AddRow ==
  /\ rows < MaxRows
  /\ rows' = rows + 1
  /\ \E i \in IF nature.rises THEN 1..(Len(listed) + 1)
             ELSE {IF nature.newestFirst THEN 1 ELSE Len(listed) + 1} :
       listed' = InsertAt(listed, i, rows + 1)
  /\ slipped' = Between
  /\ UNCHANGED <<nature, reader, seen, begun, moved>>

\* A row no longer passes the filter, or is deleted.
LeaveList ==
  /\ nature.leaves
  /\ \E i \in DOMAIN listed :
       /\ listed' = RemoveAt(listed, i)
       /\ moved' = moved \cup {listed[i]}
  /\ slipped' = ~Unasked
  /\ UNCHANGED <<nature, rows, reader, seen, begun>>

\* A row passes it again, and stands where its date puts it.
ReturnToList ==
  /\ nature.leaves
  /\ \E r \in (1..rows) \ ToSet(listed), i \in 1..(Len(listed) + 1) :
       listed' = InsertAt(listed, i, r)
  /\ slipped' = Between
  /\ UNCHANGED <<nature, rows, reader, seen, begun, moved>>

\* A message, a payment or a visit moves its row forward.
MoveForward ==
  /\ nature.rises
  /\ \E i \in DOMAIN listed : \E k \in 1..(i - 1) :
       /\ listed' = InsertAt(RemoveAt(listed, i), k, listed[i])
       /\ moved' = moved \cup {listed[i]}
  /\ UNCHANGED <<nature, rows, reader, seen, begun, slipped>>

\* A debit or a deleted message moves it back, and those behind it forward.
MoveBack ==
  /\ nature.falls
  /\ \E i \in DOMAIN listed : \E k \in (i + 1)..Len(listed) :
       /\ listed' = InsertAt(RemoveAt(listed, i), k, listed[i])
       /\ moved' = moved \cup {listed[i]}
  /\ slipped' = ~Unasked
  /\ UNCHANGED <<nature, rows, reader, seen, begun>>

\* Once rows have slipped past the reader nothing is said of the pages any more.
PagingNext ==
  /\ ~Finished /\ ~slipped
  /\ \/ FindPage \/ CountRows \/ Paginate
     \/ AddRow \/ LeaveList \/ ReturnToList \/ MoveForward \/ MoveBack

PagingSpec == PagingInit /\ [][PagingNext]_pagingVars

-----------------------------------------------------------------------------
\* Whoever reads a list to its last page has seen every row that was in it when they
\* began and has not moved since, however many rows came in or moved forward meanwhile;
\* unless a row left or moved back and the others moved up, or one came between the two
\* reads of a page.
PagesMissNothing == Finished /\ ~slipped => begun \ moved \subseteq seen
=============================================================================
