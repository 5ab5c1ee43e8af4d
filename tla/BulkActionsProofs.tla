-------------------------- MODULE BulkActionsProofs --------------------------
(* Proofs about BulkActions, for any number of entities, filters and bulk     *)
(* deletions.                                                                 *)
EXTENDS BulkActions, TLAPS

\* What a deletion has gone through without a failure is gone: the part of
\* SuccessMeansGone that the loop of bulk_delete_gmp keeps from one command to
\* the next while others delete too.
DoneIsGone ==
  \A c \in Clicks :
    bulk[c] \in Deletions /\ ~bulk[c].fail =>
      \A e \in bulk[c].asked \ bulk[c].left : server[e] = "gone"

IInv == TypeOK /\ TickedIsSelected /\ DoneIsGone

\* A list that is loaded names entities only.
LEMMA PageType ==
  \A f \in Filters : PageOf(f) \subseteq Entities /\ Matching(f) \subseteq Entities
<1> SUFFICES ASSUME NEW f \in Filters
             PROVE  PageOf(f) \subseteq Entities /\ Matching(f) \subseteq Entities
  OBVIOUS
<1>1. Matching(f) \subseteq f /\ f \subseteq Entities
  BY FiltersAssumption DEF Matching
<1>2. PageOf(f) \subseteq Matching(f)
  BY DEF PageOf
<1> QED
  BY <1>1, <1>2

\* A rendering shows objects, and puts no new mark into a box.
LEMMA RenderedType ==
  ASSUME NEW marks \in SUBSET Entities, Rendered(marks), entities \subseteq Objects,
         filter' \in Filters, byId' \in [Entities -> Nat],
         lists' \in [Filters -> (SUBSET Entities) \cup {None}]
  PROVE  entities' \subseteq Objects /\ ticked' \subseteq marks
<1>1. CASE lists'[filter'] = None
  BY <1>1 DEF Rendered
<1>2. CASE lists'[filter'] # None
  <2>1. lists'[filter'] \subseteq Entities
    BY <1>2
  <2>2. \A e \in lists'[filter'] : <<e, byId'[e]>> \in Objects
    BY <2>1 DEF Objects
  <2> QED
    BY <1>2, <2>2 DEF Rendered
<1> QED
  BY <1>1, <1>2

\* Marks may go, as long as the selection stays.
LEMMA FewerMarks ==
  ASSUME TickedIsSelected, ticked' \subseteq ticked, UNCHANGED <<selected, selectionType>>
  PROVE  TickedIsSelected'
BY DEF TickedIsSelected, Ids

\* What is gone stays gone, whatever else a step does.
LEMMA GoneStays ==
  ASSUME TypeOK, DoneIsGone, UNCHANGED bulk,
         \A e \in Entities : server[e] = "gone" => server'[e] = "gone"
  PROVE  DoneIsGone'
<1>1. \A c \in Clicks : bulk[c] \in Deletions => bulk[c].asked \subseteq Entities
  BY DEF Deletions
<1> QED
  BY <1>1 DEF DoneIsGone

\* One bulk deletion has a new entry; the others are as they were.
LEMMA OneClick ==
  ASSUME TypeOK, DoneIsGone, NEW c \in Clicks,
         NEW entry \in Listings \cup Deletions \cup {None},
         bulk' = [bulk EXCEPT ![c] = entry],
         \A e \in Entities : server[e] = "gone" => server'[e] = "gone",
         entry \in Deletions /\ ~entry.fail =>
           \A e \in entry.asked \ entry.left : server'[e] = "gone"
  PROVE  /\ bulk' \in [Clicks -> Listings \cup Deletions \cup {None}]
         /\ DoneIsGone'
<1>1. bulk \in [Clicks -> Listings \cup Deletions \cup {None}]
  BY DEF TypeOK
<1>2. \A d \in Clicks : bulk'[d] = IF d = c THEN entry ELSE bulk[d]
  BY <1>1
<1>3. bulk' \in [Clicks -> Listings \cup Deletions \cup {None}]
  BY <1>1
<1>4. ASSUME NEW d \in Clicks, bulk'[d] \in Deletions, ~bulk'[d].fail,
             NEW e \in bulk'[d].asked \ bulk'[d].left
      PROVE  server'[e] = "gone"
  <2>1. CASE d = c
    BY <1>2, <1>4, <2>1
  <2>2. CASE d # c
    <3>1. bulk'[d] = bulk[d]
      BY <1>2, <2>2
    <3>2. e \in Entities
      BY <1>4 DEF Deletions
    <3> QED
      BY <1>4, <3>1, <3>2 DEF DoneIsGone
  <2> QED
    BY <2>1, <2>2
<1>5. DoneIsGone'
  BY <1>4 DEF DoneIsGone
<1> QED
  BY <1>3, <1>5

\* The page and the store are well typed from the start, and nothing is ticked
\* or deleted yet.
LEMMA InitInv == Init => IInv
<1> SUFFICES ASSUME Init PROVE IInv
  OBVIOUS
<1>1. server \in [Entities -> {"unborn", "there", "gone"}] /\ disturbances \in Nat
  <2>1. server \in [Entities -> {"unborn", "there"}] /\ disturbances = 0
    BY DEF Init
  <2> QED
    BY <2>1
<1>2. loads \in Nat /\ byId \in [Entities -> Nat]
  BY DEF Init
<1>3. lists \in [Filters -> (SUBSET Entities) \cup {None}]
  BY DEF Init
<1>4. loading \subseteq Filters /\ errors \subseteq Filters /\ filter \in Filters
  BY DEF Init
<1>5. /\ entities \subseteq Objects /\ selectionType \in SelectionTypes
      /\ IF selectionType = "user" THEN selected \subseteq Objects ELSE selected = None
      /\ ticked \subseteq Entities
  BY DEF Init, SelectionTypes
<1>6. bulk \in [Clicks -> Listings \cup Deletions \cup {None}]
  BY DEF Init
<1>7. TypeOK
  BY <1>1, <1>2, <1>3, <1>4, <1>5, <1>6 DEF TypeOK
<1>8. TickedIsSelected
  BY DEF Init, TickedIsSelected
<1>9. \A c \in Clicks : bulk[c] = None
  BY DEF Init
<1>10. DoneIsGone
  BY <1>9, NoneAssumption DEF DoneIsGone
<1> QED
  BY <1>7, <1>8, <1>10 DEF IInv

\* What a rendering leaves alone, and the marks it takes away: enough for a step
\* that touches neither the server nor the selection nor a deletion.
LEMMA RenderingStep ==
  ASSUME IInv, Rendered(ticked), filter' \in Filters, loads' \in Nat,
         byId' \in [Entities -> Nat],
         lists' \in [Filters -> (SUBSET Entities) \cup {None}],
         loading' \subseteq Filters, errors' \subseteq Filters, disturbances' \in Nat,
         UNCHANGED <<server, selectionType, selected, bulk>>
  PROVE  IInv'
<1>1. entities \subseteq Objects /\ ticked \in SUBSET Entities
  BY DEF IInv, TypeOK
<1>2. entities' \subseteq Objects /\ ticked' \subseteq ticked
  BY <1>1, RenderedType
<1>3. TypeOK'
  BY <1>1, <1>2 DEF IInv, TypeOK, Objects, Listings, Deletions
<1>4. TickedIsSelected'
  BY <1>2, FewerMarks DEF IInv
<1>5. DoneIsGone'
  BY GoneStays DEF IInv
<1> QED
  BY <1>3, <1>4, <1>5 DEF IInv

\* One bulk deletion goes on, and the server may lose an entity.
LEMMA DeletionStep ==
  ASSUME IInv, NEW c \in Clicks,
         NEW entry \in Listings \cup Deletions \cup {None},
         bulk' = [bulk EXCEPT ![c] = entry],
         server' \in [Entities -> {"unborn", "there", "gone"}],
         \A e \in Entities : server[e] = "gone" => server'[e] = "gone",
         entry \in Deletions /\ ~entry.fail =>
           \A e \in entry.asked \ entry.left : server'[e] = "gone",
         loading' \subseteq Filters, disturbances' \in Nat,
         UNCHANGED <<loads, byId, lists, errors, page>>
  PROVE  IInv'
<1>1. /\ bulk' \in [Clicks -> Listings \cup Deletions \cup {None}]
      /\ DoneIsGone'
  BY OneClick DEF IInv
<1>2. TypeOK'
  BY <1>1 DEF IInv, TypeOK, page, Objects, Listings, Deletions
<1>3. TickedIsSelected'
  BY FewerMarks DEF IInv, page
<1> QED
  BY <1>1, <1>2, <1>3 DEF IInv

\* Loads and new filters.
LEMMA LoadInv == IInv /\ LoadStep => IInv'
<1> SUFFICES ASSUME IInv, NEW f \in Filters,
                    \/ updateFilter(f)
                    \/ LoadingSuccess(f)
                    \/ \E isError \in BOOLEAN : LoadingError(f, isError)
             PROVE  IInv'
  BY DEF LoadStep
<1> USE DEF IInv, TypeOK
<1>1. CASE updateFilter(f)
  BY <1>1, RenderingStep DEF updateFilter
<1>2. CASE LoadingSuccess(f)
  <2>1. PageOf(f) \in SUBSET Entities
    BY PageType
  <2>2. lists' \in [Filters -> (SUBSET Entities) \cup {None}]
    BY <1>2, <2>1 DEF LoadingSuccess
  <2>3. loads' \in Nat /\ byId' \in [Entities -> Nat]
    BY <1>2 DEF LoadingSuccess
  <2>4. /\ filter' \in Filters /\ loading' \subseteq Filters
        /\ errors' \subseteq Filters /\ disturbances' \in Nat
        /\ UNCHANGED <<server, selectionType, selected, bulk>> /\ Rendered(ticked)
    BY <1>2 DEF LoadingSuccess
  <2> QED
    BY <2>2, <2>3, <2>4, RenderingStep
<1>3. CASE \E isError \in BOOLEAN : LoadingError(f, isError)
  <2>1. PICK isError \in BOOLEAN : LoadingError(f, isError)
    BY <1>3
  <2>2. /\ errors' \subseteq Filters /\ loading' \subseteq Filters
        /\ disturbances' \in Nat
    BY <2>1 DEF LoadingError, Disturb
  <2> QED
    BY <2>1, <2>2, RenderingStep DEF LoadingError
<1> QED
  BY <1>1, <1>2, <1>3

\* A box that is ticked gets its object into the selection; an object that
\* leaves the selection leaves it with its mark, and with no other mark.
LEMMA SelectionInv == IInv /\ SelectionStep => IInv'
<1> SUFFICES ASSUME IInv, SelectionStep PROVE IInv'
  OBVIOUS
<1>1. UNCHANGED <<server, bulk, store, disturbances, filter, entities>>
  BY DEF SelectionStep, handleSelectionTypeChange, handleSelected, handleDeselected
<1>2. DoneIsGone'
  BY <1>1, GoneStays DEF IInv
<1>3. /\ server' \in [Entities -> {"unborn", "there", "gone"}]
      /\ loads' \in Nat /\ byId' \in [Entities -> Nat]
      /\ lists' \in [Filters -> (SUBSET Entities) \cup {None}]
      /\ loading' \subseteq Filters /\ errors' \subseteq Filters
      /\ filter' \in Filters /\ entities' \subseteq Objects
      /\ bulk' \in [Clicks -> Listings \cup Deletions \cup {None}]
      /\ disturbances' \in Nat
  BY <1>1 DEF IInv, TypeOK, store
<1>4. ASSUME selectionType' \in SelectionTypes, ticked' \subseteq Entities,
             IF selectionType' = "user" THEN selected' \subseteq Objects
                                        ELSE selected' = None
      PROVE  TypeOK'
  BY <1>3, <1>4 DEF TypeOK, Objects, Listings, Deletions
<1>5. /\ entities \subseteq Objects /\ ticked \subseteq Entities
      /\ selectionType \in SelectionTypes
      /\ IF selectionType = "user" THEN selected \subseteq Objects ELSE selected = None
      /\ ticked # {} => selectionType = "user" /\ ticked \subseteq Ids(selected)
  BY DEF IInv, TypeOK, TickedIsSelected
<1>6. ASSUME NEW type \in SelectionTypes, handleSelectionTypeChange(type)
      PROVE  IInv'
  <2>1. TypeOK'
    BY <1>4, <1>6 DEF handleSelectionTypeChange
  <2>2. TickedIsSelected'
    BY <1>6 DEF handleSelectionTypeChange, TickedIsSelected
  <2> QED
    BY <2>1, <2>2, <1>2 DEF IInv
<1>7. ASSUME NEW o \in entities, handleSelected(o)
      PROVE  IInv'
  <2>1. /\ selectionType = "user" /\ selectionType' = "user"
        /\ selected' = selected \cup {o} /\ ticked' = ticked \cup {o[1]}
    BY <1>7 DEF handleSelected
  <2>2. o \in Objects /\ o[1] \in Entities
    BY <1>5 DEF Objects
  <2>3. TypeOK'
    BY <1>4, <1>5, <2>1, <2>2
  <2>4. TickedIsSelected'
    BY <1>5, <2>1 DEF TickedIsSelected, Ids
  <2> QED
    BY <2>3, <2>4, <1>2 DEF IInv
<1>8. ASSUME NEW o \in entities, handleDeselected(o)
      PROVE  IInv'
  <2>1. /\ selectionType' = selectionType /\ o[1] \in ticked
        /\ selected' = selected \ {o} /\ ticked' = ticked \ {o[1]}
    BY <1>8 DEF handleDeselected
  <2>2. selectionType = "user" /\ selected \subseteq Objects
    BY <1>5, <2>1
  <2>3. TypeOK'
    BY <1>4, <1>5, <2>1, <2>2
  <2>4. ASSUME NEW e \in ticked' PROVE e \in Ids(selected')
    <3>1. e \in ticked /\ e # o[1]
      BY <2>1
    <3>2. PICK p \in selected : e = p[1]
      BY <1>5, <3>1 DEF Ids
    <3>3. p \in selected'
      BY <2>1, <3>1, <3>2
    <3> QED
      BY <3>2, <3>3 DEF Ids
  <2>5. TickedIsSelected'
    BY <2>1, <2>2, <2>4 DEF TickedIsSelected
  <2> QED
    BY <2>3, <2>5, <1>2 DEF IInv
<1> QED
  BY <1>6, <1>7, <1>8 DEF SelectionStep

\* A deletion goes on, and so does gsad's loop over its ids.
LEMMA BulkInv == IInv /\ BulkStep => IInv'
<1> SUFFICES ASSUME IInv, NEW c \in Clicks,
                    \/ handleDeleteBulk(c)
                    \/ Listed(c)
                    \/ \E e \in Entities :
                         \/ DeleteOne(c, e)
                         \/ Refuse(c, e)
                         \/ \E sent \in BOOLEAN : Abort(c, e, sent)
                    \/ Succeed(c)
                    \/ Fail(c)
             PROVE  IInv'
  BY DEF BulkStep
<1>1. /\ bulk \in [Clicks -> Listings \cup Deletions \cup {None}]
      /\ server \in [Entities -> {"unborn", "there", "gone"}]
      /\ filter \in Filters /\ loading \subseteq Filters /\ disturbances \in Nat
  BY DEF IInv, TypeOK
<1>2. ASSUME NEW ids \in SUBSET Entities
      PROVE  Delete(ids) \in Deletions /\ Delete(ids).asked = Delete(ids).left
  BY DEF Delete, Deletions
<1>3. CASE handleDeleteBulk(c)
  <2> DEFINE entry == CASE selectionType = "user" -> Delete(Ids(selected))
                        [] selectionType = "page contents" -> DeleteByFilter(FALSE)
                        [] selectionType = "filter" -> DeleteByFilter(TRUE)
  <2>1. DeleteByFilter(FALSE) \in Listings /\ DeleteByFilter(TRUE) \in Listings
    BY <1>1 DEF DeleteByFilter, Listings
  <2>2. selectionType = "user" => Ids(selected) \in SUBSET Entities
    BY DEF IInv, TypeOK, Ids, Objects
  <2>3. selectionType \in SelectionTypes
    BY DEF IInv, TypeOK
  <2>4. /\ entry \in Listings \cup Deletions
        /\ entry \in Deletions => entry.asked = entry.left
    <3>1. CASE selectionType = "user"
      BY <3>1, <2>2, <1>2
    <3>2. CASE selectionType = "page contents"
      BY <3>2, <2>1 DEF Listings, Deletions
    <3>3. CASE selectionType = "filter"
      BY <3>3, <2>1 DEF Listings, Deletions
    <3> QED
      BY <2>3, <3>1, <3>2, <3>3 DEF SelectionTypes
  <2>5. bulk' = [bulk EXCEPT ![c] = entry] /\ UNCHANGED <<server, store, page, disturbances>>
    BY <1>3 DEF handleDeleteBulk
  <2> HIDE DEF entry
  <2> QED
    BY <1>1, <2>4, <2>5, DeletionStep DEF store
<1>4. CASE Listed(c)
  <2> DEFINE ids == IF bulk[c].all THEN Matching(bulk[c].filter) ELSE PageOf(bulk[c].filter)
  <2>1. bulk[c].filter \in Filters
    BY <1>4 DEF Listed, Listings
  <2>2. ids \in SUBSET Entities
    BY <2>1, PageType
  <2>3. bulk' = [bulk EXCEPT ![c] = Delete(ids)]
        /\ UNCHANGED <<server, store, page, disturbances>>
    BY <1>4 DEF Listed
  <2> HIDE DEF ids
  <2> QED
    BY <1>1, <1>2, <2>2, <2>3, DeletionStep DEF store
<1>5. ASSUME NEW e \in Entities, Reaches(c, e), NEW fail \in BOOLEAN,
             Went(c, e, fail), UNCHANGED <<store, page>>, disturbances' \in Nat,
             ~fail => ~bulk[c].fail /\ server'[e] = "gone",
             Remove(e) \/ UNCHANGED server
      PROVE  IInv'
  <2> DEFINE entry == [stage |-> "delete", asked |-> bulk[c].asked,
                       left |-> bulk[c].left \ {e}, fail |-> fail]
  <2>1. bulk[c] \in Deletions
    BY <1>5 DEF Reaches
  <2>2. /\ entry \in Deletions /\ entry.asked = bulk[c].asked
        /\ entry.left = bulk[c].left \ {e} /\ entry.fail = fail
    BY <2>1 DEF Deletions
  <2>3. /\ server' \in [Entities -> {"unborn", "there", "gone"}]
        /\ \A x \in Entities : server[x] = "gone" => server'[x] = "gone"
    BY <1>1, <1>5 DEF Remove
  <2>4. ASSUME ~entry.fail, NEW x \in entry.asked \ entry.left
        PROVE  server'[x] = "gone"
    <3>1. CASE x = e
      BY <1>5, <2>2, <2>4, <3>1
    <3>2. CASE x # e
      <4>1. x \in bulk[c].asked \ bulk[c].left /\ ~bulk[c].fail /\ x \in Entities
        BY <1>5, <2>1, <2>2, <2>4, <3>2 DEF Deletions
      <4> QED
        BY <2>1, <2>3, <4>1 DEF IInv, DoneIsGone
    <3> QED
      BY <3>1, <3>2
  <2>5. bulk' = [bulk EXCEPT ![c] = entry]
    BY <1>5 DEF Went
  <2> HIDE DEF entry
  <2> QED
    BY <1>1, <1>5, <2>2, <2>3, <2>4, <2>5, DeletionStep DEF store
<1>6. ASSUME NEW e \in Entities, DeleteOne(c, e)
      PROVE  IInv'
  <2> DEFINE fail == bulk[c].fail \/ server[e] # "there"
  <2>1. bulk[c].fail \in BOOLEAN
    BY <1>6 DEF DeleteOne, Reaches, Deletions
  <2>2. fail \in BOOLEAN
    OBVIOUS
  <2>3. ~fail => ~bulk[c].fail /\ server'[e] = "gone"
    BY <1>1, <1>6 DEF DeleteOne, Remove
  <2>4. Went(c, e, fail)
    BY <1>6 DEF DeleteOne
  <2>5. /\ Reaches(c, e) /\ Remove(e) /\ UNCHANGED <<store, page>>
        /\ disturbances' \in Nat
    BY <1>1, <1>6 DEF DeleteOne
  <2> HIDE DEF fail
  <2> QED
    BY <1>5, <2>2, <2>3, <2>4, <2>5
<1>7. ASSUME NEW e \in Entities, Refuse(c, e)
      PROVE  IInv'
  <2>1. /\ Reaches(c, e) /\ Went(c, e, TRUE) /\ Disturb
        /\ UNCHANGED <<store, page>> /\ UNCHANGED server
    BY <1>7 DEF Refuse
  <2>2. disturbances' \in Nat
    BY <1>1, <2>1 DEF Disturb
  <2> QED
    BY <1>5, <2>1, <2>2
<1>8. ASSUME NEW e \in Entities, NEW sent \in BOOLEAN, Abort(c, e, sent)
      PROVE  IInv'
  <2> DEFINE entry == [bulk[c] EXCEPT !.left = {}, !.fail = TRUE]
  <2>1. entry \in Deletions /\ entry.fail
    BY <1>8 DEF Abort, Reaches, Deletions
  <2>2. /\ server' \in [Entities -> {"unborn", "there", "gone"}]
        /\ \A x \in Entities : server[x] = "gone" => server'[x] = "gone"
    BY <1>1, <1>8 DEF Abort, Remove
  <2>3. /\ bulk' = [bulk EXCEPT ![c] = entry] /\ disturbances' \in Nat
        /\ UNCHANGED <<store, page>>
    BY <1>1, <1>8 DEF Abort, Disturb
  <2> HIDE DEF entry
  <2> QED
    BY <1>1, <2>1, <2>2, <2>3, DeletionStep DEF store
<1>9. CASE Succeed(c)
  <2>1. /\ bulk' = [bulk EXCEPT ![c] = None] /\ loading' \subseteq Filters
        /\ UNCHANGED <<server, loads, byId, lists, errors, page, disturbances>>
    BY <1>1, <1>9 DEF Succeed
  <2> QED
    BY <1>1, <2>1, NoneAssumption, DeletionStep
<1>10. CASE Fail(c)
  <2>1. /\ bulk' = [bulk EXCEPT ![c] = None] /\ disturbances' \in Nat
        /\ UNCHANGED <<server, store, page>>
    BY <1>1, <1>10 DEF Fail, Disturb
  <2> QED
    BY <1>1, <2>1, NoneAssumption, DeletionStep DEF store
<1> QED
  BY <1>3, <1>4, <1>6, <1>7, <1>8, <1>9, <1>10

\* Others create and delete.
LEMMA OthersInv == ASSUME IInv, NEW e \in Entities, OthersChange(e) PROVE IInv'
<1>1. /\ server' \in [Entities -> {"unborn", "there", "gone"}]
      /\ \A x \in Entities : server[x] = "gone" => server'[x] = "gone"
      /\ disturbances' \in Nat /\ UNCHANGED <<store, page, bulk>>
  BY DEF IInv, TypeOK, OthersChange, Disturb
<1>2. DoneIsGone'
  BY <1>1, GoneStays DEF IInv
<1>3. TickedIsSelected'
  BY <1>1, FewerMarks DEF IInv, page
<1>4. TypeOK'
  BY <1>1 DEF IInv, TypeOK, store, page, Objects, Listings, Deletions
<1> QED
  BY <1>2, <1>3, <1>4 DEF IInv

\* No step of the page, of a deletion or of others breaks the invariant.
LEMMA NextInv == IInv /\ [Next]_vars => IInv'
<1> SUFFICES ASSUME IInv, [Next]_vars PROVE IInv'
  OBVIOUS
<1>1. CASE UNCHANGED vars
  BY <1>1 DEF vars, store, page, IInv, TypeOK, TickedIsSelected, DoneIsGone, Ids,
              Objects, Listings, Deletions
<1>2. CASE Next
  BY <1>2, LoadInv, SelectionInv, BulkInv, OthersInv DEF Next
<1> QED
  BY <1>1, <1>2

-----------------------------------------------------------------------------
\* The page, the store and the deletions keep their shape (container.js).
THEOREM BulkTypeCorrect == Spec => []TypeOK
<1>1. IInv => TypeOK
  BY DEF IInv
<1> QED
  BY InitInv, NextInv, <1>1, PTL DEF Spec

\* A bulk deletion leaves out nothing that shows a mark, for any number of
\* reloads, filters and deletions (handleSelected, handleDeselected).
THEOREM NothingTickedIsLeftOut == Spec => []TickedIsSelected
<1>1. IInv => TickedIsSelected
  BY DEF IInv
<1> QED
  BY InitInv, NextInv, <1>1, PTL DEF Spec

\* Whatever is reported as deleted is gone, for any number of deletions that
\* overlap and of entities each of them asks for (bulk_delete_gmp).
THEOREM SuccessIsComplete == Spec => SuccessMeansGone
<1>1. ASSUME IInv, NEW c \in Clicks, Succeed(c), NEW e \in bulk[c].asked
      PROVE  server[e] = "gone"
  <2>1. bulk[c] \in Deletions /\ ~bulk[c].fail /\ e \in bulk[c].asked \ bulk[c].left
    BY <1>1 DEF Succeed, Finished
  <2> QED
    BY <1>1, <2>1 DEF IInv, DoneIsGone
<1>2. IInv /\ [Next]_vars =>
        [\A c \in Clicks :
           Succeed(c) => \A e \in bulk[c].asked : server[e] = "gone"]_vars
  BY <1>1
<1> QED
  BY InitInv, NextInv, <1>2, PTL DEF Spec, SuccessMeansGone

=============================================================================
