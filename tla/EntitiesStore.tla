---------------------------- MODULE EntitiesStore ----------------------------
(* The redux state of one type of entities in gsa, and what its actions do to *)
(* it: which filters have been loaded, with which answer, which are loading,  *)
(* and which of the entities are known.                                       *)
EXTENDS Integers

CONSTANTS Entities, Filters, None

\* What the server answered to one request: the entities of the page asked
\* for, their place, the number of all that match, and the time of the answer.
Answers == [ids : SUBSET Entities, first : Nat, filtered : Nat, at : Nat]

Stores == [byId : SUBSET Entities,
           lists : [Filters -> Answers \cup {None}],
           isLoading : [Filters -> BOOLEAN],
           errors : SUBSET Filters]

initialState ==
  [byId |-> {}, lists |-> [f \in Filters |-> None],
   isLoading |-> [f \in Filters |-> FALSE], errors |-> {}]

\* ENTITIES_LOADING_REQUEST
Request(s, f) == [s EXCEPT !.isLoading[f] = TRUE]

\* A reducer whose errors stay once they are there.
SuccessKeepsError(s, f, answer) ==
  [s EXCEPT !.isLoading[f] = FALSE, !.lists[f] = answer, !.byId = @ \cup answer.ids]

\* ENTITIES_LOADING_SUCCESS
Success(s, f, answer) ==
  [s EXCEPT !.isLoading[f] = FALSE,
            !.errors = @ \ {f},
            !.lists[f] = answer,
            !.byId = @ \cup answer.ids]

\* A reducer that forgets the flag when a request fails.
FailureLoading(s, f, isError) ==
  [s EXCEPT !.errors = IF isError THEN @ \cup {f} ELSE @]

\* ENTITIES_LOADING_ERROR: a timeout or a refusal is no error to be shown.
Failure(s, f, isError) ==
  [s EXCEPT !.isLoading[f] = FALSE,
            !.errors = IF isError THEN @ \cup {f} ELSE @]

\* ENTITY_DELETE_SUCCESS: the lists keep the id.
Deleted(s, e) == [s EXCEPT !.byId = @ \ {e}]

\* The selectors.
isLoadingEntities(s, f) == s.isLoading[f]
hasEntities(s, f) == s.lists[f] # None
getEntities(s, f) == s.lists[f].ids \cap s.byId
getEntitiesCounts(s, f) == s.lists[f]

=============================================================================
