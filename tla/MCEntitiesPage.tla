--------------------------- MODULE MCEntitiesPage ---------------------------
(* A small instance of EntitiesPage.                                         *)
EXTENDS EntitiesPage

\* Two pages of everything and one page of what a criterion lets through.
ThreeFilters == {[narrow |-> FALSE, first |-> 1], [narrow |-> FALSE, first |-> 2],
                 [narrow |-> TRUE, first |-> 1]}

=============================================================================
