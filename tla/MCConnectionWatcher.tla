------------------------ MODULE MCConnectionWatcher ------------------------
(* Two requests that may use the same descriptor number one after the other. *)
EXTENDS ConnectionWatcher

FewFds == 3..4

=============================================================================
