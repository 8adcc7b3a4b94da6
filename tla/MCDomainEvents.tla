--------------------------- MODULE MCDomainEvents ---------------------------
(* One pod: an event that is published without a commit, and one that is   *)
(* never published because its failed push leaves no mark.                 *)
EXTENDS DomainEvents
=============================================================================
