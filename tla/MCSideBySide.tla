---------------------------- MODULE MCSideBySide ----------------------------
(* SideBySide on a small instance. *)
EXTENDS SideBySide

\* The first has a slug of another name, as Repository Intelligence has.
MCTemplates == <<[name |-> "a", slug |-> [of |-> "b", nr |-> 1]],
                 [name |-> "c", slug |-> [of |-> "c", nr |-> 1]]>>
=============================================================================
