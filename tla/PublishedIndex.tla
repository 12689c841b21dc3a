--------------------------- MODULE PublishedIndex ---------------------------
(* What readers of a catalogue are promised, without processes, leases or   *)
(* candidates: a set of published generations and the one that is current.  *)
(* Each entry says which generation it is, which one it calls its parent,   *)
(* which one its file history was computed against, the tree version of its *)
(* files and the tree version whose hash it carries.                        *)
EXTENDS Naturals

VARIABLES published, current

Init == published = {} /\ current = 0

(* One step publishes one new, complete entry and makes it current: what is *)
(* published stays as it is, and nothing else ever becomes current.         *)
Publish ==
    \E e \in published' \ published :
        /\ published' = published \cup {e}
        /\ \A f \in published : f.gen # e.gen
        /\ e.files = e.tree /\ e.tree # 0
        /\ current' = e.gen

Spec == Init /\ [][Publish]_<<published, current>>

(* With writers excluding each other, publication is also a line: the new   *)
(* entry succeeds the current one, knows it as its parent, was computed     *)
(* against it, and reflects no older version of the source.                 *)
Succeeds(e) ==
    /\ e.gen > current
    /\ e.parent = current
    /\ e.base = current
    /\ \A f \in published : f.gen = current => f.tree <= e.tree

PublishNext ==
    /\ Publish
    /\ \A e \in published' \ published : Succeeds(e)

OrderedSpec == Init /\ [][PublishNext]_<<published, current>>

=============================================================================
