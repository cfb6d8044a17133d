------------------------- MODULE VersionedDocument -------------------------
(***************************************************************************)
(* What the shared context promises when one device owns it: the owner     *)
(* publishes one version after the other, and every replica shows some     *)
(* published version, whole, and only ever moves on to a later one.  It    *)
(* says nothing of how versions travel.                                    *)
(***************************************************************************)
EXTENDS Naturals, Sequences

CONSTANTS Replica, Owner, Document, Blank

VARIABLES
    history,  \* the versions published so far
    version,  \* the version each replica is at, 0 before the first
    view      \* the document each replica shows

Init ==
    /\ history = <<>>
    /\ version = [r \in Replica |-> 0]
    /\ view = [r \in Replica |-> Blank]

Move(r, v, d) ==
    /\ version' = [version EXCEPT ![r] = v]
    /\ view' = [view EXCEPT ![r] = d]

PublishVersion(d) ==
    /\ history' = Append(history, d)
    /\ Move(Owner, Len(history) + 1, d)

CatchUp(r, v) ==
    /\ v > version[r]
    /\ Move(r, v, history[v])
    /\ UNCHANGED history

Next ==
    \/ \E d \in Document : PublishVersion(d)
    \/ \E r \in Replica, v \in 1..Len(history) : CatchUp(r, v)

Spec == Init /\ [][Next]_<<history, version, view>>
=============================================================================
