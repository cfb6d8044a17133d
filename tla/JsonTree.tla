------------------------------ MODULE JsonTree ------------------------------
(***************************************************************************)
(* The JSON document of a context as a tree, and the edits at a dotted     *)
(* path (src/p2p/src/protocols/context.rs, src/p2p/src/node.rs).           *)
(*                                                                         *)
(* A document is a function from the paths it has, sequences of names, to  *)
(* what is there: a leaf, or Object, whose members are the paths one name  *)
(* longer.  The empty path is the whole document.  An array is a leaf: no  *)
(* edit looks into one.                                                    *)
(***************************************************************************)
EXTENDS Naturals, Sequences, SequencesExt

CONSTANTS
    Name,    \* the names of object members
    Leaf,    \* everything that is not an object
    Object

ASSUME ObjectAssumption == Object \notin Leaf

Path == Seq(Name)
EmptyObject == [r \in {<<>>} |-> Object]

Above(p) == {SubSeq(p, 1, n) : n \in 0..(Len(p) - 1)}
Rest(p, r) == SubSeq(r, Len(p) + 1, Len(r))

IsTree(d) ==
    /\ DOMAIN d \subseteq Path /\ <<>> \in DOMAIN d
    /\ \A r \in DOMAIN d :
          /\ d[r] \in Leaf \cup {Object}
          /\ \A q \in Above(r) : q \in DOMAIN d /\ d[q] = Object

-----------------------------------------------------------------------------
(* get_ctx: what is at a path, if something is.                            *)

Has(d, p) == p \in DOMAIN d
At(d, p) == [r \in {Rest(p, q) : q \in {q \in DOMAIN d : IsPrefix(p, q)}} |-> d[p \o r]]

-----------------------------------------------------------------------------
(* set_nested_value.  A root that is no object becomes one; any other leaf *)
(* on the way is an error.                                                 *)

Rooted(d) == IF d[<<>>] = Object THEN d ELSE EmptyObject

SetFails(d, p) ==
    \E q \in Above(p) : q \in DOMAIN Rooted(d) /\ Rooted(d)[q] # Object

(* Mutant: the members that were below the path stay.                      *)
SetNestedValueMerging(d, p, v) ==
    LET old == Rooted(d)
        new == {p \o r : r \in DOMAIN v}
    IN  [r \in DOMAIN old \cup Above(p) \cup new |->
            IF r \in new THEN v[Rest(p, r)] ELSE IF r \in Above(p) THEN Object ELSE old[r]]

(* Mutant: no objects are put on the way.                                  *)
SetNestedValueDetached(d, p, v) ==
    LET old == Rooted(d)
        kept == {r \in DOMAIN old : ~IsPrefix(p, r)}
    IN  [r \in kept \cup {p \o s : s \in DOMAIN v} |->
            IF IsPrefix(p, r) THEN v[Rest(p, r)] ELSE old[r]]

SetNestedValue(d, p, v) ==
    LET old == Rooted(d)
        kept == {r \in DOMAIN old : ~IsPrefix(p, r)}
    IN  [r \in kept \cup Above(p) \cup {p \o s : s \in DOMAIN v} |->
            IF IsPrefix(p, r) THEN v[Rest(p, r)]
            ELSE IF r \in Above(p) THEN Object ELSE old[r]]

(* delete_nested_value.  Every name on the way must be there; the last one *)
(* need not.                                                               *)

DeleteFails(d, p) == \E q \in Above(p) : q \notin DOMAIN d \/ d[q] # Object

(* Mutants: something is left at the path; the object around it goes.      *)
DeleteNestedValueLeaving(d, p) ==
    IF p = <<>> THEN EmptyObject
    ELSE [r \in {q \in DOMAIN d : ~IsPrefix(p, q) \/ p = q} |->
             IF r = p THEN CHOOSE v \in Leaf : TRUE ELSE d[r]]
DeleteNestedValueAround(d, p) ==
    IF p = <<>> THEN EmptyObject
    ELSE [r \in {<<>>} \cup {q \in DOMAIN d : ~IsPrefix(Front(p), q)} |-> d[r]]

DeleteNestedValue(d, p) ==
    IF p = <<>> THEN EmptyObject
    ELSE [r \in {q \in DOMAIN d : ~IsPrefix(p, q)} |-> d[r]]

-----------------------------------------------------------------------------
(* deep_merge(a, b, prefer_a): objects are merged member by member; where  *)
(* one of the two is no object the preferred one stays, whole.             *)

Clash(a, b, r) == r \in DOMAIN a \cap DOMAIN b /\ ~(a[r] = Object /\ b[r] = Object)

(* Mutants: members are added below what stayed a leaf; the other side is  *)
(* preferred.                                                              *)
DeepMergeUnchecked(a, b, preferA) ==
    LET winner == IF preferA THEN a ELSE b
        loser == IF preferA THEN b ELSE a
    IN  [r \in DOMAIN winner \cup DOMAIN loser |->
            IF r \in DOMAIN winner THEN winner[r] ELSE loser[r]]
DeepMergeSwapped(a, b, preferA) ==
    [r \in DOMAIN a \cup {q \in DOMAIN b : \A r \in Above(q) \cup {q} : ~Clash(a, b, r)} |->
        IF r \in DOMAIN a \cap DOMAIN b /\ preferA THEN b[r]
        ELSE IF r \in DOMAIN a THEN a[r] ELSE b[r]]

DeepMerge(a, b, preferA) ==
    LET winner == IF preferA THEN a ELSE b
        loser == IF preferA THEN b ELSE a
        added == {r \in DOMAIN loser : \A q \in Above(r) \cup {r} : ~Clash(a, b, q)}
    IN  [r \in DOMAIN winner \cup added |->
            IF r \in DOMAIN winner THEN winner[r] ELSE loser[r]]
=============================================================================
