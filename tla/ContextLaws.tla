---------------------------- MODULE ContextLaws ----------------------------
(***************************************************************************)
(* The laws of the operators that the edits and the merges share, stated   *)
(* of every document that is reached: that the merge by paths is the       *)
(* recursion of the code, that the replicated contexts may be seen as maps *)
(* of paths; and what a writer must keep to for queries to be answered.    *)
(***************************************************************************)
EXTENDS ContextCalls

CONSTANTS
    KeyPath,     \* the paths a map of paths looks at
    Nothing      \* what it has where a document has nothing

ASSUME KeyPathAssumption == KeyPath \subseteq Path /\ Nothing \notin Leaf \cup {Object}

\* The documents the node's own meets in a merge.
Known == Remote \cup {copy[t] : t \in {u \in Task : copy[u] # NoCopy}}

-----------------------------------------------------------------------------
(* Merges.                                                                 *)

Members(d) == {n \in Name : Has(d, <<n>>)}

\* deep_merge as it is written: two objects member by member, the members
\* that both have by the same function again; of anything else one stays.
MergesMembers(a, b, preferA) ==
    LET merged == DeepMerge(a, b, preferA)
    IN  IF a[<<>>] = Object /\ b[<<>>] = Object
        THEN /\ merged[<<>>] = Object
             /\ Members(merged) = Members(a) \cup Members(b)
             /\ \A n \in Members(merged) :
                   At(merged, <<n>>) =
                      IF n \notin Members(b) THEN At(a, <<n>>)
                      ELSE IF n \notin Members(a) THEN At(b, <<n>>)
                      ELSE DeepMerge(At(a, <<n>>), At(b, <<n>>), preferA)
        ELSE merged = IF preferA THEN a ELSE b

(* The merge by paths satisfies the recursion of deep_merge in every pair  *)
(* of subtrees of documents that meet.  Documents are finite, so nothing   *)
(* else does.                                                              *)
MergeIsRecursive ==
    \A other \in Known, preferA \in BOOLEAN : \A p \in DOMAIN doc \cap DOMAIN other :
       MergesMembers(At(doc, p), At(other, p), preferA)

(* The replicated contexts are modelled as maps of paths: where no leaf    *)
(* meets an object, their merge is the merge of the trees; and where the   *)
(* map looks at every path of two documents, it tells them apart exactly   *)
(* if they differ, empty objects included, as self.data != other.data does.*)
PathMap(d) == [k \in KeyPath |-> IF Has(d, k) THEN d[k] ELSE Nothing]

Maps == INSTANCE AviContext
          WITH Node <- Task, Key <- KeyPath, Value <- Leaf \cup {Object}, Absent <- Nothing,
               Skeleton <- PathMap(NewDocument), Time <- {0}

LeafMeetsObject(a, b) == \E r \in DOMAIN a \cap DOMAIN b : (a[r] = Object) # (b[r] = Object)

MapsOfSame(a, b) ==
    DOMAIN a \cup DOMAIN b \subseteq KeyPath =>
       (PathMap(a) = PathMap(b) <=> \A q \in DOMAIN a \cup DOMAIN b : SameAt(a, b, q))

PathMapsAgree ==
    \A other \in Known :
       /\ MapsOfSame(doc, other)
       /\ ~LeafMeetsObject(doc, other) =>
             \A preferA \in BOOLEAN :
                PathMap(DeepMerge(doc, other, preferA))
                  = Maps!DeepMerge(PathMap(doc), PathMap(other), preferA)

-----------------------------------------------------------------------------
(* Edits under the devices.                                                *)

Entry(n) == CapsPath \o <<n>>

\* Entries under the devices can be read back as capabilities, if there are any.
CapsSound(d) == Has(d, CapsPath) => QueryAnswers(d)

(* What a writer must keep to, for queries to be answered for ever: a call *)
(* that sets a value would, on an empty document, leave whole entries or   *)
(* none; no call deletes a member of an entry that some variant asks for;  *)
(* and the other nodes send documents that can be read.  Nothing in the    *)
(* code checks it.                                                         *)
WritersKeepCaps ==
    /\ \A t \in Task : \A c \in Calls(t) :
          /\ c.type \in {"Update", "Replace", "Claim"} =>
                CapsSound(SetNestedValue(EmptyObject, c.path, c.value))
          /\ c.type = "Delete" =>
                \A n \in Name, p \in DOMAIN Variants : \A v \in Variants[p] : \A f \in DOMAIN v :
                   c.path # Entry(n) \o p \o <<f>>
    /\ \A r \in Remote \cup {NewDocument} : CapsSound(r)
=============================================================================
