---------------------------- MODULE DeviceQuery ----------------------------
(***************************************************************************)
(* When a query over the devices can be answered (execute_query in         *)
(* src/src/device.rs): the entry of every device in the context document   *)
(* has to decode as the DeviceCapabilities of src/src/capability.rs.       *)
(*                                                                         *)
(* A device's entry is a subtree.  What serde asks of it is given by two   *)
(* functions on the places in an entry: at a place with a struct or a      *)
(* tagged enum an object has the members of one of its variants, and an    *)
(* optional field or an entry of a HashMap has, if it is there, a value of *)
(* its kind.  Members no field is named for are ignored, as serde does.    *)
(***************************************************************************)
EXTENDS JsonTree

CONSTANTS
    CapsPath,    \* avi.device.caps
    Variants,    \* by place: for each variant, its required members and their values
    Optional     \* by place: the values it may have, if it has any

ASSUME CapsAssumption ==
    /\ CapsPath \in Path
    /\ DOMAIN Variants \subseteq Path /\ DOMAIN Optional \subseteq Path
    /\ \A p \in DOMAIN Variants : \A v \in Variants[p] : DOMAIN v \subseteq Name

(* A variant of an enum tagged by "type" asks for that tag, so at most one *)
(* fits.                                                                   *)
HasMembers(d, p, variant) ==
    \A f \in DOMAIN variant : Has(d, p \o <<f>>) /\ d[p \o <<f>>] \in variant[f]

Decodes(caps) ==
    /\ caps[<<>>] = Object
    /\ \A p \in DOMAIN caps \cap DOMAIN Optional : caps[p] \in Optional[p]
    /\ \A p \in DOMAIN caps \cap DOMAIN Variants :
          caps[p] = Object => \E v \in Variants[p] : HasMembers(caps, p, v)

Devices(doc) == {n \in Name : Has(doc, CapsPath \o <<n>>)}
CapsOf(doc, n) == At(doc, CapsPath \o <<n>>)

(* HashMap<String, DeviceCapabilities> from the document: all of it or     *)
(* nothing.                                                                *)
QueryAnswers(doc) ==
    /\ Has(doc, CapsPath) /\ doc[CapsPath] = Object
    /\ \A n \in Devices(doc) : Decodes(CapsOf(doc, n))
=============================================================================
