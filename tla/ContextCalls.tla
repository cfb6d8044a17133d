---------------------------- MODULE ContextCalls ----------------------------
(***************************************************************************)
(* The calls that edit a node's context document at a path: update_ctx,    *)
(* replace_ctx and the claims of start-up in src/src/device.rs, delete_ctx *)
(* and clear_ctx in src/p2p/src/node.rs, SensorUpdate in                   *)
(* src/p2p/src/bridge.rs.                                                  *)
(*                                                                         *)
(* An edit is two commands to the runtime: one reads the whole document,   *)
(* the other sends the whole edited document back.  Between the two the    *)
(* other tasks of the program and the contexts of other nodes change the   *)
(* document.  The task of the bridge is one of the tasks; the task of the  *)
(* event loop first makes the calls of the Started handler, in their order.*)
(***************************************************************************)
EXTENDS DeviceQuery

CONSTANTS
    Task,         \* the tasks of the program that make calls
    EventLoop,    \* the one that handles the node's events
    StartUp,      \* the calls of its Started handler
    Menu,         \* the calls each task makes, the event loop after those
    Idle,         \* "in no call"
    NewDocument,  \* the document a node starts with
    Remote,       \* documents that arrive from other nodes
    MaxArrivals   \* bound: how many of them arrive

CallType == {"Update", "Replace", "Delete", "Clear", "Claim"}
IsCall(c) ==
    /\ DOMAIN c = {"type", "path", "value"}
    /\ c.type \in CallType /\ c.path \in Path
    /\ IsTree(c.value) /\ c.value = [r \in DOMAIN c.value |-> c.value[r]]

Calls(t) == Menu[t] \cup (IF t = EventLoop THEN Range(StartUp) ELSE {})

ASSUME MenuAssumption ==
    \A t \in Task : Idle \notin Calls(t) /\ \A c \in Calls(t) : IsCall(c)
ASSUME RemoteAssumption == \A r \in Remote \cup {NewDocument} : IsTree(r)
ASSUME ArrivalsAssumption == MaxArrivals \in Nat

\* Nothing read yet: a document has at least the empty path.
NoCopy == <<>>

VARIABLES
    doc,       \* the document of the node's context
    starting,  \* the calls the Started handler has still to make
    pending,   \* the call each task is in, between its commands
    copy,      \* the document as that call has read it
    arrivals   \* how many documents have arrived

vars == <<doc, starting, pending, copy, arrivals>>

Fails(c, d) == IF c.type = "Delete" THEN DeleteFails(d, c.path) ELSE SetFails(d, c.path)

Edited(c, d) ==
    IF c.type = "Delete" THEN DeleteNestedValue(d, c.path) ELSE SetNestedValue(d, c.path, c.value)

TypeOK ==
    /\ IsTree(doc)
    /\ DOMAIN pending = Task /\ DOMAIN copy = Task
    /\ \A t \in Task :
          /\ pending[t] \in Calls(t) \cup {Idle}
          /\ copy[t] # NoCopy =>
                pending[t] # Idle /\ IsTree(copy[t]) /\ ~Fails(pending[t], copy[t])
    /\ arrivals \in 0..MaxArrivals

Init ==
    /\ doc = NewDocument
    /\ starting = StartUp
    /\ pending = [t \in Task |-> Idle]
    /\ copy = [t \in Task |-> NoCopy]
    /\ arrivals = 0

Starts(t) == t = EventLoop /\ starting # <<>>
Offered(t) == IF Starts(t) THEN {Head(starting)} ELSE Menu[t]
EndCall(t) == starting' = IF Starts(t) THEN Tail(starting) ELSE starting

(* The first command: read.  An edit that fails ends the call here.        *)
ReadFor(t, c) ==
    /\ IF Fails(c, doc)
       THEN /\ pending' = [pending EXCEPT ![t] = Idle]
            /\ UNCHANGED copy
            /\ EndCall(t)
       ELSE /\ pending' = [pending EXCEPT ![t] = c]
            /\ copy' = [copy EXCEPT ![t] = doc]
            /\ UNCHANGED starting
    /\ UNCHANGED <<doc, arrivals>>

Read(t, c) ==
    /\ pending[t] = Idle /\ c \in Offered(t)
    /\ c.type \in {"Update", "Replace", "Delete"}
    /\ ReadFor(t, c)

(* A claim looks first whether there is something at its path.             *)
CheckClaim(t, c) ==
    /\ pending[t] = Idle /\ c \in Offered(t)
    /\ c.type = "Claim"
    /\ IF Has(doc, c.path)
       THEN EndCall(t) /\ UNCHANGED pending
       ELSE pending' = [pending EXCEPT ![t] = c] /\ UNCHANGED starting
    /\ UNCHANGED <<doc, copy, arrivals>>

ReadClaim(t) ==
    /\ pending[t] # Idle /\ copy[t] = NoCopy
    /\ ReadFor(t, pending[t])

(* The second command: UpdateSelfContext merges what it is sent into the   *)
(* document, ReplaceSelfContext puts it in its place.                      *)
Write(t) ==
    /\ pending[t] # Idle /\ copy[t] # NoCopy
    /\ LET edited == Edited(pending[t], copy[t])
       IN  doc' = IF pending[t].type \in {"Update", "Claim"}
                  THEN DeepMerge(doc, edited, FALSE) ELSE edited
    /\ pending' = [pending EXCEPT ![t] = Idle]
    /\ copy' = [copy EXCEPT ![t] = NoCopy]
    /\ EndCall(t)
    /\ UNCHANGED arrivals

(* clear_ctx reads nothing.                                                *)
Clear(t, c) ==
    /\ pending[t] = Idle /\ c \in Offered(t)
    /\ c.type = "Clear"
    /\ doc' = EmptyObject
    /\ EndCall(t)
    /\ UNCHANGED <<pending, copy, arrivals>>

(* A context of another node is merged, in whatever branch of Merge the    *)
(* clocks choose.                                                          *)
Arrive(r) ==
    /\ arrivals < MaxArrivals
    /\ doc' \in {r, DeepMerge(doc, r, TRUE), DeepMerge(doc, r, FALSE)}
    /\ arrivals' = arrivals + 1
    /\ UNCHANGED <<starting, pending, copy>>

Next ==
    \/ \E t \in Task : \E c \in Calls(t) : Read(t, c) \/ CheckClaim(t, c) \/ Clear(t, c)
    \/ \E t \in Task : ReadClaim(t) \/ Write(t)
    \/ \E r \in Remote : Arrive(r)

Spec == Init /\ [][Next]_vars

-----------------------------------------------------------------------------
(* Properties.                                                             *)

Apart(p, q) == ~IsPrefix(p, q) /\ ~IsPrefix(q, p)
SameAt(a, b, q) == (q \in DOMAIN a <=> q \in DOMAIN b) /\ (q \in DOMAIN a => a[q] = b[q])

Writes(t) == pending[t] # Idle /\ copy[t] # NoCopy /\ pending'[t] = Idle

(* An edit changes the document away from its path only where its copy had *)
(* gone stale: what it undoes there is what changed since it read.         *)
ChangesElsewhereWereStale ==
    [][\A t \in Task : Writes(t) =>
          \A q \in DOMAIN doc \cup DOMAIN doc' :
             Apart(pending[t].path, q) /\ ~SameAt(doc, doc', q) => ~SameAt(doc, copy[t], q)]_vars

(* An edit nothing came between has the effect it names and no other: away *)
(* from its path only the objects on the way to it are new.                *)
Untouched(p, old, new) ==
    \A q \in DOMAIN old \cup DOMAIN new :
       ~IsPrefix(p, q) =>
          \/ q \in Above(p) /\ Has(new, q) /\ new[q] = Object
          \/ Has(new, q) /\ Has(old, q) /\ new[q] = old[q]

Exact(c, old, new) ==
    /\ Untouched(c.path, old, new)
    /\ CASE c.type = "Delete" -> IF c.path = <<>> THEN new = EmptyObject ELSE ~Has(new, c.path)
         [] c.type = "Replace" -> At(new, c.path) = c.value
         [] OTHER -> At(new, c.path) = IF Has(old, c.path)
                                       THEN DeepMerge(At(old, c.path), c.value, FALSE)
                                       ELSE c.value

UncontendedCallsAreExact ==
    [][\A t \in Task : Writes(t) /\ copy[t] = doc => Exact(pending[t], doc, doc')]_vars

(* No interleaving of edits and arrivals leaves an entry under the devices *)
(* that is no capabilities: one would fail every query of the node.        *)
CapsStayDecodable == Has(doc, CapsPath) => QueryAnswers(doc)
=============================================================================
