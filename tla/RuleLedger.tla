---------------------------- MODULE RuleLedger ----------------------------
(***************************************************************************)
(* What the gateway code promises about the router's rules, whatever       *)
(* fails: it creates rules under fresh UUIDs, only for the targets its     *)
(* containers ask for, deletes one of its own rules at a time, has a       *)
(* service load the rules as they are configured, and never touches a rule *)
(* of somebody else.                                                       *)
(***************************************************************************)
CONSTANTS
  Kinds, Containers,
  Wanted,     \* Wanted[k][c]: the targets container c asks for
  Foreign     \* the rules of somebody else

VARIABLES
  rows,       \* rules in the router's configuration
  live        \* rules its services were last loaded with

vars == <<rows, live>>

Init == rows = Foreign /\ live = Foreign

Create(r) ==
  /\ r.kind \in Kinds /\ r.cid \in Containers
  /\ r.target \in Wanted[r.kind][r.cid]
  /\ \A s \in rows : s.uuid # r.uuid
  /\ rows' = rows \cup {r}
  /\ UNCHANGED live

Remove(r) ==
  /\ r \in rows \ Foreign
  /\ rows' = rows \ {r}
  /\ UNCHANGED live

Load(k) ==
  /\ live' = {r \in rows : r.kind = k} \cup {r \in live : r.kind # k}
  /\ UNCHANGED rows

Next ==
  \/ \E r \in rows' \ rows : Create(r)   \* the router chooses the UUID
  \/ \E r \in rows : Remove(r)
  \/ \E k \in Kinds : Load(k)

Spec == Init /\ [][Next]_vars
=============================================================================
