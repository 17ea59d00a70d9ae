--------------------------- MODULE GatewayHistory ---------------------------
(***************************************************************************)
(* Gateway with a history of where passes got in each other's way: nothing *)
(* in the code keeps two passes apart, so the properties say what holds    *)
(* for every container that no two passes were at together, while passes   *)
(* overlap elsewhere.  No step depends on the history.                     *)
(***************************************************************************)
EXTENDS Gateway

VARIABLES
  touched,    \* what each pass has had calls to make for since it began
  disturbed,  \* what the passes that overlap with it have, before it or since
  contested   \* what two passes had calls to make for at once, until no rule of
              \* it is left and no call

history == <<touched, disturbed, contested>>
historyVars == <<vars, history>>

HistoryInit ==
  /\ Init
  /\ touched = [p \in Passes |-> {}]
  /\ disturbed = [p \in Passes |-> {}]
  /\ contested = {}

\* The rules a pass is busy with: those of one kind of one container.
InHand(p) == IF dels[p] = {} /\ adds[p] = {} THEN {} ELSE {<<kind[p], cid[p]>>}

\* The rules of kind k of container c, as long as there is anything to them.
Remains(k, c) ==
  \/ \E r \in rows : r.kind = k /\ r.cid = c
  \/ \E p \in Passes : <<k, c>> \in InHand(p)

Contested(k, c) == \E p, q \in Passes : p # q /\ <<k, c>> \in InHand(p) \cap InHand(q)

NoteTouched ==
  touched' = [p \in Passes |-> IF pc'[p] = "idle" THEN {} ELSE touched[p] \cup InHand(p)']

NoteDisturbed ==
  disturbed' = [p \in Passes |->
    IF pc'[p] = "idle" THEN {}
    ELSE disturbed[p] \cup UNION {touched'[q] : q \in Passes \ {p}}]

NoteContested ==
  contested' = {e \in Kinds \X Containers :
                  \/ Contested(e[1], e[2])'
                  \/ e \in contested /\ Remains(e[1], e[2])'}

Noted ==
  IF UNCHANGED vars THEN UNCHANGED history
  ELSE NoteTouched /\ NoteDisturbed /\ NoteContested

HistoryNext == Next /\ Noted

HistorySpec == HistoryInit /\ [][HistoryNext]_historyVars

HistoryFairSpec == HistorySpec /\ Fairness

----------------------------------------------------------------------------
(* Properties *)

\* A target of a container has one rule, across passes that overlap and across
\* restarts, unless two passes were busy with that container together.
NoDuplicateRules ==
  \A r, s \in rows :
    Owned(r) /\ r.kind = s.kind /\ r.cid = s.cid /\ r.target = s.target =>
      r = s \/ <<r.kind, r.cid>> \in contested

\* What the rules of kind k in R that are on record do for containers; those that
\* a failing deletion took off the record do not count.
Provides(k, R) ==
  Provided(k, {r \in R : Owned(r) => r.uuid \in OnRecord(k, r.cid)})

\* A pass that ends has brought the rules in effect in line with the containers
\* it listed, whatever earlier passes left behind: nothing of others, nothing
\* missing, nothing unpublished, for every container that no overlapping pass
\* touched.  A container that earlier passes fought over may still lack rules.
PassesTakeEffect ==
  [][\A p \in Passes, k \in Kinds : pc[p] = "publish" /\ pc'[p] = "idle" =>
       /\ \A e \in Provides(k, live)' :
            e \in Asked(k, current[p]) \/ <<k, e[1]>> \in disturbed[p]
       /\ \A e \in Asked(k, current[p]) :
            e \in Provides(k, live)' \/ <<k, e[1]>> \in disturbed[p] \cup contested]_vars
=============================================================================
