--------------------------- MODULE LoaderHistory ---------------------------
(***************************************************************************)
(* The whole loader with the history of PushHistory, which the steps of    *)
(* the push take along, and with what becomes of the one temporary file    *)
(* when updates get at it together.                                        *)
(***************************************************************************)
EXTENDS Loader, PushHistory

VARIABLES
  crossed,  \* updates at the temporary file that have met another one there
  spoiled   \* an update that was crossed was the last to change the autosave file

loaderHistoryVars == <<loaderVars, history, crossed, spoiled>>

LoaderHistoryInit ==
  /\ LoaderInit
  /\ HistoryInit
  /\ crossed = {} /\ spoiled = FALSE

\* From the truncation of the temporary file to its rename.
AtTmp(u) == saving[u] \in {"write", "rename"}

\* Update u writes to the autosave file, which it has opened as the temporary
\* one, or moves the temporary file into its place.
Replaces(u) ==
  \/ saving[u] = "write" /\ saving'[u] # "write" /\ saved' # saved
  \/ saving[u] = "rename" /\ saving'[u] # "rename" /\ tmp' # tmp

NoteTmp ==
  /\ crossed' = {u \in Updates : AtTmp(u)' /\
                   (u \in crossed \/ \E v \in Updates \ {u} : AtTmp(v)')}
  /\ spoiled' = IF \E u \in Updates : Replaces(u) THEN \E u \in crossed : Replaces(u) ELSE spoiled

LoaderHistoryNext == LoaderNext /\ Noted /\ NoteTmp

LoaderHistorySpec == LoaderHistoryInit /\ [][LoaderHistoryNext]_loaderHistoryVars

----------------------------------------------------------------------------
(* Properties *)

\* Whatever fails and whenever the controller dies, the autosave file is a
\* whole Caddyfile: it is renamed into place only when it has been written
\* (loader.go:274-284).  Updates that are in the block together may spoil it,
\* until the next one has the temporary file to itself.
AutosaveIsWhole == ~spoiled => saved \in Caddyfiles \cup {None}
=============================================================================
