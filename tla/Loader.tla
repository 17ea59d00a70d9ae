------------------------------- MODULE Loader -------------------------------
(***************************************************************************)
(* DockerLoader.update as a whole: module ConfigPush with what it leaves   *)
(* out, the autosave file between the comparison of the Caddyfiles and     *)
(* the adapter, and the gateway pass after the servers have answered.      *)
(*                                                                         *)
(* The file is written as Caddyfile.autosave.tmp and renamed.  All updates *)
(* use the one temporary name, so an update may truncate or move away the  *)
(* file another one has open; fd says where that file is now.              *)
(*                                                                         *)
(* A gateway pass is one step here, the one at which it lists the          *)
(* containers; module Gateway has the rest of it.                          *)
(***************************************************************************)
EXTENDS ConfigPush

CONSTANTS
  Empty, Mixed,     \* contents of a file that are no Caddyfile
  MaxDiskFailures   \* budget

VARIABLES
  saved,            \* contents of Caddyfile.autosave, None while there is none
  tmp,              \* contents of Caddyfile.autosave.tmp, None while there is none
  saving,           \* position of update u in the autosave block
  fd,               \* the file update u has open: "tmp", "saved", "gone", or "none"
  diskFailures,     \* budget used up
  passing,          \* updates that are about to reconcile the gateway
  unreconciled      \* containers have changed since a gateway pass last listed them

disk == <<saved, tmp, saving, fd, diskFailures>>
loaderVars == <<vars, disk, passing, unreconciled>>

----------------------------------------------------------------------------
LoaderInit ==
  /\ Init
  /\ saved = None /\ tmp = None
  /\ saving = [u \in Updates |-> "no"]
  /\ fd = [u \in Updates |-> "none"]
  /\ diskFailures = 0
  /\ passing = {}
  /\ unreconciled = TRUE

(* Docker and the death of the controller; servers run on (see ConfigPush) *)

\* The change is one of containers, as the gateway pass is concerned.
ChangeCaddyfile(c) ==
  /\ Change(c)
  /\ unreconciled' = TRUE
  /\ UNCHANGED <<disk, passing>>

\* Containers change and the Caddyfile does not: labels of the gateway, or
\* containers of a remote host, which the generator does not read.
ChangeElsewhere ==
  /\ ~unreconciled
  /\ unreconciled' = TRUE
  /\ UNCHANGED <<vars, disk, passing>>

\* The files stay as they are.
CrashController ==
  /\ Crash
  /\ saving' = [u \in Updates |-> "no"]
  /\ fd' = [u \in Updates |-> "none"]
  /\ passing' = {}
  /\ UNCHANGED <<saved, tmp, diskFailures, unreconciled>>

----------------------------------------------------------------------------
(* The autosave block of update u *)

DiskFails ==
  /\ diskFailures < MaxDiskFailures
  /\ diskFailures' = diskFailures + 1

\* os.WriteFile opens the file: it is created, or truncated.
OpenTmp(u) ==
  /\ saving[u] = "open"
  /\ \/ /\ tmp' = Empty
        /\ fd' = [fd EXCEPT ![u] = "tmp"]
        /\ saving' = [saving EXCEPT ![u] = "write"]
        /\ UNCHANGED diskFailures
     \/ /\ DiskFails
        /\ saving' = [saving EXCEPT ![u] = "no"]
        /\ UNCHANGED <<tmp, fd>>
  /\ UNCHANGED <<vars, saved, passing, unreconciled>>

\* Mutant of AfterFailedWrite: the file is moved into place all the same.
RenameAnyway == "rename"

AfterFailedWrite == "no"

\* What update u's writing makes of a file: it starts at the beginning, and
\* what another update wrote beyond its end stays.
Written(u, old) == IF old = Empty THEN {caddyfile[u]} ELSE {caddyfile[u], Mixed}

\* The write, with the close that follows; a failed one may leave a part.
WriteTmp(u) ==
  /\ saving[u] = "write"
  /\ \E ok \in BOOLEAN :
       /\ IF ok THEN UNCHANGED diskFailures ELSE DiskFails
       /\ saving' = [saving EXCEPT ![u] = IF ok THEN "rename" ELSE AfterFailedWrite]
       /\ CASE fd[u] = "tmp"   -> /\ tmp' \in IF ok THEN Written(u, tmp) ELSE {tmp, Mixed}
                                  /\ UNCHANGED saved
            [] fd[u] = "saved" -> /\ saved' \in IF ok THEN Written(u, saved) ELSE {saved, Mixed}
                                  /\ UNCHANGED tmp
            [] OTHER           -> UNCHANGED <<tmp, saved>>
  /\ fd' = [fd EXCEPT ![u] = "none"]
  /\ UNCHANGED <<vars, passing, unreconciled>>

\* Where a file that is open is after a rename.
Moved(f) == CASE f = "tmp" -> "saved" [] f = "saved" -> "gone" [] OTHER -> f

\* os.Rename; there is nothing to rename after another update did it.
Rename(u) ==
  /\ saving[u] = "rename"
  /\ saving' = [saving EXCEPT ![u] = "no"]
  /\ \/ /\ tmp # None
        /\ saved' = tmp /\ tmp' = None
        /\ fd' = [v \in Updates |-> Moved(fd[v])]
        /\ UNCHANGED diskFailures
     \/ /\ tmp = None
        /\ UNCHANGED <<saved, tmp, fd, diskFailures>>
     \/ /\ DiskFails
        /\ UNCHANGED <<saved, tmp, fd>>
  /\ UNCHANGED <<vars, passing, unreconciled>>

Save(u) == OpenTmp(u) \/ WriteTmp(u) \/ Rename(u)

----------------------------------------------------------------------------
(* update, in goroutine u *)

\* A goroutine that is in its gateway pass runs no other update.
Start(u) ==
  /\ u \notin passing
  /\ Fire(u)
  /\ UNCHANGED <<disk, passing, unreconciled>>

\* Mutant of ToSave: the file is written once, and never again.
OnlyAtFirst(u) == caddyfileChanged[u] /\ saved = None

\* A changed Caddyfile is saved before it is adapted.
ToSave(u) == caddyfileChanged[u]

RememberAndSave(u) ==
  /\ Remember(u)
  /\ saving' = [saving EXCEPT ![u] = IF ToSave(u) THEN "open" ELSE "no"]
  /\ UNCHANGED <<saved, tmp, fd, diskFailures, passing, unreconciled>>

\* The file has been dealt with, one way or another.
SavedFirst(u) == saving[u] = "no"

AdaptSaved(u) ==
  /\ SavedFirst(u)
  /\ Adapt(u)
  /\ UNCHANGED <<disk, passing, unreconciled>>

\* Mutant of PassDue: only an update that pushed something reconciles.
OnlyAfterPush(u) == caddyfileChanged[u]

\* An update that gets past wg.Wait ends with a pass.
PassDue(u) == TRUE

FinishPush(u) ==
  /\ Finish(u)
  /\ passing' = IF PassDue(u) THEN passing \cup {u} ELSE passing
  /\ UNCHANGED <<disk, unreconciled>>

Reconcile(u) ==
  /\ u \in passing
  /\ passing' = passing \ {u}
  /\ unreconciled' = FALSE
  /\ UNCHANGED <<vars, disk>>

OtherStep(u) ==
  /\ Generate(u) \/ Compare(u) \/ StoreJSON(u) \/ ReadLastVersion(u) \/ BumpVersion(u) \/ Launch(u)
  /\ UNCHANGED <<disk, passing, unreconciled>>

LoaderStep(u) ==
  \/ RememberAndSave(u) \/ Save(u) \/ AdaptSaved(u)
  \/ FinishPush(u) \/ Reconcile(u) \/ OtherStep(u)

ServerStep(u, s) == LocalServerStep(u, s) /\ UNCHANGED <<disk, passing, unreconciled>>
PostTo(u, s) == Post(u, s) /\ UNCHANGED <<disk, passing, unreconciled>>

LoaderNext ==
  \/ \E c \in Caddyfiles : ChangeCaddyfile(c)
  \/ ChangeElsewhere
  \/ CrashController
  \/ \E u \in Updates : Start(u) \/ LoaderStep(u)
  \/ \E u \in Updates, s \in Servers : ServerStep(u, s) \/ PostTo(u, s)

LoaderSpec == LoaderInit /\ [][LoaderNext]_loaderVars

\* As in ConfigPush; the disk and the router answer.
LoaderFairness ==
  /\ \A u \in Updates : WF_loaderVars(Start(u)) /\ WF_loaderVars(LoaderStep(u))
  /\ \A u \in Updates, s \in Servers : WF_loaderVars(ServerStep(u, s))
  /\ \A u \in Updates, s \in Servers \ HangingServers : WF_loaderVars(PostTo(u, s))

LoaderFairSpec == LoaderSpec /\ LoaderFairness

----------------------------------------------------------------------------
(* Properties *)

Contents == Caddyfiles \cup {None, Empty, Mixed}

\* Types; an update has a file open, and saves one, only before it adapts.
LoaderTypeOK ==
  /\ saved \in Contents
  /\ tmp \in Contents
  /\ saving \in [Updates -> {"no", "open", "write", "rename"}]
  /\ fd \in [Updates -> {"none", "tmp", "saved", "gone"}]
  /\ diskFailures \in Nat
  /\ passing \subseteq Updates
  /\ unreconciled \in BOOLEAN
  /\ \A u \in Updates : saving[u] # "no" => pc[u] = "adapt"
  /\ \A u \in Updates : fd[u] # "none" <=> saving[u] = "write"

\* If the disk does not fail, the autosave file comes to be the Caddyfile of
\* Docker's state, also when the adapter refuses it.
AutosaveFollows == <>[](diskFailures = 0 => saved = desired)

\* Every change of containers is followed by a gateway pass, also when the
\* adapter refuses the Caddyfile and while a server never answers.
GatewayFollows == unreconciled ~> ~unreconciled

----------------------------------------------------------------------------
ASSUME LoaderAssumption ==
  /\ Empty \notin Caddyfiles \cup {None}
  /\ Mixed \notin Caddyfiles \cup {None, Empty}
  /\ MaxDiskFailures \in Nat
=============================================================================
