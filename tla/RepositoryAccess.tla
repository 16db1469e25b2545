--------------------------- MODULE RepositoryAccess ---------------------------
(***************************************************************************)
(* What backup.lock and backup.state promise together: one user of the     *)
(* restic repositories under the lock at a time, and a notice that says    *)
(* who it is, written and withdrawn by nobody but that user.  What they do *)
(* not promise is part of it: a mishap may leave the notice up, and a      *)
(* restore whose worker was killed runs on although its lock is gone.  How *)
(* a user waits, polls, gives up or probes is left to BackupLock, which    *)
(* implements this specification.                                          *)
(***************************************************************************)
EXTENDS Naturals

CONSTANTS
    Workers,    \* backup scripts and verification restores
    Restorers,  \* those of them whose child does not inherit the lock
    Survivor,   \* a child process that outlives its killed backup script
    Nobody      \* there is no notice

VARIABLES
    users,    \* who may be running restic under the lock
    strays,   \* whose restic may be running although the lock is not theirs
    notice,   \* who the notice names
    mishaps   \* how often a process was killed or failed to clean up

vars == <<users, strays, notice, mishaps>>

Init ==
    /\ users = {}
    /\ strays = {}
    /\ notice = Nobody
    /\ mishaps = 0

(* A worker comes in only when nobody else is there: the survivor of a     *)
(* killed script keeps the others out, a stray does not.                   *)
Enter(w) ==
    /\ users = {}
    /\ users' = {w}
    /\ UNCHANGED <<strays, notice, mishaps>>

(* The worker inside puts up its notice or takes the notice down; one that *)
(* a mishap left behind it may replace or take down, never confirm.        *)
Publish(w) ==
    /\ users = {w}
    /\ notice' \in {w, Nobody}
    /\ UNCHANGED <<users, strays, mishaps>>

(* It leaves no notice behind, not even another one's. *)
Leave(w) ==
    /\ users = {w}
    /\ notice = Nobody
    /\ users' = {}
    /\ UNCHANGED <<strays, notice, mishaps>>

(* A process is killed, or ends without cleaning up: its notice stays.  It *)
(* was waiting, or it was inside and is gone, with or without a child that *)
(* keeps the others out; a restorer's child runs on without doing so.      *)
Mishap ==
    /\ mishaps' = mishaps + 1
    /\ \/ UNCHANGED <<users, strays>>
       \/ users' = {} /\ UNCHANGED strays
       \/ users # {} /\ users' = {Survivor} /\ UNCHANGED strays
       \/ users \subseteq Restorers /\ users' = {} /\ strays' = strays \cup users
    /\ UNCHANGED notice

SurvivorEnds ==
    /\ users = {Survivor}
    /\ users' = {}
    /\ UNCHANGED <<strays, notice, mishaps>>

StrayEnds(w) ==
    /\ w \in strays
    /\ strays' = strays \ {w}
    /\ UNCHANGED <<users, notice, mishaps>>

Next ==
    \/ \E w \in Workers : Enter(w) \/ Publish(w) \/ Leave(w) \/ StrayEnds(w)
    \/ Mishap
    \/ SurvivorEnds

Spec == Init /\ [][Next]_vars

=============================================================================
