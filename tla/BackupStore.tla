----------------------------- MODULE BackupStore -----------------------------
(***************************************************************************)
(* What the backups of a preset promise: numbered versions, the newest on  *)
(* top, added one at a time, of which any but the newest may be dropped.  A *)
(* loss of power goes back no further than the last time the directory was *)
(* known to be on the disk.                                                *)
(***************************************************************************)
EXTENDS Naturals

CONSTANT Numbers   \* of versions and of the saves, which are their contents

VARIABLES
  store,      \* the content of each version
  mayFind     \* the stores a loss of power may leave behind

storeVars == <<store, mayFind>>

StoreInit == store = [v \in {} |-> 0] /\ mayFind = {store}

Becomes(s) == store' = s /\ mayFind' = mayFind \cup {s}

\* A newer content under a higher number than any there is.
Add ==
  \E v, c \in Numbers :
    /\ \A u \in DOMAIN store : u < v /\ store[u] < c
    /\ Becomes([u \in DOMAIN store \cup {v} |-> IF u = v THEN c ELSE store[u]])

\* The oldest, unless its file could not be removed.
Drop ==
  \E v \in DOMAIN store :
    /\ \E u \in DOMAIN store : v < u
    /\ Becomes([u \in DOMAIN store \ {v} |-> store[u]])

Sync == store' = store /\ mayFind' = {store}

LosePower == store' \in mayFind /\ mayFind' = {store'}

StoreNext == Add \/ Drop \/ Sync \/ LosePower
StoreSpec == StoreInit /\ [][StoreNext]_storeVars
=============================================================================
