--------------------------- MODULE VaultReferences ---------------------------
(***************************************************************************)
(* The store of vault references: the vaults the user added, the current   *)
(* one, and the references that were deleted and whose files are still to  *)
(* be removed.  Every operation reads the store, changes it and replaces   *)
(* the file under the store's lock, so each is one step.                   *)
(***************************************************************************)
EXTENDS Naturals

CONSTANT NoRef

(* Adding a vault makes it current, and a cleanup that was still pending   *)
(* for it is called off.                                                   *)
upsert(store, ref) ==
    [vaults |-> store.vaults \cup {ref}, current |-> ref,
     cleanups |-> store.cleanups \ {ref}]

mark_current(store, ref) == [store EXCEPT !.current = ref]

(* The reference goes, and in the same write the intent to remove what     *)
(* was kept for it appears.                                                *)
delete_with_current_policy(store, ref) ==
    [vaults |-> store.vaults \ {ref},
     current |-> IF store.current = ref THEN NoRef ELSE store.current,
     cleanups |-> store.cleanups \cup {ref}]

IntentIsCurrent(store, ref) == ref \in store.cleanups /\ ref \notin store.vaults
CleanupDone(store, ref) == [store EXCEPT !.cleanups = @ \ {ref}]

(* The list of recent vaults puts the current one first; the rest is       *)
(* ordered by last use.                                                    *)
source_for(store, ref) == ref \in store.vaults
=============================================================================
