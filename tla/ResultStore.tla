----------------------------- MODULE ResultStore -----------------------------
(***************************************************************************)
(* result_store.rs: one result blob per finished task in the object store. *)
(* A blob is its FinishedStatus and whether expires_at_ms has passed; the  *)
(* payload and the error text follow the status.                           *)
(***************************************************************************)
CONSTANTS Tasks

VARIABLES blob   \* blob[t]: the object <prefix>/results/<t>.json

FinishedStatus == {"completed", "failed", "cancelled"}
Blob == [status: FinishedStatus \union {"none"}, expired: BOOLEAN]
NoBlob == [status |-> "none", expired |-> FALSE]

StoreTypeOK == blob \in [Tasks -> Blob]
StoreInit == blob = [t \in Tasks |-> NoBlob]

HasBlob(t) == blob[t].status # "none"

\* put: last write wins, with a fresh expiry.
Put(t, status) ==
    blob' = [blob EXCEPT ![t] = [status |-> status, expired |-> FALSE]]

\* delete, used by the retention sweep.
Delete(t) == blob' = [blob EXCEPT ![t] = NoBlob]
==============================================================================
