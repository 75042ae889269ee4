--------------------------- MODULE UploadResource ---------------------------
(***************************************************************************)
(* What a client may rely on: an upload resource of the tus protocol.      *)
(* It is created, it grows by the next byte of the client's file and by    *)
(* nothing else, never beyond its length, its length is declared once,     *)
(* its completion is announced once and only when every byte is stored,    *)
(* and once it is terminated it never comes back.                          *)
(***************************************************************************)
EXTENDS Integers, Sequences

CONSTANTS Uploads

VARIABLES state,       \* "none", "open" or "gone"
          data,        \* the stored bytes
          size,        \* the length, once known
          deferred,    \* the length is not known yet
          finished     \* uploads whose completion has been announced

resourceVars == <<state, data, size, deferred, finished>>

ResourceInit ==
  /\ state = [u \in Uploads |-> "none"]
  /\ data = [u \in Uploads |-> <<>>]
  /\ size = [u \in Uploads |-> 0]
  /\ deferred = [u \in Uploads |-> TRUE]
  /\ finished = {}

Create(u) ==
  /\ state[u] = "none"
  /\ state' = [state EXCEPT ![u] = "open"]
  /\ \/ UNCHANGED <<size, deferred>>
     \/ /\ size'[u] \in Nat
        /\ size' = [size EXCEPT ![u] = size'[u]]
        /\ deferred' = [deferred EXCEPT ![u] = FALSE]
  /\ UNCHANGED <<data, finished>>

(* One more byte: the next one of the client's file. *)
Grow(u) ==
  /\ state[u] = "open"
  /\ deferred[u] \/ Len(data[u]) < size[u]
  /\ data' = [data EXCEPT ![u] = Append(@, Len(@) + 1)]
  /\ UNCHANGED <<state, size, deferred, finished>>

DeclareLength(u) ==
  /\ state[u] = "open"
  /\ deferred[u]
  /\ deferred' = [deferred EXCEPT ![u] = FALSE]
  /\ size'[u] >= Len(data[u])
  /\ size' = [size EXCEPT ![u] = size'[u]]
  /\ UNCHANGED <<state, data, finished>>

Announce(u) ==
  /\ state[u] = "open"
  /\ u \notin finished
  /\ ~deferred[u]
  /\ Len(data[u]) = size[u]
  /\ finished' = finished \cup {u}
  /\ UNCHANGED <<state, data, size, deferred>>

Terminate(u) ==
  /\ state[u] = "open"
  /\ state' = [state EXCEPT ![u] = "gone"]
  /\ data' = [data EXCEPT ![u] = <<>>]
  /\ size' = [size EXCEPT ![u] = 0]
  /\ deferred' = [deferred EXCEPT ![u] = TRUE]
  /\ UNCHANGED finished

ResourceNext ==
  \E u \in Uploads : Create(u) \/ Grow(u) \/ DeclareLength(u) \/ Announce(u) \/ Terminate(u)

ResourceSpec == ResourceInit /\ [][ResourceNext]_resourceVars
=============================================================================
