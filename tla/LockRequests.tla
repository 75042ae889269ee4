---------------------------- MODULE LockRequests ----------------------------
(***************************************************************************)
(* What both implementations of handler.Lock see of their callers.  A      *)
(* caller is one HTTP request: lockUpload creates the lock of its upload,  *)
(* calls Lock with a context that may expire and with a requestRelease     *)
(* callback, and Unlock if it got the lock.  So a caller locks at most     *)
(* once, and always the upload it addresses.                               *)
(***************************************************************************)
CONSTANTS Callers, Uploads,
          NoCaller     \* where a caller could stand: there is none

ASSUME NoCallerAssumption == NoCaller \notin Callers

VARIABLES pc,          \* the next step of each caller, in its locker's code
          target,      \* the upload each caller addresses
          ctxDone,     \* callers whose context is done
          asked        \* callers whose requestRelease was called

=============================================================================
