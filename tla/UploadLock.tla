----------------------------- MODULE UploadLock -----------------------------
(***************************************************************************)
(* What a Locker promises: the handler.Lock interface (datastore.go).      *)
(*                                                                         *)
(* A caller is one HTTP request.  It addresses one upload for its whole    *)
(* life and calls Lock at most once (lockUpload), so a caller passes once  *)
(* through the phases idle, waiting, then failed, or held and released.    *)
(* The request ends there.  `asked` collects the callers whose             *)
(* requestUnlock callback has been invoked.                                *)
(*                                                                         *)
(* MemoryLocker and FileLocker are shown to implement this specification,  *)
(* and UploadHandler is built on it.                                       *)
(***************************************************************************)
CONSTANTS Callers,     \* HTTP requests
          Uploads,     \* upload IDs
          NoCaller     \* nobody holds the lock

ASSUME NoCallerAssumption == NoCaller \notin Callers

VARIABLES phase,       \* where a caller is in its one use of Lock and Unlock
          target,      \* the upload that a caller addresses
          owner,       \* the caller that holds the lock of an upload
          asked        \* callers whose requestUnlock callback was invoked

lockVars == <<phase, target, owner, asked>>

Phases == {"idle", "waiting", "held", "failed", "released", "crashed"}

LockInit ==
  /\ phase = [c \in Callers |-> "idle"]
  /\ target \in [Callers -> Uploads]
  /\ owner = [u \in Uploads |-> NoCaller]
  /\ asked = {}

(* The caller enters Lock. *)
Call(c) ==
  /\ phase[c] = "idle"
  /\ phase' = [phase EXCEPT ![c] = "waiting"]
  /\ UNCHANGED <<target, owner, asked>>

(* Lock returns nil: only a free lock is handed out. *)
Acquire(c) ==
  /\ phase[c] = "waiting"
  /\ owner[target[c]] = NoCaller
  /\ phase' = [phase EXCEPT ![c] = "held"]
  /\ owner' = [owner EXCEPT ![target[c]] = c]
  /\ UNCHANGED <<target, asked>>

(* Lock returns an error (ErrLockTimeout once its context is cancelled, or *)
(* an error of the medium) without having acquired the lock.               *)
GiveUp(c) ==
  /\ phase[c] = "waiting"
  /\ phase' = [phase EXCEPT ![c] = "failed"]
  /\ UNCHANGED <<target, owner, asked>>

(* The callback of a caller is invoked because another caller attempts to  *)
(* lock the same upload.  The one asked may have released the lock already *)
(* when the invocation arrives.                                            *)
Ask(c) ==
  /\ phase[c] \in {"held", "released"}
  /\ \E d \in Callers \ {c} : phase[d] = "waiting" /\ target[d] = target[c]
  /\ asked' = asked \cup {c}
  /\ UNCHANGED <<phase, target, owner>>

(* Unlock. *)
Release(c) ==
  /\ phase[c] = "held"
  /\ owner[target[c]] = c
  /\ phase' = [phase EXCEPT ![c] = "released"]
  /\ owner' = [owner EXCEPT ![target[c]] = NoCaller]
  /\ UNCHANGED <<target, asked>>

(* The process that serves the callers in S dies; its locks become free.   *)
Crash(S) ==
  /\ phase' = [c \in Callers |-> IF c \in S THEN "crashed" ELSE phase[c]]
  /\ owner' = [u \in Uploads |-> IF owner[u] \in S THEN NoCaller ELSE owner[u]]
  /\ UNCHANGED <<target, asked>>

LockNext ==
  \/ \E c \in Callers : \/ Call(c)
                        \/ Acquire(c)
                        \/ GiveUp(c)
                        \/ Ask(c)
                        \/ Release(c)
  \/ \E S \in SUBSET Callers : Crash(S)

LockSpec == LockInit /\ [][LockNext]_lockVars

-----------------------------------------------------------------------------

LockTypeOK ==
  /\ phase \in [Callers -> Phases]
  /\ target \in [Callers -> Uploads]
  /\ owner \in [Uploads -> Callers \cup {NoCaller}]
  /\ asked \subseteq Callers

(* No two requests hold the lock of one upload at the same time: the       *)
(* "exclusive lock for the upload" of datastore.go.                        *)
Exclusive ==
  \A c, d \in Callers :
     phase[c] = "held" /\ phase[d] = "held" /\ target[c] = target[d] => c = d

(* What makes Exclusive inductive: each holder is recorded as the owner.   *)
HoldersRecorded ==
  \A c \in Callers : phase[c] = "held" => owner[target[c]] = c

LockIInv == LockTypeOK /\ HoldersRecorded
=============================================================================
