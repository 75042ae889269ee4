---------------------------- MODULE MemoryLocker ----------------------------
(***************************************************************************)
(* pkg/memorylocker: the in-process locker.  The map `locks` is guarded by *)
(* a mutex, but Lock reads it once, drops the mutex, invokes the holder's  *)
(* requestRelease callback, waits for the holder's channel and only then   *)
(* takes the mutex again: every step between two mutex sections is a step  *)
(* here.                                                                   *)
(*                                                                         *)
(* An entry of the map (its channel and its callback) is created by one    *)
(* successful Lock call, so it is identified with the caller that created  *)
(* it, and `asked` holds the entries whose callback has been invoked.      *)
(*                                                                         *)
(* Names that FileLocker has too start with Mem here, so that LockerProofs *)
(* can extend both lockers.                                                *)
(***************************************************************************)
EXTENDS LockRequests

VARIABLES locks,     \* MemoryLocker.locks: upload -> entry
          entry,     \* the local variable `entry` of Lock, and of Unlock
          closed,    \* entries whose channel lockReleased is closed
          panicked   \* Unlock closed the channel of an entry that is not there

memVars == <<pc, target, locks, entry, closed, ctxDone, asked, panicked>>

MemPCs == {"idle", "request", "wait", "mutex", "held", "closing", "timeout", "unlocked"}

(* The callers that are inside Lock. *)
MemLocking == {"request", "wait", "mutex"}

MemInit ==
  /\ pc = [c \in Callers |-> "idle"]
  /\ target \in [Callers -> Uploads]
  /\ locks = [u \in Uploads |-> NoCaller]
  /\ entry = [c \in Callers |-> NoCaller]
  /\ closed = {}
  /\ ctxDone = {}
  /\ asked = {}
  /\ panicked = FALSE

(* Lock: look the entry up under the read lock, and branch on it. *)
LookUpEntry(c) ==
  /\ pc[c] = "idle"
  /\ entry' = [entry EXCEPT ![c] = locks[target[c]]]
  /\ pc' = [pc EXCEPT ![c] = IF locks[target[c]] = NoCaller THEN "mutex" ELSE "request"]
  /\ UNCHANGED <<target, locks, closed, ctxDone, asked, panicked>>

(* Mutant: the holder is not asked. *)
WaitSilently(c) ==
  /\ pc[c] = "request"
  /\ pc' = [pc EXCEPT ![c] = "wait"]
  /\ UNCHANGED <<target, locks, entry, closed, ctxDone, asked, panicked>>

(* entry.requestRelease(), with no mutex held: the entry may be stale. *)
RequestRelease(c) ==
  /\ pc[c] = "request"
  /\ asked' = asked \cup {entry[c]}
  /\ pc' = [pc EXCEPT ![c] = "wait"]
  /\ UNCHANGED <<target, locks, entry, closed, ctxDone, panicked>>

(* The two cases of the select: when both are ready either may be taken. *)
LockReleased(c) ==
  /\ pc[c] = "wait"
  /\ entry[c] \in closed
  /\ pc' = [pc EXCEPT ![c] = "mutex"]
  /\ UNCHANGED <<target, locks, entry, closed, ctxDone, asked, panicked>>

(* Mutant: the expired context is taken for the lock. *)
WaitTimeoutNil(c) ==
  /\ pc[c] = "wait"
  /\ c \in ctxDone
  /\ pc' = [pc EXCEPT ![c] = "held"]
  /\ UNCHANGED <<target, locks, entry, closed, ctxDone, asked, panicked>>

WaitTimeout(c) ==
  /\ pc[c] = "wait"
  /\ c \in ctxDone
  /\ pc' = [pc EXCEPT ![c] = "timeout"]
  /\ UNCHANGED <<target, locks, entry, closed, ctxDone, asked, panicked>>

(* Mutant: the map is not read again under the mutex. *)
CreateEntryNoRecheck(c) ==
  /\ pc[c] = "mutex"
  /\ entry' = [entry EXCEPT ![c] = c]
  /\ pc' = [pc EXCEPT ![c] = "held"]
  /\ locks' = [locks EXCEPT ![target[c]] = c]
  /\ UNCHANGED <<target, closed, ctxDone, asked, panicked>>

(* Under the mutex: wait again if the lock exists, else create it. *)
CreateEntry(c) ==
  /\ pc[c] = "mutex"
  /\ IF locks[target[c]] # NoCaller
     THEN /\ entry' = [entry EXCEPT ![c] = locks[target[c]]]
          /\ pc' = [pc EXCEPT ![c] = "request"]
          /\ UNCHANGED locks
     ELSE /\ entry' = [entry EXCEPT ![c] = c]
          /\ pc' = [pc EXCEPT ![c] = "held"]
          /\ locks' = [locks EXCEPT ![target[c]] = c]
  /\ UNCHANGED <<target, closed, ctxDone, asked, panicked>>

(* Unlock: fetch and delete the entry under the mutex ... *)
DeleteEntry(c) ==
  /\ pc[c] = "held"
  /\ entry' = [entry EXCEPT ![c] = locks[target[c]]]
  /\ locks' = [locks EXCEPT ![target[c]] = NoCaller]
  /\ pc' = [pc EXCEPT ![c] = "closing"]
  /\ UNCHANGED <<target, closed, ctxDone, asked, panicked>>

(* Mutant: the channel stays open. *)
UnlockNoClose(c) ==
  /\ pc[c] = "closing"
  /\ pc' = [pc EXCEPT ![c] = "unlocked"]
  /\ UNCHANGED <<target, locks, entry, closed, ctxDone, asked, panicked>>

(* ... and close its channel afterwards, outside the mutex.  The channel   *)
(* of an absent entry is nil, and closing a nil channel panics.            *)
CloseChannel(c) ==
  /\ pc[c] = "closing"
  /\ closed' = IF entry[c] = NoCaller THEN closed ELSE closed \cup {entry[c]}
  /\ panicked' = (panicked \/ entry[c] = NoCaller)
  /\ pc' = [pc EXCEPT ![c] = "unlocked"]
  /\ UNCHANGED <<target, locks, entry, ctxDone, asked>>

(* lockUpload's context: AcquireLockTimeout expires or the request ends.   *)
ContextDone(c) ==
  /\ pc[c] \in MemLocking
  /\ c \notin ctxDone
  /\ ctxDone' = ctxDone \cup {c}
  /\ UNCHANGED <<pc, target, locks, entry, closed, asked, panicked>>

MemLockStep(c) == LookUpEntry(c) \/ RequestRelease(c) \/ LockReleased(c) \/ CreateEntry(c)

MemNext ==
  \E c \in Callers : \/ MemLockStep(c)
                     \/ WaitTimeout(c)
                     \/ DeleteEntry(c)
                     \/ CloseChannel(c)
                     \/ ContextDone(c)

MemSpec == MemInit /\ [][MemNext]_memVars

(* Goroutines that can run do run, and a holder that has been asked to     *)
(* release its lock does so in the end (the handler closes the body of the *)
(* request and returns).  No context needs to expire.                      *)
MemFairness ==
  \A c \in Callers : /\ WF_memVars(RequestRelease(c))
                     /\ WF_memVars(LockReleased(c))
                     /\ WF_memVars(CreateEntry(c))
                     /\ WF_memVars(WaitTimeout(c))
                     /\ WF_memVars(CloseChannel(c))
                     /\ WF_memVars(c \in asked /\ DeleteEntry(c))

MemFairSpec == MemSpec /\ MemFairness

-----------------------------------------------------------------------------

MemTypeOK ==
  /\ pc \in [Callers -> MemPCs]
  /\ target \in [Callers -> Uploads]
  /\ locks \in [Uploads -> Callers \cup {NoCaller}]
  /\ entry \in [Callers -> Callers \cup {NoCaller}]
  /\ closed \subseteq Callers
  /\ ctxDone \subseteq Callers
  /\ asked \subseteq Callers
  /\ panicked \in BOOLEAN

(* No two callers are past Lock and before Unlock on the same upload,      *)
(* although Lock drops the mutex between looking and creating.             *)
MemMutualExclusion ==
  \A c, d \in Callers :
     pc[c] = "held" /\ pc[d] = "held" /\ target[c] = target[d] => c = d

(* A caller that waits in the select waits for something that will happen: *)
(* the entry it captured belongs to a request for the same upload that has *)
(* been asked to release, and that request either still has to close the   *)
(* channel or has closed it.                                               *)
NoLostWakeup ==
  \A c \in Callers : pc[c] = "wait" =>
     /\ entry[c] \in asked
     /\ target[entry[c]] = target[c]
     /\ pc[entry[c]] \in {"held", "closing"} \/ entry[c] \in closed

(* Unlock never closes a nil channel and never closes one twice: both      *)
(* panic.                                                                  *)
NoPanic ==
  /\ ~panicked
  /\ \A c \in Callers : pc[c] = "closing" => entry[c] \notin closed

(* Every caller that enters Lock leaves it: with the lock, if the holders  *)
(* before it release when they are asked to, or with ErrLockTimeout.       *)
MemLockReturns ==
  \A c \in Callers : pc[c] \in MemLocking ~> pc[c] \notin MemLocking

(* The inductive invariant behind the three of them. *)
OwnersHold ==
  /\ \A c \in Callers : pc[c] = "held" => locks[target[c]] = c
  /\ \A u \in Uploads : locks[u] # NoCaller =>
        pc[locks[u]] = "held" /\ target[locks[u]] = u

EntriesLive ==
  \A c \in Callers : pc[c] \in {"request", "wait"} =>
     /\ entry[c] \in Callers
     /\ target[entry[c]] = target[c]
     /\ pc[entry[c]] \in {"held", "closing"} \/ entry[c] \in closed

ChannelsClosedOnce ==
  /\ \A c \in Callers : pc[c] = "closing" => entry[c] = c
  /\ \A c \in closed : pc[c] = "unlocked"
  /\ ~panicked

WaitersAsked == \A c \in Callers : pc[c] = "wait" => entry[c] \in asked

MemIInv == MemTypeOK /\ OwnersHold /\ EntriesLive /\ ChannelsClosedOnce /\ WaitersAsked

(* The refinement of the interface.  The entry in the map is the owner of  *)
(* the lock: Unlock frees the lock when it deletes the entry, not when it  *)
(* closes the channel.                                                     *)
memPhase(p) ==
  CASE p = "idle"        -> "idle"
    [] p \in MemLocking -> "waiting"
    [] p = "held"        -> "held"
    [] p = "timeout"     -> "failed"
    [] OTHER             -> "released"

MemLock == INSTANCE UploadLock WITH
              phase <- [c \in Callers |-> memPhase(pc[c])],
              owner <- locks

(* MemoryLocker implements the handler.Lock interface: it hands out free   *)
(* locks only, and invokes a callback only while another caller is inside  *)
(* Lock for the same upload.                                               *)
MemImplementsUploadLock == MemLock!LockSpec

=============================================================================
