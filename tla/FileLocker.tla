----------------------------- MODULE FileLocker -----------------------------
(***************************************************************************)
(* pkg/filelocker: locks as PID files on disk, shared by every tusd        *)
(* process that uses the directory.                                        *)
(*                                                                         *)
(* `<id>.lock` holds the PID of the process that owns the lock.  A waiter  *)
(* that finds it busy creates `<id>.stop` and polls; the holder's          *)
(* goroutine polls for `<id>.stop` and then calls requestRelease, once.    *)
(* Unlock closes the goroutine's channel, removes `.lock` and then         *)
(* `.stop`.  None of these steps is atomic with another one.               *)
(*                                                                         *)
(* The library github.com/tus/lockfile is external: TryLock takes a lock   *)
(* file that is absent or whose owner is a dead process, and answers       *)
(* ErrBusy for a live owner, be it the own process; ErrNotExist is a       *)
(* transient answer.  lockFile names the caller that wrote the file, of    *)
(* which the file itself only holds the process.                           *)
(***************************************************************************)
EXTENDS LockRequests

CONSTANTS Procs,       \* tusd processes; a restarted process has a new PID
          Impatient    \* callers whose context may expire while they wait

VARIABLES proc,        \* the process that serves each caller
          alive,       \* the processes that are running
          lockFile,    \* `.lock`: the caller that wrote it
          stopFile,    \* uploads with a `.stop` file
          poller,      \* the goroutine that Lock starts
          stopPoll,    \* callers whose stopHolderPoll is closed
          contended    \* history: callers whose lock another one found busy

vars == <<pc, target, proc, alive, lockFile, stopFile, poller, stopPoll,
          ctxDone, asked, contended>>

PCs == {"idle", "try", "stop", "pause", "held", "unlocking", "cleanup",
        "unlocked", "failed", "crashed"}

Locking == {"try", "stop", "pause"}

Pollers == {"off", "sleep", "stat", "call"}

Init ==
  /\ pc = [c \in Callers |-> "idle"]
  /\ target \in [Callers -> Uploads]
  /\ proc \in [Callers -> Procs]
  /\ alive = Procs
  /\ lockFile = [u \in Uploads |-> NoCaller]
  /\ stopFile = {}
  /\ poller = [c \in Callers |-> "off"]
  /\ stopPoll = {}
  /\ ctxDone = {}
  /\ asked = {}
  /\ contended = {}

Goto(c, p) == pc' = [pc EXCEPT ![c] = p]

(* A lock file binds nobody if its owner is gone. *)
Busy(u) == lockFile[u] # NoCaller /\ proc[lockFile[u]] \in alive

(* NewLock and the start of Lock. *)
EnterLock(c) ==
  /\ pc[c] = "idle"
  /\ Goto(c, "try")
  /\ UNCHANGED <<target, proc, alive, lockFile, stopFile, poller, stopPoll,
                 ctxDone, asked, contended>>

(* Mutant: a lock file with the own PID does not count as busy. *)
TryLockOwnPid(c) ==
  /\ pc[c] = "try"
  /\ Busy(target[c]) => proc[lockFile[target[c]]] = proc[c]
  /\ lockFile' = [lockFile EXCEPT ![target[c]] = c]
  /\ poller' = [poller EXCEPT ![c] = "sleep"]
  /\ Goto(c, "held")
  /\ UNCHANGED <<target, proc, alive, stopFile, stopPoll, ctxDone, asked, contended>>

(* TryLock succeeds: leave the loop, start the polling goroutine, return. *)
TryLockAcquired(c) ==
  /\ pc[c] = "try"
  /\ ~Busy(target[c])
  /\ lockFile' = [lockFile EXCEPT ![target[c]] = c]
  /\ poller' = [poller EXCEPT ![c] = "sleep"]
  /\ Goto(c, "held")
  /\ UNCHANGED <<target, proc, alive, stopFile, stopPoll, ctxDone, asked, contended>>

(* Mutant: the holder was asked to release the lock once, which must do. *)
TryLockBusyOnce(c) ==
  /\ pc[c] = "try"
  /\ Busy(target[c])
  /\ contended' = contended \cup {lockFile[target[c]]}
  /\ Goto(c, IF lockFile[target[c]] \in contended THEN "pause" ELSE "stop")
  /\ UNCHANGED <<target, proc, alive, lockFile, stopFile, poller, stopPoll, ctxDone, asked>>

(* TryLock answers ErrBusy. *)
TryLockBusy(c) ==
  /\ pc[c] = "try"
  /\ Busy(target[c])
  /\ contended' = contended \cup {lockFile[target[c]]}
  /\ Goto(c, "stop")
  /\ UNCHANGED <<target, proc, alive, lockFile, stopFile, poller, stopPoll, ctxDone, asked>>

(* Mutant: ErrNotExist is handled like ErrBusy. *)
TryLockNotVisibleIsBusy(c) ==
  /\ pc[c] = "try"
  /\ Goto(c, "stop")
  /\ UNCHANGED <<target, proc, alive, lockFile, stopFile, poller, stopPoll,
                 ctxDone, asked, contended>>

(* TryLock answers ErrNotExist: pause for 10ms and retry. *)
TryLockNotVisible(c) ==
  /\ pc[c] = "try"
  /\ Goto(c, "pause")
  /\ UNCHANGED <<target, proc, alive, lockFile, stopFile, poller, stopPoll,
                 ctxDone, asked, contended>>

(* Create `.stop`.  The lock may have been released since TryLock. *)
CreateStopFile(c) ==
  /\ pc[c] = "stop"
  /\ stopFile' = stopFile \cup {target[c]}
  /\ Goto(c, "pause")
  /\ UNCHANGED <<target, proc, alive, lockFile, poller, stopPoll, ctxDone, asked, contended>>

(* TryLock fails otherwise (a missing directory is ErrNotFound), or `.stop`*)
(* cannot be created: Lock returns the error.                              *)
LockError(c) ==
  /\ pc[c] \in {"try", "stop"}
  /\ Goto(c, "failed")
  /\ UNCHANGED <<target, proc, alive, lockFile, stopFile, poller, stopPoll,
                 ctxDone, asked, contended>>

(* Both selects: the next attempt, or ErrLockTimeout. *)
PollAgain(c) ==
  /\ pc[c] = "pause"
  /\ Goto(c, "try")
  /\ UNCHANGED <<target, proc, alive, lockFile, stopFile, poller, stopPoll,
                 ctxDone, asked, contended>>

(* Mutant: the expired context leaves the loop like an acquired lock. *)
LockTimeoutNil(c) ==
  /\ pc[c] = "pause"
  /\ c \in ctxDone
  /\ Goto(c, "held")
  /\ UNCHANGED <<target, proc, alive, lockFile, stopFile, poller, stopPoll,
                 ctxDone, asked, contended>>

LockTimeout(c) ==
  /\ pc[c] = "pause"
  /\ c \in ctxDone
  /\ Goto(c, "failed")
  /\ UNCHANGED <<target, proc, alive, lockFile, stopFile, poller, stopPoll,
                 ctxDone, asked, contended>>

(* The goroutine: the two cases of its select, the Stat, the callback. *)
PollerWakes(c) ==
  /\ poller[c] = "sleep"
  /\ poller' = [poller EXCEPT ![c] = "stat"]
  /\ UNCHANGED <<pc, target, proc, alive, lockFile, stopFile, stopPoll,
                 ctxDone, asked, contended>>

PollerStops(c) ==
  /\ poller[c] = "sleep"
  /\ c \in stopPoll
  /\ poller' = [poller EXCEPT ![c] = "off"]
  /\ UNCHANGED <<pc, target, proc, alive, lockFile, stopFile, stopPoll,
                 ctxDone, asked, contended>>

(* Mutant: the goroutine looks for `.stop` once. *)
PollerStatsOnce(c) ==
  /\ poller[c] = "stat"
  /\ poller' = [poller EXCEPT ![c] = IF target[c] \in stopFile THEN "call" ELSE "off"]
  /\ UNCHANGED <<pc, target, proc, alive, lockFile, stopFile, stopPoll,
                 ctxDone, asked, contended>>

PollerStats(c) ==
  /\ poller[c] = "stat"
  /\ poller' = [poller EXCEPT ![c] = IF target[c] \in stopFile THEN "call" ELSE "sleep"]
  /\ UNCHANGED <<pc, target, proc, alive, lockFile, stopFile, stopPoll,
                 ctxDone, asked, contended>>

PollerCalls(c) ==
  /\ poller[c] = "call"
  /\ asked' = asked \cup {c}
  /\ poller' = [poller EXCEPT ![c] = "off"]
  /\ UNCHANGED <<pc, target, proc, alive, lockFile, stopFile, stopPoll,
                 ctxDone, contended>>

(* Unlock: close the channel, ... *)
ClosePollChannel(c) ==
  /\ pc[c] = "held"
  /\ stopPoll' = stopPoll \cup {c}
  /\ Goto(c, "unlocking")
  /\ UNCHANGED <<target, proc, alive, lockFile, stopFile, poller, ctxDone, asked, contended>>

(* ... remove `.lock`, which the library does if it holds the own PID, ... *)
RemoveLockFile(c) ==
  /\ pc[c] = "unlocking"
  /\ lockFile' = IF lockFile[target[c]] # NoCaller /\ proc[lockFile[target[c]]] = proc[c]
                 THEN [lockFile EXCEPT ![target[c]] = NoCaller]
                 ELSE lockFile
  /\ Goto(c, "cleanup")
  /\ UNCHANGED <<target, proc, alive, stopFile, poller, stopPoll, ctxDone, asked, contended>>

(* ... and remove `.stop`, whoever created it. *)
RemoveStopFile(c) ==
  /\ pc[c] = "cleanup"
  /\ stopFile' = stopFile \ {target[c]}
  /\ Goto(c, "unlocked")
  /\ UNCHANGED <<target, proc, alive, lockFile, poller, stopPoll, ctxDone, asked, contended>>

(* lockUpload's context: AcquireLockTimeout expires or the request ends. *)
CtxDone(c) ==
  /\ pc[c] \in Locking
  /\ c \in Impatient \ ctxDone
  /\ ctxDone' = ctxDone \cup {c}
  /\ UNCHANGED <<pc, target, proc, alive, lockFile, stopFile, poller, stopPoll,
                 asked, contended>>

(* A process dies between any two steps; its files stay on disk. *)
CrashProc(p) ==
  /\ p \in alive
  /\ alive' = alive \ {p}
  /\ pc' = [c \in Callers |->
              IF proc[c] = p /\ pc[c] \notin {"unlocked", "failed"}
              THEN "crashed" ELSE pc[c]]
  /\ poller' = [c \in Callers |-> IF proc[c] = p THEN "off" ELSE poller[c]]
  /\ UNCHANGED <<target, proc, lockFile, stopFile, stopPoll, ctxDone, asked, contended>>

LockStep(c) ==
  \/ EnterLock(c) \/ TryLockAcquired(c) \/ TryLockBusy(c) \/ TryLockNotVisible(c)
  \/ CreateStopFile(c) \/ LockError(c) \/ PollAgain(c) \/ LockTimeout(c)

PollerStep(c) ==
  PollerWakes(c) \/ PollerStops(c) \/ PollerStats(c) \/ PollerCalls(c)

UnlockStep(c) ==
  ClosePollChannel(c) \/ RemoveLockFile(c) \/ RemoveStopFile(c)

Next ==
  \/ \E c \in Callers : LockStep(c) \/ PollerStep(c) \/ UnlockStep(c) \/ CtxDone(c)
  \/ \E p \in Procs : CrashProc(p)

Spec == Init /\ [][Next]_vars

(* Goroutines that can run do run; a lock file is not invisible forever    *)
(* (strong fairness of the two definite answers of TryLock); a holder that *)
(* has been asked to release its lock starts Unlock in the end.  No        *)
(* context needs to expire.                                                *)
Fairness ==
  \A c \in Callers :
    /\ SF_vars(TryLockAcquired(c) \/ TryLockBusy(c))
    /\ WF_vars(CreateStopFile(c))
    /\ WF_vars(PollAgain(c))
    /\ WF_vars(PollerWakes(c))
    /\ WF_vars(PollerStats(c))
    /\ WF_vars(PollerCalls(c))
    /\ WF_vars(c \in asked /\ ClosePollChannel(c))
    /\ WF_vars(RemoveLockFile(c))
    /\ WF_vars(RemoveStopFile(c))

FairSpec == Spec /\ Fairness

-----------------------------------------------------------------------------

TypeOK ==
  /\ pc \in [Callers -> PCs]
  /\ target \in [Callers -> Uploads]
  /\ proc \in [Callers -> Procs]
  /\ alive \subseteq Procs
  /\ lockFile \in [Uploads -> Callers \cup {NoCaller}]
  /\ stopFile \subseteq Uploads
  /\ poller \in [Callers -> Pollers]
  /\ stopPoll \subseteq Callers
  /\ ctxDone \subseteq Callers
  /\ asked \subseteq Callers
  /\ contended \subseteq Callers

(* No two callers, of one process or of several, hold the lock of one      *)
(* upload, whichever processes died holding it.                            *)
MutualExclusion ==
  \A c, d \in Callers :
     /\ pc[c] \in {"held", "unlocking"}
     /\ pc[d] \in {"held", "unlocking"}
     /\ target[c] = target[d]
     => c = d

(* The goroutine of a live holder that was not asked yet keeps polling, so *)
(* that a `.stop` file is noticed in the end.                              *)
HolderPolls ==
  \A c \in Callers :
     pc[c] = "held" => poller[c] # "off" \/ c \in asked

(* Whoever waits gets the lock, or an error, in the end.  Unlock removes   *)
(* `.stop` after `.lock`: a third caller may have become the holder in     *)
(* between, and the `.stop` that a waiter created for it is gone before    *)
(* its goroutine has looked.  The waiter must create it again, as often as *)
(* it finds the lock busy.  Nor may it wait for the lock of a process that *)
(* has died.                                                               *)
LockReturns ==
  \A c \in Callers : pc[c] \in Locking ~> pc[c] \notin Locking

(* No request is interrupted out of the blue: the callback is invoked only *)
(* if a caller has found a lock of this upload busy.                       *)
AskedAfterContention == \A c \in asked : \E d \in contended : target[d] = target[c]

(* What makes them inductive.  The lock file of a live process names the   *)
(* caller that holds the lock, and every holder is named by the lock file. *)
HoldersOwnFile ==
  \A c \in Callers :
     pc[c] \in {"held", "unlocking"} =>
       lockFile[target[c]] = c /\ proc[c] \in alive

LiveFilesHeld ==
  \A u \in Uploads :
     Busy(u) => pc[lockFile[u]] \in {"held", "unlocking"} /\ target[lockFile[u]] = u

(* Only a request that is over, or never reached its end, has lost its     *)
(* process.                                                                *)
RunningAlive ==
  \A c \in Callers :
     proc[c] \notin alive => pc[c] \in {"unlocked", "failed", "crashed"}

(* Only Unlock closes stopHolderPoll. *)
ClosedByUnlock ==
  \A c \in stopPoll : pc[c] \in {"unlocking", "cleanup", "unlocked", "crashed"}

IInv ==
  /\ TypeOK
  /\ HoldersOwnFile
  /\ LiveFilesHeld
  /\ RunningAlive
  /\ ClosedByUnlock
  /\ HolderPolls

(* What AskedAfterContention rests on: every trace of a `.stop` file goes  *)
(* back to a caller that found a lock of the upload busy.                  *)
Contended(u) == \E d \in contended : target[d] = u

StopFilesContended ==
  /\ \A u \in stopFile : Contended(u)
  /\ \A c \in Callers : pc[c] = "stop" \/ poller[c] = "call" \/ c \in asked => Contended(target[c])

phaseOf(p) ==
  CASE p = "idle"                    -> "idle"
    [] p \in Locking                 -> "waiting"
    [] p \in {"held", "unlocking"}   -> "held"
    [] p = "failed"                  -> "failed"
    [] p = "crashed"                 -> "crashed"
    [] OTHER                         -> "released"

(* The lock belongs to the live caller named by the lock file.  `asked` is *)
(* hidden: see AskedAfterContention.                                       *)
Abstract == INSTANCE UploadLock WITH
              phase <- [c \in Callers |-> phaseOf(pc[c])],
              owner <- [u \in Uploads |-> IF Busy(u) THEN lockFile[u] ELSE NoCaller],
              asked <- {}

(* FileLocker implements the handler.Lock interface, crashes included,     *)
(* except for when the callback is invoked.                                *)
ImplementsUploadLock == Abstract!LockSpec
=============================================================================
