---------------------------- MODULE LockerProofs ----------------------------
(***************************************************************************)
(* For any number of requests and uploads: both lockers are exclusive      *)
(* locks and implement UploadLock.  MemoryLocker loses no wake-up and      *)
(* never panics; a holder of FileLocker keeps listening, whichever of any  *)
(* number of processes die when.                                           *)
(***************************************************************************)
EXTENDS MemoryLocker, FileLocker, TLAPS

-----------------------------------------------------------------------------
(* The file locker. *)

(* Before any request, no lock file exists and every process is alive. *)
LEMMA InitIInv == Init => IInv
BY NoCallerAssumption
   DEF Init, IInv, TypeOK, PCs, Pollers, HoldersOwnFile, LiveFilesHeld, RunningAlive,
       ClosedByUnlock, HolderPolls, Busy

(* Each step of a caller, of a goroutine or of the environment preserves   *)
(* the inductive invariant.                                                *)
LEMMA NextIInv == IInv /\ [Next]_vars => IInv'
<1> SUFFICES ASSUME IInv, [Next]_vars PROVE IInv'
  OBVIOUS
<1> USE NoCallerAssumption
<1> USE DEF IInv, TypeOK, PCs, Pollers, HoldersOwnFile, LiveFilesHeld, RunningAlive,
            ClosedByUnlock, HolderPolls, Busy, Goto
<1>1. ASSUME NEW c \in Callers, LockStep(c) PROVE IInv'
  <2>1. CASE EnterLock(c)
    BY <2>1 DEF EnterLock
  <2>2. CASE TryLockAcquired(c)
    BY <2>2 DEF TryLockAcquired
  <2>3. CASE TryLockBusy(c)
    BY <2>3 DEF TryLockBusy
  <2>4. CASE TryLockNotVisible(c)
    BY <2>4 DEF TryLockNotVisible
  <2>5. CASE CreateStopFile(c)
    BY <2>5 DEF CreateStopFile
  <2>6. CASE LockError(c)
    BY <2>6 DEF LockError
  <2>7. CASE PollAgain(c)
    BY <2>7 DEF PollAgain
  <2>8. CASE LockTimeout(c)
    BY <2>8 DEF LockTimeout
  <2> QED
    BY <1>1, <2>1, <2>2, <2>3, <2>4, <2>5, <2>6, <2>7, <2>8 DEF LockStep
<1>2. ASSUME NEW c \in Callers, PollerStep(c) PROVE IInv'
  <2>1. CASE PollerWakes(c)
    BY <2>1 DEF PollerWakes
  <2>2. CASE PollerStops(c)
    BY <2>2 DEF PollerStops
  <2>3. CASE PollerStats(c)
    BY <2>3 DEF PollerStats
  <2>4. CASE PollerCalls(c)
    BY <2>4 DEF PollerCalls
  <2> QED
    BY <1>2, <2>1, <2>2, <2>3, <2>4 DEF PollerStep
<1>3. ASSUME NEW c \in Callers, UnlockStep(c) PROVE IInv'
  <2>1. CASE ClosePollChannel(c)
    BY <2>1 DEF ClosePollChannel
  <2>2. CASE RemoveLockFile(c)
    BY <2>2 DEF RemoveLockFile
  <2>3. CASE RemoveStopFile(c)
    BY <2>3 DEF RemoveStopFile
  <2> QED
    BY <1>3, <2>1, <2>2, <2>3 DEF UnlockStep
<1>4. ASSUME NEW c \in Callers, CtxDone(c) PROVE IInv'
  BY <1>4 DEF CtxDone, Locking
<1>5. ASSUME NEW p \in Procs, CrashProc(p) PROVE IInv'
  BY <1>5 DEF CrashProc
<1>6. ASSUME UNCHANGED vars PROVE IInv'
  BY <1>6 DEF vars
<1> QED
  BY <1>1, <1>2, <1>3, <1>4, <1>5, <1>6 DEF Next

(* The inductive invariant holds in every reachable state. *)
THEOREM Invariance == Spec => []IInv
BY InitIInv, NextIInv, PTL DEF Spec

(* Type correctness: in particular only callers are recorded as contended, *)
(* since TryLock answers ErrBusy for an existing lock file only.           *)
THEOREM TypeCorrect == Spec => []TypeOK
<1>1. IInv => TypeOK
  BY DEF IInv
<1> QED
  BY <1>1, Invariance, PTL

(* At most one request, of whichever process, holds the lock of an upload. *)
THEOREM MutexCorrect == Spec => []MutualExclusion
<1>1. IInv => MutualExclusion
  BY DEF IInv, HoldersOwnFile, MutualExclusion
<1> QED
  BY <1>1, Invariance, PTL

(* The goroutine of a holder ends only after it has asked the holder, or   *)
(* after Unlock has begun.                                                 *)
THEOREM PollingCorrect == Spec => []HolderPolls
<1>1. IInv => HolderPolls
  BY DEF IInv
<1> QED
  BY <1>1, Invariance, PTL

(* A `.stop` file, a caller about to create one and a request that is      *)
(* asked all go back to a caller that found a lock of the upload busy.     *)
LEMMA NextStopFiles == IInv /\ StopFilesContended /\ [Next]_vars => StopFilesContended'
<1> SUFFICES ASSUME IInv, StopFilesContended, [Next]_vars PROVE StopFilesContended'
  OBVIOUS
<1> USE DEF IInv, TypeOK, StopFilesContended, Contended, Goto
<1>1. ASSUME NEW c \in Callers, TryLockBusy(c) PROVE StopFilesContended'
  <2>1. lockFile[target[c]] \in Callers /\ target[lockFile[target[c]]] = target[c]
    BY <1>1 DEF TryLockBusy, LiveFilesHeld, Busy
  <2> QED
    BY <1>1, <2>1 DEF TryLockBusy
<1>2. ASSUME NEW c \in Callers,
             \/ EnterLock(c) \/ TryLockAcquired(c) \/ TryLockNotVisible(c)
             \/ CreateStopFile(c) \/ LockError(c) \/ PollAgain(c) \/ LockTimeout(c)
      PROVE  StopFilesContended'
  BY <1>2 DEF EnterLock, TryLockAcquired, TryLockNotVisible, CreateStopFile, LockError,
              PollAgain, LockTimeout
<1>3. ASSUME NEW c \in Callers, PollerStep(c) PROVE StopFilesContended'
  BY <1>3 DEF PollerStep, PollerWakes, PollerStops, PollerStats, PollerCalls
<1>4. ASSUME NEW c \in Callers, UnlockStep(c) \/ CtxDone(c) PROVE StopFilesContended'
  BY <1>4 DEF UnlockStep, ClosePollChannel, RemoveLockFile, RemoveStopFile, CtxDone
<1>5. ASSUME NEW p \in Procs, CrashProc(p) PROVE StopFilesContended'
  BY <1>5 DEF CrashProc
<1>6. ASSUME UNCHANGED vars PROVE StopFilesContended'
  BY <1>6 DEF vars
<1> QED
  BY <1>1, <1>2, <1>3, <1>4, <1>5, <1>6 DEF Next, LockStep

(* A request is interrupted only if a caller has found a lock of the       *)
(* upload busy, however many `.stop` files crashes have left behind.       *)
THEOREM AskedCorrect == Spec => []AskedAfterContention
<1>1. Init => StopFilesContended
  BY DEF Init, StopFilesContended
<1>2. IInv /\ StopFilesContended => AskedAfterContention
  BY DEF IInv, TypeOK, StopFilesContended, Contended, AskedAfterContention
<1> QED
  BY <1>1, <1>2, NextStopFiles, Invariance, PTL DEF Spec

-----------------------------------------------------------------------------

(* The abstract phase of each step of Lock and Unlock. *)
LEMMA PhaseOf ==
  /\ phaseOf("idle") = "idle"
  /\ phaseOf("try") = "waiting"
  /\ phaseOf("stop") = "waiting"
  /\ phaseOf("pause") = "waiting"
  /\ phaseOf("held") = "held"
  /\ phaseOf("unlocking") = "held"
  /\ phaseOf("failed") = "failed"
  /\ phaseOf("crashed") = "crashed"
  /\ phaseOf("cleanup") = "released"
  /\ phaseOf("unlocked") = "released"
BY DEF phaseOf, Locking

(* Every step of FileLocker is a step of the lock interface, or one it     *)
(* does not see; the death of a process is a Crash of its callers.         *)
THEOREM Refinement == Spec => ImplementsUploadLock
<1>1. Init => Abstract!LockInit
  BY PhaseOf DEF Init, Busy, Abstract!LockInit
<1>2. IInv /\ [Next]_vars => [Abstract!LockNext]_(Abstract!lockVars)
  <2> SUFFICES ASSUME IInv, [Next]_vars
               PROVE  [Abstract!LockNext]_(Abstract!lockVars)
    OBVIOUS
  <2> USE PhaseOf, NoCallerAssumption DEF IInv, TypeOK, PCs, Busy, Goto
  <2>1. ASSUME NEW c \in Callers, EnterLock(c) PROVE Abstract!Call(c)
    BY <2>1 DEF EnterLock, Abstract!Call
  <2>2. ASSUME NEW c \in Callers, TryLockAcquired(c) PROVE Abstract!Acquire(c)
    BY <2>2 DEF TryLockAcquired, RunningAlive, Abstract!Acquire
  <2>3. ASSUME NEW c \in Callers,
               TryLockBusy(c) \/ TryLockNotVisible(c) \/ CreateStopFile(c) \/ PollAgain(c)
        PROVE  UNCHANGED Abstract!lockVars
    BY <2>3 DEF TryLockBusy, TryLockNotVisible, CreateStopFile, PollAgain, Abstract!lockVars
  <2>4. ASSUME NEW c \in Callers, LockError(c) \/ LockTimeout(c) PROVE Abstract!GiveUp(c)
    BY <2>4 DEF LockError, LockTimeout, Abstract!GiveUp
  <2>5. ASSUME NEW c \in Callers, PollerStep(c) \/ CtxDone(c)
        PROVE  UNCHANGED Abstract!lockVars
    BY <2>5 DEF PollerStep, PollerWakes, PollerStops, PollerStats, PollerCalls, CtxDone,
                Abstract!lockVars
  <2>6. ASSUME NEW c \in Callers, ClosePollChannel(c) PROVE UNCHANGED Abstract!lockVars
    BY <2>6 DEF ClosePollChannel, Abstract!lockVars
  <2>7. ASSUME NEW c \in Callers, RemoveLockFile(c) PROVE Abstract!Release(c)
    BY <2>7 DEF RemoveLockFile, HoldersOwnFile, Abstract!Release
  <2>8. ASSUME NEW c \in Callers, RemoveStopFile(c) PROVE UNCHANGED Abstract!lockVars
    BY <2>8 DEF RemoveStopFile, Abstract!lockVars
  <2>9. ASSUME NEW p \in Procs, CrashProc(p)
        PROVE  \E S \in SUBSET Callers : Abstract!Crash(S)
    <3> DEFINE D == {c \in Callers : proc[c] = p /\ pc[c] \notin {"unlocked", "failed"}}
    <3>1. \A u \in Uploads : Busy(u) => (lockFile[u] \in D <=> proc[lockFile[u]] = p)
      BY DEF LiveFilesHeld
    <3>2. Abstract!Crash(D)
      BY <2>9, <3>1 DEF CrashProc, Abstract!Crash
    <3>3. D \in SUBSET Callers
      OBVIOUS
    <3> HIDE DEF D
    <3> QED
      BY <3>2, <3>3 DEF Abstract!Crash
  <2>10. ASSUME UNCHANGED vars PROVE UNCHANGED Abstract!lockVars
    BY <2>10 DEF vars, Abstract!lockVars
  <2> QED
    BY <2>1, <2>2, <2>3, <2>4, <2>5, <2>6, <2>7, <2>8, <2>9, <2>10
       DEF Next, LockStep, UnlockStep, Abstract!LockNext
<1> QED
  BY <1>1, <1>2, Invariance, PTL DEF Spec, ImplementsUploadLock, Abstract!LockSpec

-----------------------------------------------------------------------------
(* The memory locker. *)

(* Before any request, the map of locks is empty. *)
LEMMA MemInitIInv == MemInit => MemIInv
BY NoCallerAssumption
   DEF MemInit, MemIInv, MemTypeOK, MemPCs, OwnersHold, EntriesLive,
       ChannelsClosedOnce, WaitersAsked

(* Each step of each caller preserves the inductive invariant. *)
LEMMA MemNextIInv == MemIInv /\ [MemNext]_memVars => MemIInv'
<1> SUFFICES ASSUME MemIInv, [MemNext]_memVars PROVE MemIInv'
  OBVIOUS
<1> USE NoCallerAssumption
<1> USE DEF MemIInv, MemTypeOK, MemPCs, OwnersHold, EntriesLive, ChannelsClosedOnce,
            WaitersAsked
<1>1. ASSUME NEW c \in Callers, LookUpEntry(c) PROVE MemIInv'
  BY <1>1 DEF LookUpEntry
<1>2. ASSUME NEW c \in Callers, RequestRelease(c) PROVE MemIInv'
  BY <1>2 DEF RequestRelease
<1>3. ASSUME NEW c \in Callers, LockReleased(c) PROVE MemIInv'
  BY <1>3 DEF LockReleased
<1>4. ASSUME NEW c \in Callers, CreateEntry(c) PROVE MemIInv'
  BY <1>4 DEF CreateEntry
<1>5. ASSUME NEW c \in Callers, WaitTimeout(c) PROVE MemIInv'
  BY <1>5 DEF WaitTimeout
<1>6. ASSUME NEW c \in Callers, DeleteEntry(c) PROVE MemIInv'
  BY <1>6 DEF DeleteEntry
<1>7. ASSUME NEW c \in Callers, CloseChannel(c) PROVE MemIInv'
  BY <1>7 DEF CloseChannel
<1>8. ASSUME NEW c \in Callers, ContextDone(c) PROVE MemIInv'
  BY <1>8 DEF ContextDone, MemLocking
<1>9. ASSUME UNCHANGED memVars PROVE MemIInv'
  BY <1>9 DEF memVars
<1> QED
  BY <1>1, <1>2, <1>3, <1>4, <1>5, <1>6, <1>7, <1>8, <1>9 DEF MemNext, MemLockStep

(* The inductive invariant holds in every reachable state. *)
THEOREM MemInvariance == MemSpec => []MemIInv
BY MemInitIInv, MemNextIInv, PTL DEF MemSpec

(* Type correctness.  It is no invariant by itself: that requestRelease is *)
(* invoked on an existing entry needs EntriesLive.                         *)
THEOREM MemTypeCorrect == MemSpec => []MemTypeOK
<1>1. MemIInv => MemTypeOK
  BY DEF MemIInv
<1> QED
  BY <1>1, MemInvariance, PTL

(* At most one request is between Lock and Unlock of an upload. *)
THEOREM MemMutexCorrect == MemSpec => []MemMutualExclusion
<1>1. MemIInv => MemMutualExclusion
  BY DEF MemIInv, OwnersHold, MemMutualExclusion
<1> QED
  BY <1>1, MemInvariance, PTL

(* Whoever waits in Lock's select waits for a channel that its owner, who  *)
(* has been asked, has closed or still has to close.                       *)
THEOREM MemWakeupCorrect == MemSpec => []NoLostWakeup
<1>1. MemIInv => NoLostWakeup
  BY DEF MemIInv, EntriesLive, WaitersAsked, NoLostWakeup
<1> QED
  BY <1>1, MemInvariance, PTL

(* Unlock closes neither a nil channel nor a closed one. *)
THEOREM MemPanicFree == MemSpec => []NoPanic
<1>1. MemIInv => NoPanic
  BY DEF MemIInv, MemTypeOK, ChannelsClosedOnce, NoPanic
<1> QED
  BY <1>1, MemInvariance, PTL

-----------------------------------------------------------------------------

(* The abstract phase of each step of Lock and Unlock. *)
LEMMA MemPhaseOf ==
  /\ memPhase("idle") = "idle"
  /\ memPhase("request") = "waiting"
  /\ memPhase("wait") = "waiting"
  /\ memPhase("mutex") = "waiting"
  /\ memPhase("held") = "held"
  /\ memPhase("timeout") = "failed"
  /\ memPhase("closing") = "released"
  /\ memPhase("unlocked") = "released"
BY DEF memPhase, MemLocking

(* Every step of MemoryLocker is a step of the lock interface, or one it   *)
(* does not see.                                                           *)
THEOREM MemRefinement == MemSpec => MemImplementsUploadLock
<1>1. MemInit => MemLock!LockInit
  BY MemPhaseOf DEF MemInit, MemLock!LockInit
<1>2. MemIInv /\ [MemNext]_memVars => [MemLock!LockNext]_(MemLock!lockVars)
  <2> SUFFICES ASSUME MemIInv, [MemNext]_memVars
               PROVE  [MemLock!LockNext]_(MemLock!lockVars)
    OBVIOUS
  <2> USE MemPhaseOf, NoCallerAssumption DEF MemIInv, MemTypeOK, MemPCs
  <2>1. ASSUME NEW c \in Callers, LookUpEntry(c) PROVE MemLock!Call(c)
    BY <2>1 DEF LookUpEntry, MemLock!Call
  <2>2. ASSUME NEW c \in Callers, RequestRelease(c)
        PROVE  MemLock!Ask(entry[c]) /\ entry[c] \in Callers
    BY <2>2 DEF RequestRelease, MemLock!Ask, EntriesLive, ChannelsClosedOnce, MemLocking
  <2>3. ASSUME NEW c \in Callers, LockReleased(c) PROVE UNCHANGED MemLock!lockVars
    BY <2>3 DEF LockReleased, MemLock!lockVars
  <2>4. ASSUME NEW c \in Callers, CreateEntry(c)
        PROVE  MemLock!Acquire(c) \/ UNCHANGED MemLock!lockVars
    <3>1. CASE locks[target[c]] = NoCaller
      BY <2>4, <3>1 DEF CreateEntry, MemLock!Acquire
    <3>2. CASE locks[target[c]] # NoCaller
      BY <2>4, <3>2 DEF CreateEntry, MemLock!lockVars
    <3> QED
      BY <3>1, <3>2
  <2>5. ASSUME NEW c \in Callers, WaitTimeout(c) PROVE MemLock!GiveUp(c)
    BY <2>5 DEF WaitTimeout, MemLock!GiveUp
  <2>6. ASSUME NEW c \in Callers, DeleteEntry(c) PROVE MemLock!Release(c)
    BY <2>6 DEF DeleteEntry, MemLock!Release, OwnersHold
  <2>7. ASSUME NEW c \in Callers, CloseChannel(c) PROVE UNCHANGED MemLock!lockVars
    BY <2>7 DEF CloseChannel, MemLock!lockVars
  <2>8. ASSUME NEW c \in Callers, ContextDone(c) PROVE UNCHANGED MemLock!lockVars
    BY <2>8 DEF ContextDone, MemLock!lockVars
  <2>9. ASSUME UNCHANGED memVars PROVE UNCHANGED MemLock!lockVars
    BY <2>9 DEF memVars, MemLock!lockVars
  <2> QED
    BY <2>1, <2>2, <2>3, <2>4, <2>5, <2>6, <2>7, <2>8, <2>9
       DEF MemNext, MemLockStep, MemLock!LockNext
<1> QED
  BY <1>1, <1>2, MemInvariance, PTL DEF MemSpec, MemImplementsUploadLock, MemLock!LockSpec
=============================================================================
