-------------------------- MODULE FolderLockProofs --------------------------
(***************************************************************************)
(* What FolderLock promises for any number of processes and goroutines,    *)
(* crashing anywhere, and any bounds.                                      *)
(***************************************************************************)
EXTENDS FolderLock, FiniteSetTheorems, TLAPS

Named == file # Absent /\ file.pid \in alive

\* A file that names a live process was written by a call of that process, which is about
\* to claim the lock, holds it, is removing the file, or failed to.
WedgeInv ==
    Named => \/ file.pid \in held \cup stuck
             \/ pc[file.by] = "claim" /\ PidOf[file.by] = file.pid
             \/ \E c \in Callers : pc[c] = "unlink" /\ PidOf[c] = file.pid

\* Goroutines of dead processes do nothing.
AliveInv == \A c \in Callers : pc[c] # "idle" => PidOf[c] \in alive

\* Before the first race at most one call is in Start.  The file is then the holder's own,
\* or the one a Stop is about to unlink, or the starter's.
StarterInv ==
    \A c \in Callers :
        /\ pc[c] \in Starting => \A d \in Callers : pc[d] \in Starting => d = c
        /\ pc[c] = "write" => file # Absent /\ file.by = c /\ file.pid = NoPid
        /\ pc[c] = "claim" => /\ Named /\ file.pid = PidOf[c] /\ held = {}
                            /\ \A d \in Callers : pc[d] # "unlink"
        /\ pc[c] = "remove" => file # Absent /\ file.pid \notin alive
        /\ pc[c] = "reopen" => file = Absent
OwnerInv ==
    /\ \A p \in held : file # Absent /\ file.pid = p
    /\ \A c \in Callers : pc[c] = "unlink" =>
          Named /\ held = {} /\ file.pid = PidOf[c] /\ \A d \in Callers : pc[d] = "unlink" => d = c
RaceInv == ~raced => StarterInv /\ OwnerInv

\* A call that met nobody is the only one, and what it finds is stale.
AloneInv ==
    \A c \in Callers : pc[c] \in Starting \ {"mark"} /\ c \notin contended =>
        /\ \A d \in Callers : d # c => pc[d] = "idle"
        /\ held = {}
        /\ pc[c] \in {"check", "open", "judge", "remove"} => ~Named
        /\ pc[c] \in {"judge", "remove"} => file # Absent
        /\ pc[c] = "reopen" => file = Absent

Inv == TypeOK /\ AliveInv /\ WedgeInv /\ RaceInv /\ AloneInv

-----------------------------------------------------------------------------
(* One lemma per operation, one step per part of the invariant.            *)

LEMMA InitInv == Init => Inv
<1> SUFFICES ASSUME Init PROVE Inv
  OBVIOUS
<1>1. TypeOK
  BY DEF Init, TypeOK, Starting, Stopping
<1>2. AliveInv /\ WedgeInv /\ RaceInv /\ AloneInv
  BY DEF Init, AliveInv, WedgeInv, Named, RaceInv, StarterInv, OwnerInv, AloneInv, Starting
<1> QED
  BY <1>1, <1>2 DEF Inv

LEMMA StartWatchInv == ASSUME Inv, NEW c \in Callers, StartWatch(c) PROVE Inv'
<1> USE FolderLockAssumption DEF Inv, TypeOK, StartWatch, Meet, Busy, Goto, Me
<1>1. TypeOK'
  BY DEF Starting, Stopping, File, AliveInv, FolderLockAssumption
<1>2. AliveInv'
  BY DEF AliveInv
<1>3. WedgeInv'
  BY DEF WedgeInv, Named, File
<1>4. RaceInv'
  BY ZenonT(60) DEF RaceInv, StarterInv, OwnerInv, Named, Starting, AliveInv, File
<1>5. AloneInv'
  BY <1>3 DEF AloneInv, WedgeInv, Named, Starting, AliveInv, File
<1> QED
  BY <1>1, <1>2, <1>3, <1>4, <1>5

LEMMA CheckHeldInv == ASSUME Inv, NEW c \in Callers, CheckHeld(c) PROVE Inv'
<1> USE FolderLockAssumption DEF Inv, TypeOK, CheckHeld, Goto, Me, Rest
<1>1. TypeOK'
  BY DEF Starting, Stopping, File, AliveInv, FolderLockAssumption
<1>2. AliveInv'
  BY DEF AliveInv
<1>3. WedgeInv'
  BY DEF WedgeInv, Named, File
<1>4. RaceInv'
  BY DEF RaceInv, StarterInv, OwnerInv, Named, Starting, AliveInv, File
<1>5. AloneInv'
  BY <1>3 DEF AloneInv, WedgeInv, Named, Starting, AliveInv, File
<1> QED
  BY <1>1, <1>2, <1>3, <1>4, <1>5

LEMMA OpenExclusiveInv == ASSUME Inv, NEW c \in Callers, OpenExclusive(c) PROVE Inv'
<1> USE FolderLockAssumption DEF Inv, TypeOK, OpenExclusive, Goto, Rest, File
<1>1. TypeOK'
  BY DEF Starting, Stopping, File, AliveInv, FolderLockAssumption
<1>2. AliveInv'
  BY DEF AliveInv
<1>3. WedgeInv'
  BY DEF WedgeInv, Named, File
<1>4. RaceInv'
  BY DEF RaceInv, StarterInv, OwnerInv, Named, Starting, AliveInv, File
<1>5. AloneInv'
  BY <1>3 DEF AloneInv, WedgeInv, Named, Starting, AliveInv, File
<1> QED
  BY <1>1, <1>2, <1>3, <1>4, <1>5

LEMMA WritePayloadInv == ASSUME Inv, NEW c \in Callers, WritePayload(c) PROVE Inv'
<1> USE FolderLockAssumption DEF Inv, TypeOK, WritePayload, Goto, Me, Rest, File
<1>1. TypeOK'
  BY DEF Starting, Stopping, File, AliveInv, FolderLockAssumption
<1>2. AliveInv'
  BY DEF AliveInv
<1>3. WedgeInv'
  BY DEF WedgeInv, Named, File
<1>4. RaceInv'
  BY DEF RaceInv, StarterInv, OwnerInv, Named, Starting, AliveInv, File
<1>5. AloneInv'
  BY <1>3 DEF AloneInv, WedgeInv, Named, Starting, AliveInv, File
<1> QED
  BY <1>1, <1>2, <1>3, <1>4, <1>5

LEMMA WriteFailsInv == ASSUME Inv, NEW c \in Callers, WriteFails(c) PROVE Inv'
<1> USE FolderLockAssumption DEF Inv, TypeOK, WriteFails, RemoveFile, Goto
<1>1. TypeOK'
  BY DEF Starting, Stopping, File, AliveInv, FolderLockAssumption
<1>2. AliveInv'
  BY DEF AliveInv
<1>3. WedgeInv'
  BY DEF WedgeInv, Named, File
<1>4. RaceInv'
  BY DEF RaceInv, StarterInv, OwnerInv, Named, Starting, AliveInv, File
<1>5. AloneInv'
  BY <1>3 DEF AloneInv, WedgeInv, Named, Starting, AliveInv, File
<1> QED
  BY <1>1, <1>2, <1>3, <1>4, <1>5

LEMMA ClaimInv == ASSUME Inv, NEW c \in Callers, Claim(c) PROVE Inv'
<1> USE FolderLockAssumption DEF Inv, TypeOK, Claim, Goto, Me, Rest
<1>1. TypeOK'
  BY DEF Starting, Stopping, File, AliveInv, FolderLockAssumption
<1>2. AliveInv'
  BY DEF AliveInv
<1>3. WedgeInv'
  BY DEF WedgeInv, Named, File
<1>4. RaceInv'
  BY DEF RaceInv, StarterInv, OwnerInv, Named, Starting, AliveInv, File
<1>5. AloneInv'
  BY <1>3 DEF AloneInv, WedgeInv, Named, Starting, AliveInv, File
<1> QED
  BY <1>1, <1>2, <1>3, <1>4, <1>5

LEMMA MarkWatchedInv == ASSUME Inv, NEW c \in Callers, MarkWatched(c) PROVE Inv'
<1> USE FolderLockAssumption DEF Inv, TypeOK, MarkWatched, Goto, Me, Rest
<1>1. TypeOK'
  BY DEF Starting, Stopping, File, AliveInv, FolderLockAssumption
<1>2. AliveInv'
  BY DEF AliveInv
<1>3. WedgeInv'
  BY DEF WedgeInv, Named, File
<1>4. RaceInv'
  BY DEF RaceInv, StarterInv, OwnerInv, Named, Starting, AliveInv, File
<1>5. AloneInv'
  BY <1>3 DEF AloneInv, WedgeInv, Named, Starting, AliveInv, File
<1> QED
  BY <1>1, <1>2, <1>3, <1>4, <1>5

LEMMA JudgeInv == ASSUME Inv, NEW c \in Callers, Judge(c) PROVE Inv'
<1> USE FolderLockAssumption DEF Inv, TypeOK, Judge, Goto, Rest, IsStale
<1>1. TypeOK'
  BY DEF Starting, Stopping, File, AliveInv, FolderLockAssumption
<1>2. AliveInv'
  BY DEF AliveInv
<1>3. WedgeInv'
  BY DEF WedgeInv, Named, File
<1>4. RaceInv'
  BY DEF RaceInv, StarterInv, OwnerInv, Named, Starting, AliveInv, File
<1>5. AloneInv'
  BY <1>3 DEF AloneInv, WedgeInv, Named, Starting, AliveInv, File
<1> QED
  BY <1>1, <1>2, <1>3, <1>4, <1>5

LEMMA RemoveStaleInv == ASSUME Inv, NEW c \in Callers, RemoveStale(c) PROVE Inv'
<1> USE FolderLockAssumption DEF Inv, TypeOK, RemoveStale, RemoveFile, Goto, Rest
<1>1. TypeOK'
  BY DEF Starting, Stopping, File, AliveInv, FolderLockAssumption
<1>2. AliveInv'
  BY DEF AliveInv
<1>3. WedgeInv'
  BY DEF WedgeInv, Named, File
<1>4. RaceInv'
  BY DEF RaceInv, StarterInv, OwnerInv, Named, Starting, AliveInv, File
<1>5. AloneInv'
  BY <1>3 DEF AloneInv, WedgeInv, Named, Starting, AliveInv, File
<1> QED
  BY <1>1, <1>2, <1>3, <1>4, <1>5

LEMMA StopWatchInv == ASSUME Inv, NEW c \in Callers, StopWatch(c) PROVE Inv'
<1> USE FolderLockAssumption DEF Inv, TypeOK, StopWatch, Meet, Busy, Goto, Me
<1>1. TypeOK'
  BY DEF Starting, Stopping, File, AliveInv, FolderLockAssumption
<1>2. AliveInv'
  BY DEF AliveInv
<1>3. WedgeInv'
  BY DEF WedgeInv, Named, File
<1>4. RaceInv'
  BY DEF RaceInv, StarterInv, OwnerInv, Named, Starting, AliveInv, File
<1>5. AloneInv'
  BY <1>3 DEF AloneInv, WedgeInv, Named, Starting, AliveInv, File
<1> QED
  BY <1>1, <1>2, <1>3, <1>4, <1>5

LEMMA ReleaseInv == ASSUME Inv, NEW c \in Callers, Release(c) PROVE Inv'
<1> USE FolderLockAssumption DEF Inv, TypeOK, Release, Goto, Me, Rest
<1>1. TypeOK'
  BY DEF Starting, Stopping, File, AliveInv, FolderLockAssumption
<1>2. AliveInv'
  BY DEF AliveInv
<1>3. WedgeInv'
  BY DEF WedgeInv, Named, File
<1>4. RaceInv'
  BY DEF RaceInv, StarterInv, OwnerInv, Named, Starting, AliveInv, File
<1>5. AloneInv'
  BY <1>3 DEF AloneInv, WedgeInv, Named, Starting, AliveInv, File
<1> QED
  BY <1>1, <1>2, <1>3, <1>4, <1>5

LEMMA UnlinkInv == ASSUME Inv, NEW c \in Callers, Unlink(c) PROVE Inv'
<1> USE FolderLockAssumption DEF Inv, TypeOK, Unlink, RemoveFile, Goto, Rest
<1>1. TypeOK'
  BY DEF Starting, Stopping, File, AliveInv, FolderLockAssumption
<1>2. AliveInv'
  BY DEF AliveInv
<1>3. WedgeInv'
  BY DEF WedgeInv, Named, File
<1>4. RaceInv'
  BY DEF RaceInv, StarterInv, OwnerInv, Named, Starting, AliveInv, File
<1>5. AloneInv'
  BY <1>3 DEF AloneInv, WedgeInv, Named, Starting, AliveInv, File
<1> QED
  BY <1>1, <1>2, <1>3, <1>4, <1>5

LEMMA UnlinkFailsInv == ASSUME Inv, NEW c \in Callers, UnlinkFails(c) PROVE Inv'
<1> USE FolderLockAssumption DEF Inv, TypeOK, UnlinkFails, Goto, Me
<1>1. TypeOK'
  BY DEF Starting, Stopping, File, AliveInv, FolderLockAssumption
<1>2. AliveInv'
  BY DEF AliveInv
<1>3. WedgeInv'
  BY DEF WedgeInv, Named, File
<1>4. RaceInv'
  BY DEF RaceInv, StarterInv, OwnerInv, Named, Starting, AliveInv, File
<1>5. AloneInv'
  BY <1>3 DEF AloneInv, WedgeInv, Named, Starting, AliveInv, File
<1> QED
  BY <1>1, <1>2, <1>3, <1>4, <1>5

LEMMA CrashInv == ASSUME Inv, NEW p \in Processes, Crash(p) PROVE Inv'
<1> USE FolderLockAssumption DEF Inv, TypeOK, Crash
<1>1. TypeOK'
  BY DEF Starting, Stopping
<1>2. AliveInv'
  BY DEF AliveInv
<1>3. WedgeInv'
  BY DEF WedgeInv, Named, File
<1>4. RaceInv'
  BY DEF RaceInv, StarterInv, OwnerInv, Named, Starting, AliveInv, File
<1>5. AloneInv'
  BY DEF AloneInv, Named, Starting
<1> QED
  BY <1>1, <1>2, <1>3, <1>4, <1>5

LEMMA NextInv == Inv /\ [Next]_vars => Inv'
<1> SUFFICES ASSUME Inv, [Next]_vars PROVE Inv'
  OBVIOUS
<1>1. ASSUME NEW c \in Callers,
             \/ StartWatch(c) \/ Acquire(c) \/ MarkWatched(c)
             \/ StopWatch(c) \/ Release(c) \/ Unlink(c) \/ UnlinkFails(c)
      PROVE  Inv'
  BY <1>1, StartWatchInv, CheckHeldInv, OpenExclusiveInv, WritePayloadInv, WriteFailsInv,
     ClaimInv, JudgeInv, RemoveStaleInv, MarkWatchedInv, StopWatchInv, ReleaseInv, UnlinkInv,
     UnlinkFailsInv
     DEF Acquire
<1>2. ASSUME NEW p \in Processes, Crash(p) PROVE Inv'
  BY <1>2, CrashInv
<1>3. CASE UNCHANGED vars
  BY <1>3 DEF vars, Inv, TypeOK, AliveInv, WedgeInv, Named, RaceInv, StarterInv, OwnerInv,
              AloneInv
<1> QED
  BY <1>1, <1>2, <1>3 DEF Next

LEMMA InvHolds == Spec => []Inv
BY InitInv, NextInv, PTL DEF Spec

-----------------------------------------------------------------------------
(* The results.                                                            *)

\* Every variable keeps its type; only live processes hold or watch.
THEOREM TypeCorrect == Spec => []TypeOK
<1>1. Inv => TypeOK
  BY DEF Inv
<1> QED
  BY <1>1, InvHolds, PTL

\* Acquire and Release never leave a lock file that names a live process nobody in it
\* holds or is working on, unless that process failed to release it.
THEOREM NeverWedged == Spec => []NoWedge
<1>1. Inv => NoWedge
  BY DEF Inv, TypeOK, File, WedgeInv, Named, NoWedge, Busy
<1> QED
  BY <1>1, InvHolds, PTL

\* As long as no two Start calls overlap, Acquire gives the folder to one live process.
THEOREM OneOwnerWhenSerial == Spec => []OneOwnerUnlessRaced
<1>1. Inv => OneOwnerUnlessRaced
  <2> SUFFICES ASSUME Inv, ~raced PROVE Cardinality(held) <= 1
    BY DEF OneOwnerUnlessRaced
  <2>1. held \subseteq {file.pid}
    BY DEF Inv, RaceInv, OwnerInv
  <2>2. IsFiniteSet({file.pid}) /\ Cardinality({file.pid}) = 1
    BY FS_Singleton
  <2> QED
    BY <2>1, <2>2, FS_Subset
<1> QED
  BY <1>1, InvHolds, PTL

\* A Start that meets no other call, no live holder and no live process that failed to
\* release the lock gets the folder, whatever file a
\* crash left behind.
THEOREM AloneIsGranted == Spec => AloneAcquires
<1> DEFINE Granted == \A c \in Callers : Refused(c) => c \in contended
<1>1. Inv /\ [Next]_vars => [Granted]_vars
  <2> SUFFICES ASSUME Inv, Next, NEW c \in Callers, Refused(c), c \notin contended
               PROVE  FALSE
    OBVIOUS
  <2>1. /\ pc[c] \in Starting \ {"mark"} /\ pc'[c] = "idle" /\ faults' = faults
        /\ faults \in Nat /\ pc \in [Callers -> {"idle"} \cup Starting \cup Stopping]
    BY DEF Refused, Inv, TypeOK
  <2>2. ASSUME NEW p \in Processes, Crash(p) PROVE FALSE
    BY <2>1, <2>2 DEF Crash
  <2>3. ASSUME NEW d \in Callers, d # c,
               \/ StartWatch(d) \/ Acquire(d) \/ MarkWatched(d)
               \/ StopWatch(d) \/ Release(d) \/ Unlink(d) \/ UnlinkFails(d)
        PROVE  FALSE
    <3>1. pc'[c] = pc[c]
      BY <2>1, <2>3 DEF StartWatch, Acquire, CheckHeld, OpenExclusive, WritePayload,
         WriteFails, Claim, Judge, RemoveStale, MarkWatched, StopWatch, Release, Unlink, UnlinkFails,
         Goto
    <3> QED
      BY <2>1, <3>1 DEF Starting
  <2>4. ASSUME \/ StartWatch(c) \/ MarkWatched(c) \/ StopWatch(c) \/ Release(c) \/ Unlink(c)
               \/ UnlinkFails(c)
        PROVE  FALSE
    BY <2>1, <2>4 DEF StartWatch, MarkWatched, StopWatch, Release, Unlink, UnlinkFails, Starting
  <2>5. ASSUME WriteFails(c) \/ WritePayload(c) \/ Claim(c) \/ RemoveStale(c) PROVE FALSE
    BY <2>1, <2>5 DEF WriteFails, WritePayload, Claim, RemoveStale, Goto
  <2>6. ASSUME CheckHeld(c) \/ OpenExclusive(c) \/ Judge(c) PROVE FALSE
    BY <2>1, <2>6 DEF CheckHeld, OpenExclusive, Judge, Goto, IsStale, Inv, AloneInv, Named
  <2> QED
    BY <2>2, <2>3, <2>4, <2>5, <2>6 DEF Next, Acquire
<1> QED
  BY <1>1, InvHolds, PTL DEF Spec, AloneAcquires
=============================================================================
