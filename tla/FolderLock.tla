----------------------------- MODULE FolderLock -----------------------------
(***************************************************************************)
(* Watch ownership of one folder.  Every server process has a              *)
(* StateController that records whether the folder is watched and a        *)
(* folderLockManager that records whether it holds the folder's lock; the  *)
(* processes agree through one lock file in the storage directory, which   *)
(* is created exclusively, then written with the owner's PID, and which a  *)
(* later Start removes when it reads as the file of a dead process.        *)
(*                                                                         *)
(* A goroutine is in at most one Start or Stop.  Each file-system call and *)
(* each critical section is one step.  The flock is not modelled: a file   *)
(* is flocked only by the call that created it, so flock never blocks      *)
(* another process.  A crashed process never comes back under its PID.     *)
(***************************************************************************)
EXTENDS Naturals, FiniteSets

CONSTANTS
    Processes,  \* PIDs of the server processes
    Callers,    \* goroutines that call Start and Stop
    PidOf,      \* PidOf[c]: the process goroutine c runs in
    Absent,     \* there is no lock file
    NoPid,      \* the lock file was created but not written yet
    MaxStarts, MaxStops, MaxFaults      \* bounds of a run

ASSUME FolderLockAssumption ==
    /\ PidOf \in [Callers -> Processes]
    /\ NoPid \notin Processes
    /\ Absent \notin [by : Callers, pid : Processes \cup {NoPid}]
    /\ {MaxStarts, MaxStops, MaxFaults} \subseteq Nat

VARIABLES
    file,       \* the directory entry of the lock file
    alive,      \* processes that have not crashed
    held,       \* processes whose lock manager holds the lock
    watched,    \* processes whose controller has the folder in its watched set
    pc,         \* where each goroutine is
    contended,  \* history: goroutines whose Start met another call, a live holder or a
                \* live process that failed to release the lock
    stuck,      \* history: processes that left the present file behind in a failing Release
    raced,      \* history: two Start calls have been under way at the same time
    starts, stops, faults   \* counters for the bounds

vars == <<file, alive, held, watched, pc, contended, stuck, raced, starts, stops, faults>>

Starting == {"check", "open", "write", "claim", "judge", "remove", "reopen", "mark"}
Stopping == {"release", "unlink"}

\* An inode is named by the goroutine that created it, the only one that writes to it.
File == [by : Callers, pid : Processes \cup {NoPid}]

Init ==
    /\ file = Absent
    /\ alive = Processes
    /\ held = {} /\ watched = {}
    /\ pc = [c \in Callers |-> "idle"]
    /\ contended = {} /\ stuck = {} /\ raced = FALSE
    /\ starts = 0 /\ stops = 0 /\ faults = 0

Me(c) == PidOf[c]
Busy == {c \in Callers : pc[c] # "idle"}
Goto(c, place) == pc' = [pc EXCEPT ![c] = place]

\* What most steps leave alone.
Rest == <<alive, contended, raced, starts, stops, faults>>

\* os.Remove takes away whatever file is there by now.
RemoveFile == file' = Absent /\ stuck' = {}

-----------------------------------------------------------------------------
(* StateController.Start and folderLockManager.Acquire                     *)

\* A call begins; it and the calls under way meet each other.
Meet(c, start) ==
    /\ contended' = IF Busy = {} /\ (held \cup stuck) \cap alive = {} THEN contended \ {c}
                    ELSE contended \cup Busy \cup {c}
    /\ raced' = (raced \/ (start /\ \E d \in Busy : pc[d] \in Starting))

\* A repeated Start is a no-op.
StartWatch(c) ==
    /\ pc[c] = "idle" /\ Me(c) \in alive \ watched /\ starts < MaxStarts
    /\ starts' = starts + 1
    /\ Goto(c, "check")
    /\ Meet(c, TRUE)
    /\ UNCHANGED <<file, alive, held, watched, stuck, stops, faults>>

CheckHeld(c) ==
    /\ pc[c] = "check"
    /\ Goto(c, IF Me(c) \in held THEN "idle" ELSE "open")
    /\ UNCHANGED <<file, held, watched, stuck, Rest>>

\* tryAcquireLock: O_CREATE|O_EXCL.  The second attempt gives up when the file exists.
OpenExclusive(c) ==
    /\ pc[c] \in {"open", "reopen"}
    /\ \/ /\ file = Absent
          /\ file' = [by |-> c, pid |-> NoPid]
          /\ Goto(c, "write")
       \/ /\ file # Absent
          /\ Goto(c, IF pc[c] = "open" THEN "judge" ELSE "idle")
          /\ UNCHANGED file
    /\ UNCHANGED <<held, watched, stuck, Rest>>

\* The payload goes to the file this call created, linked or not.
WritePayload(c) ==
    /\ pc[c] = "write"
    /\ Goto(c, "claim")
    /\ file' = IF file # Absent /\ file.by = c THEN [file EXCEPT !.pid = Me(c)] ELSE file
    /\ UNCHANGED <<held, watched, stuck, Rest>>

\* Writing, syncing or locking the file fails: cleanupFailedLock removes whatever file is
\* there now, and the call returns.
WriteFails(c) ==
    /\ pc[c] = "write" /\ faults < MaxFaults
    /\ faults' = faults + 1
    /\ Goto(c, "idle")
    /\ RemoveFile
    /\ UNCHANGED <<alive, held, watched, contended, raced, starts, stops>>

Claim(c) ==
    /\ pc[c] = "claim"
    /\ held' = held \cup {Me(c)}
    /\ Goto(c, "mark")
    /\ UNCHANGED <<file, watched, stuck, Rest>>

MarkWatched(c) ==
    /\ pc[c] = "mark"
    /\ watched' = watched \cup {Me(c)}
    /\ Goto(c, "idle")
    /\ UNCHANGED <<file, held, stuck, Rest>>

\* Mutants: a file without a readable PID counts as live; any process counts as dead.
IsStaleOnlyDead == file # Absent /\ file.pid \in Processes \ alive
IsStaleAlways == file # Absent
\* isStaleLock: the file has no payload yet, or its PID is not alive.
IsStale == file # Absent /\ file.pid \notin alive

Judge(c) ==
    /\ pc[c] = "judge"
    /\ Goto(c, IF IsStale THEN "remove" ELSE "idle")
    /\ UNCHANGED <<file, held, watched, stuck, Rest>>

RemoveStale(c) ==
    /\ pc[c] = "remove"
    /\ RemoveFile
    /\ Goto(c, "reopen")
    /\ UNCHANGED <<held, watched, Rest>>

-----------------------------------------------------------------------------
(* StateController.Stop and folderLockManager.Release                      *)

StopWatch(c) ==
    /\ pc[c] = "idle" /\ Me(c) \in alive /\ stops < MaxStops
    /\ stops' = stops + 1
    /\ watched' = watched \ {Me(c)}
    /\ Goto(c, "release")
    /\ Meet(c, FALSE)
    /\ UNCHANGED <<file, alive, held, stuck, starts, faults>>

\* Mutant: Release forgets the lock without removing the file.
ReleaseKeepsFile(c) ==
    /\ pc[c] = "release"
    /\ Goto(c, "idle")
    /\ held' = held \ {Me(c)}
    /\ UNCHANGED <<file, watched, stuck, Rest>>

Release(c) ==
    /\ pc[c] = "release"
    /\ Goto(c, IF Me(c) \in held THEN "unlink" ELSE "idle")
    /\ held' = held \ {Me(c)}
    /\ UNCHANGED <<file, watched, stuck, Rest>>

Unlink(c) ==
    /\ pc[c] = "unlink"
    /\ RemoveFile
    /\ Goto(c, "idle")
    /\ UNCHANGED <<held, watched, Rest>>

\* Unlocking, closing or removing the file fails: Release returns, and the file stays.
UnlinkFails(c) ==
    /\ pc[c] = "unlink" /\ faults < MaxFaults
    /\ faults' = faults + 1
    /\ stuck' = stuck \cup {Me(c)}
    /\ Goto(c, "idle")
    /\ UNCHANGED <<file, alive, held, watched, contended, raced, starts, stops>>

-----------------------------------------------------------------------------
\* A process dies: its maps are gone, the lock file stays as it is.
Crash(p) ==
    /\ p \in alive /\ faults < MaxFaults
    /\ faults' = faults + 1
    /\ alive' = alive \ {p}
    /\ held' = held \ {p} /\ watched' = watched \ {p}
    /\ pc' = [c \in Callers |-> IF PidOf[c] = p THEN "idle" ELSE pc[c]]
    /\ UNCHANGED <<file, contended, stuck, raced, starts, stops>>

Acquire(c) == \/ CheckHeld(c) \/ OpenExclusive(c) \/ WritePayload(c) \/ WriteFails(c)
              \/ Claim(c) \/ Judge(c) \/ RemoveStale(c)

Next ==
    \/ \E c \in Callers : \/ StartWatch(c) \/ Acquire(c) \/ MarkWatched(c)
                          \/ StopWatch(c) \/ Release(c) \/ Unlink(c) \/ UnlinkFails(c)
    \/ \E p \in Processes : Crash(p)

-----------------------------------------------------------------------------
TypeOK ==
    /\ file \in File \cup {Absent}
    /\ alive \subseteq Processes
    /\ held \subseteq alive /\ watched \subseteq alive
    /\ pc \in [Callers -> {"idle"} \cup Starting \cup Stopping]
    /\ contended \subseteq Callers
    /\ stuck \subseteq Processes
    /\ raced \in BOOLEAN
    /\ starts \in Nat /\ stops \in Nat /\ faults \in Nat

\* A lock file that names a live process belongs to a lock that process holds or to a call
\* it is running, unless that process itself failed to release the very file: no other
\* sequence of Start, Stop and crashes leaves a file that keeps everybody out for as long as
\* its owner lives.
NoWedge ==
    file # Absent /\ file.pid \in alive =>
        file.pid \in held \cup stuck \/ \E c \in Busy : PidOf[c] = file.pid

\* While no two Start calls have overlapped, at most one live process owns the folder,
\* wherever processes crashed: a lock is taken over only from the dead.
OneOwnerUnlessRaced == ~raced => Cardinality(held) <= 1

\* A Start that was alone, with no live holder and no live process that failed to release
\* the lock, gets the folder: the file a crashed process
\* left, written or not, is cleaned up, and one retry is enough.
Refused(c) == pc[c] \in Starting /\ pc'[c] = "idle" /\ faults' = faults /\ pc[c] # "mark"
AloneAcquires == [][\A c \in Callers : Refused(c) => c \in contended]_vars

\* "expected second controller to skip already-watched folder": two live processes never
\* own the watch of one folder.
OneOwner == Cardinality(held) <= 1

Spec == Init /\ [][Next]_vars
=============================================================================
