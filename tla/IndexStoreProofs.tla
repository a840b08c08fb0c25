-------------------------- MODULE IndexStoreProofs --------------------------
(***************************************************************************)
(* In one server process the store loses no acknowledged save and returns  *)
(* no superseded one, for repositories that have a slug of their own.      *)
(*                                                                         *)
(* The write lock makes a save or a delete the only call inside; readers   *)
(* that import a sidecar overlap, but all of them write what the sidecar   *)
(* holds.                                                                  *)
(***************************************************************************)
EXTENDS IndexStore, TLAPS

OneProcess == \A c, d \in Callers : ProcessOf[c] = ProcessOf[d]
OwnSlug == \A r, s \in Repos : r = s

\* Who is inside, is alone or a reader among readers.
LockInv ==
    \A c, d \in Callers : c # d /\ Inside(c) /\ Inside(d) => Reads(c) /\ Reads(d)

\* Saves have numbers of their own, and what is superseded has ended.
NumbersInv ==
    /\ superseded \subseteq ended
    /\ \A n \in ended : n <= saves
    /\ \A c \in Callers : op[c].kind = "save" /\ Running(c) =>
          /\ op[c].data.ver \notin ended /\ op[c].data.ver <= saves
          /\ \A d \in Callers \ {c} : op[d].kind = "save" /\ Running(d) =>
                op[c].data.ver # op[d].data.ver

\* No superseded snapshot is left in a file or in the hands of a call.
Current(s) == s \in Snapshot => s.ver \notin superseded
RecentInv ==
    /\ db # NoDb => \A s \in db : Current(s)
    /\ Current(json)
    /\ \A c \in Callers :
          /\ Running(c) => op[c].older \subseteq (IF Reads(c) THEN superseded ELSE ended)
          /\ Inside(c) => Current(op[c].row) /\ Current(op[c].data)

\* What a call knows by itself at each of its steps.
Place(o) ==
    /\ o.kind = "save" /\ o.pc # "idle" => o.data \in Snapshot
    /\ o.pc \in {"stat", "query", "legacy"} => o.kind \in {"load", "list"}
    /\ o.pc \in {"dropdb", "dropjson"} => o.kind = "delete"
    /\ o.pc \in {"open", "commit", "create", "write", "rename"} =>
          o.kind # "delete" /\ o.data \in Snapshot
    /\ o.pc = "lock" => o.row = None /\ (o.kind # "save" => o.data = None)
PlaceInv == \A c \in Callers : Place(op[c])

\* What it knows about the database D, the sidecar J and the temporary file T.
Committed == {"create", "write", "rename"}
FilesOf(o, D, J, T) ==
    /\ o.pc = "commit" => o.linked /\ D # NoDb
    /\ o.pc \in Committed => D # NoDb /\ D # {}
    /\ o.pc \in Committed /\ o.kind = "save" => D = {o.data}
    /\ o.pc = "dropjson" => D = NoDb
    /\ o.pc = "write" /\ o.kind = "save" => o.fd = "tmp"
    /\ o.pc = "rename" /\ o.kind = "save" => T = o.data
    /\ o.pc \in Committed \cup {"open", "commit"} /\ o.kind # "save" => J \in {o.data, Torn}
    /\ o.pc \in {"write", "rename"} => T \in {None, Torn, o.data}
FilesInv == \A c \in Callers : FilesOf(op[c], db, json, tmp)

\* A delete that runs takes the promise back.
KeptInv ==
    \A c \in Callers : Running(c) /\ op[c].kind = "delete" =>
        ~kept /\ \A d \in Callers : Running(d) /\ op[d].kind = "save" => ~op[d].keeps

StoreInv == /\ LockInv /\ NumbersInv /\ RecentInv /\ FilesInv /\ KeptInv
            /\ WritersAgree /\ AcknowledgedSurvives

-----------------------------------------------------------------------------
(* Types                                                                   *)

LEMMA IdleType == ASSUME NEW r \in Repos PROVE Idle(r) \in Op /\ Idle(r).pc = "idle"
  BY DEF Idle, Op, Steps, Kinds

LEMMA ReturnedType ==
  ASSUME TypeOK, NEW c \in Callers, NEW answer \in {"done", "found", "not found", "failure"},
         NEW got \in Snapshot \cup {None}
  PROVE  /\ Returned(c, answer, got) \in Op
         /\ Returned(c, answer, got).pc = "idle"
         /\ Returned(c, answer, got).answer = answer
         /\ Returned(c, answer, got).got = got
<1>1. op[c].repo \in Repos
  BY DEF TypeOK, Op
<1> QED
  BY <1>1 DEF Returned, Idle, Op, Steps, Kinds

LEMMA EndsType ==
  ASSUME TypeOK, NEW c \in Callers, NEW answer, Ends(c, answer),
         op[c].kind = "save" => op[c].data \in Snapshot
  PROVE  ended' \subseteq Nat /\ superseded' \subseteq Nat /\ kept' \in BOOLEAN
<1>1. op[c].older \subseteq Nat /\ (op[c].data \in Snapshot => op[c].data.ver \in Nat)
  BY DEF TypeOK, Op, Snapshot
<1> QED
  BY <1>1 DEF TypeOK, Ends

LEMMA StepType ==
  ASSUME TypeOK, PlaceInv, NEW c \in Callers, NEW n \in Op, Place(n),
         op' = [op EXCEPT ![c] = n],
         db' \in (SUBSET Snapshot) \cup {NoDb}, json' \in File, tmp' \in File,
         ended' \subseteq Nat /\ superseded' \subseteq Nat /\ kept' \in BOOLEAN,
         saves' \in Nat, calls' \in Nat, faults' \in Nat
  PROVE  TypeOK' /\ PlaceInv'
  BY DEF TypeOK, PlaceInv

LEMMA GotoType ==
  ASSUME TypeOK, NEW c \in Callers, NEW s \in Steps
  PROVE  /\ [op[c] EXCEPT !.pc = s] \in Op
         /\ [op[c] EXCEPT !.pc = s].pc = s
         /\ [op[c] EXCEPT !.pc = s].kind = op[c].kind
         /\ [op[c] EXCEPT !.pc = s].data = op[c].data
         /\ [op[c] EXCEPT !.pc = s].row = op[c].row
         /\ [op EXCEPT ![c].pc = s] = [op EXCEPT ![c] = [op[c] EXCEPT !.pc = s]]
<1>1. op[c] \in Op
  BY DEF TypeOK
<1> QED
  BY <1>1 DEF Op

\* A call moves on and at most the files change.
LEMMA GotoStep ==
  ASSUME TypeOK, PlaceInv, NEW c \in Callers, NEW s \in Steps \ {"lock"}, Goto(c, s),
         s \in {"stat", "query", "legacy"} => op[c].kind \in {"load", "list"},
         s \in {"dropdb", "dropjson"} => op[c].kind = "delete",
         s \in {"open", "commit", "create", "write", "rename"} =>
            op[c].kind # "delete" /\ op[c].data \in Snapshot,
         op[c].pc # "idle",
         db' \in (SUBSET Snapshot) \cup {NoDb}, json' \in File, tmp' \in File,
         UNCHANGED History, saves' \in Nat, calls' \in Nat, faults' \in Nat
  PROVE  TypeOK' /\ PlaceInv'
<1> DEFINE n == [op[c] EXCEPT !.pc = s]
<1>1. n \in Op /\ op' = [op EXCEPT ![c] = n]
  BY GotoType DEF Goto
<1>2. n.pc = s /\ n.kind = op[c].kind /\ n.data = op[c].data
  BY GotoType
<1> HIDE DEF n
<1>3. Place(n)
  BY <1>2 DEF PlaceInv, Place
<1>4. ended' \subseteq Nat /\ superseded' \subseteq Nat /\ kept' \in BOOLEAN
  BY DEF TypeOK, History
<1> QED
  BY <1>1, <1>3, <1>4, StepType

\* A call returns.
LEMMA ReturnStep ==
  ASSUME TypeOK, PlaceInv, NEW c \in Callers, op[c].pc # "idle",
         NEW answer \in {"done", "found", "not found", "failure"},
         NEW got \in Snapshot \cup {None}, Return(c, answer, got),
         db' \in (SUBSET Snapshot) \cup {NoDb}, json' \in File, tmp' \in File,
         saves' \in Nat, calls' \in Nat, faults' \in Nat
  PROVE  TypeOK' /\ PlaceInv'
<1> DEFINE n == Returned(c, answer, got)
<1>1. n \in Op /\ n.pc = "idle"
  <2>1. Returned(c, answer, got) \in Op
    BY ReturnedType
  <2>2. Returned(c, answer, got).pc = "idle"
    BY DEF Returned, Idle
  <2> QED
    BY <2>1, <2>2
<1>2. op' = [op EXCEPT ![c] = n]
  BY DEF Return
<1> HIDE DEF n
<1>3. Place(n)
  BY <1>1 DEF Place
<1>4. ended' \subseteq Nat /\ superseded' \subseteq Nat /\ kept' \in BOOLEAN
  BY EndsType DEF Return, PlaceInv, Place
<1> QED
  BY <1>1, <1>2, <1>3, <1>4, StepType

LEMMA FilesTyped ==
  ASSUME TypeOK, PlaceInv, NEW c \in Callers
  PROVE  /\ Opened \in SUBSET Snapshot /\ Files = <<db, json, tmp>>
         /\ op[c].row \in Snapshot \cup {None} /\ op[c].data \in Snapshot \cup {None}
         /\ op[c].kind \in Kinds /\ op[c].repo \in Repos
  BY DEF TypeOK, Opened, Files, Op

\* Abandon is a Return or, for List, one that gives what it has.
LEMMA AbandonReturns ==
  ASSUME TypeOK, PlaceInv, NEW c \in Callers, Abandon(c) \/ ReturnList(c, op[c].row)
  PROVE  \E answer \in {"found", "not found", "failure"}, got \in {None, op[c].row} :
            /\ Return(c, answer, got)
            /\ answer = "found" => got = op[c].row /\ got # None
  BY DEF Abandon, ReturnList

LEMMA CallType ==
  ASSUME TypeOK, NEW k \in Kinds, NEW r \in Repos
  PROVE  /\ Call(k, r) \in Op /\ Place(Call(k, r)) /\ Call(k, r).pc = "lock"
         /\ Call(k, r).kind = k /\ Call(k, r).row = None
         /\ Call(k, r).data = IF k = "save" THEN [repo |-> r, ver |-> saves + 1] ELSE None
         /\ Call(k, r).older = IF k \in {"save", "delete"} THEN ended ELSE superseded
         /\ Call(k, r).keeps => ~ \E d \in Callers : op[d].pc # "idle" /\ op[d].kind = "delete"
<1> DEFINE data == IF k = "save" THEN [repo |-> r, ver |-> saves + 1] ELSE None
           older == IF k \in {"save", "delete"} THEN ended ELSE superseded
           keeps == ~ \E d \in Callers : op[d].pc # "idle" /\ op[d].kind = "delete"
<1>1. data \in Snapshot \cup {None} /\ older \in SUBSET Nat /\ keeps \in BOOLEAN
      /\ (k = "save" => data \in Snapshot) /\ (k # "save" => data = None)
  BY DEF TypeOK, Snapshot
<1>2. Call(k, r) = [Idle(r) EXCEPT !.pc = "lock", !.kind = k, !.data = data,
                                   !.older = older, !.keeps = keeps]
  BY DEF Call
<1> HIDE DEF data, older, keeps
<1>3. Idle(r) \in Op /\ Idle(r).row = None
  BY IdleType DEF Idle
<1>4. /\ Call(k, r) \in Op /\ Call(k, r).pc = "lock" /\ Call(k, r).kind = k
      /\ Call(k, r).data = data /\ Call(k, r).older = older /\ Call(k, r).keeps = keeps
      /\ Call(k, r).row = None
  BY <1>1, <1>2, <1>3 DEF Op, Steps
<1>5. Place(Call(k, r))
  BY <1>1, <1>4 DEF Place, Kinds
<1> QED
  BY <1>4, <1>5 DEF data, older, keeps

LEMMA BeginTyped ==
  ASSUME TypeOK, PlaceInv, NEW c \in Callers, NEW k \in Kinds, NEW r \in Repos,
         BeginCall(c, k, r)
  PROVE  TypeOK' /\ PlaceInv'
<1> DEFINE n(d) == [op[d] EXCEPT !.keeps = @ /\ k # "delete"]
<1>1. op' = [d \in Callers |-> IF d = c THEN Call(k, r) ELSE n(d)]
  BY DEF BeginCall
<1>2. ASSUME NEW d \in Callers PROVE n(d) \in Op /\ Place(n(d))
  <2> DEFINE x == op[d].keeps /\ k # "delete"
  <2>1. op[d] \in Op /\ x \in BOOLEAN /\ Place(op[d])
    BY DEF TypeOK, PlaceInv
  <2>2. n(d) = [op[d] EXCEPT !.keeps = x]
    BY <2>1 DEF Op
  <2> HIDE DEF x, n
  <2>3. n(d) \in Op /\ n(d).pc = op[d].pc /\ n(d).kind = op[d].kind
        /\ n(d).data = op[d].data /\ n(d).row = op[d].row
    BY <2>1, <2>2 DEF Op
  <2> QED
    BY <2>1, <2>3 DEF Place
<1>3. Call(k, r) \in Op /\ Place(Call(k, r))
  BY CallType
<1> HIDE DEF n
<1>4. op' \in [Callers -> Op] /\ PlaceInv'
  BY <1>1, <1>2, <1>3 DEF PlaceInv
<1>5. kept' \in BOOLEAN
  BY DEF TypeOK, BeginCall
<1> QED
  BY <1>4, <1>5 DEF TypeOK, BeginCall, Files

LEMMA LockTyped ==
  ASSUME TypeOK, PlaceInv, NEW c \in Callers, Lock(c) PROVE TypeOK' /\ PlaceInv'
<1>1. op[c].kind \in Kinds
  BY FilesTyped
<1>2. op[c].kind = "save" => op[c].data \in Snapshot
  BY DEF PlaceInv, Place, Lock
<1> DEFINE s == Entry(op[c].kind)
<1>3. /\ s \in {"open", "dropdb", "stat"}
      /\ s = "stat" => op[c].kind \in {"load", "list"}
      /\ s = "dropdb" => op[c].kind = "delete"
      /\ s = "open" => op[c].kind = "save"
  BY <1>1 DEF Entry, Kinds
<1>4. Goto(c, s) /\ op[c].pc = "lock" /\ UNCHANGED <<Files, History, Counters>>
  BY DEF Lock
<1> HIDE DEF s
<1> QED
  BY <1>2, <1>3, <1>4, GotoStep DEF TypeOK, Files, Counters, Steps

LEMMA ReadTyped ==
  ASSUME TypeOK, PlaceInv, NEW c \in Callers, ReadStep(c) PROVE TypeOK' /\ PlaceInv'
<1>1. op[c].pc \in {"stat", "query", "legacy"} /\ op[c].kind \in {"load", "list"}
      /\ UNCHANGED Counters /\ op[c] \in Op
  BY DEF ReadStep, StatDb, QueryDb, ReadSidecar, PlaceInv, Place, TypeOK
<1>2. saves' \in Nat /\ calls' \in Nat /\ faults' \in Nat
      /\ Opened \in SUBSET Snapshot /\ op[c].row \in Snapshot \cup {None}
      /\ db \in (SUBSET Snapshot) \cup {NoDb} /\ json \in File /\ tmp \in File
  BY <1>1 DEF Counters, TypeOK, Opened, Op
<1>3. CASE StatDb(c)
  BY <1>1, <1>2, <1>3, GotoStep DEF StatDb, Files, Steps
<1>4. CASE QueryDb(c)
  <2>1. db' \in (SUBSET Snapshot) \cup {NoDb} /\ json' \in File /\ tmp' \in File
    BY <1>2, <1>4 DEF QueryDb
  <2>2. CASE Goto(c, "legacy") /\ UNCHANGED History
    BY <1>1, <1>2, <2>1, <2>2, GotoStep DEF Steps
  <2>3. ASSUME NEW s \in Opened, Return(c, "found", s) PROVE TypeOK' /\ PlaceInv'
    <3>1. s \in Snapshot \cup {None}
      BY <1>2
    <3> QED
      BY <1>1, <1>2, <2>1, <2>3, <3>1, ReturnStep
  <2>4. ASSUME NEW s \in Opened, UNCHANGED History,
               op' = [op EXCEPT ![c].row = s, ![c].pc = "legacy"]
        PROVE  TypeOK' /\ PlaceInv'
    <3> DEFINE n == [op[c] EXCEPT !.row = s, !.pc = "legacy"]
    <3>1. op' = [op EXCEPT ![c] = n] /\ n \in Op /\ n.pc = "legacy" /\ n.kind = op[c].kind
          /\ n.data = op[c].data
      BY <1>1, <1>2, <2>4 DEF TypeOK, Op, Steps
    <3> HIDE DEF n
    <3>2. Place(n)
      BY <1>1, <3>1 DEF Place, PlaceInv
    <3> QED
      BY <1>2, <2>1, <2>4, <3>1, <3>2, StepType DEF TypeOK, History
  <2> QED
    BY <1>4, <2>2, <2>3, <2>4 DEF QueryDb
<1>5. CASE ReadSidecar(c)
  <2>1. UNCHANGED Files
    BY <1>5 DEF ReadSidecar
  <2>2. ASSUME json \in Snapshot, UNCHANGED History,
               op' = [op EXCEPT ![c].data = json, ![c].pc = "open"]
        PROVE  TypeOK' /\ PlaceInv'
    <3> DEFINE n == [op[c] EXCEPT !.data = json, !.pc = "open"]
    <3>1. op' = [op EXCEPT ![c] = n] /\ n \in Op /\ n.pc = "open" /\ n.kind = op[c].kind
          /\ n.data = json
      BY <1>1, <1>2, <2>2 DEF TypeOK, Op, Steps
    <3> HIDE DEF n
    <3>2. Place(n)
      BY <1>1, <2>2, <3>1 DEF Place
    <3> QED
      BY <1>2, <2>1, <2>2, <3>1, <3>2, StepType DEF TypeOK, History, Files
  <2>3. ASSUME NEW answer \in {"found", "not found", "failure"},
               NEW got \in {None, op[c].row}, Return(c, answer, got)
        PROVE  TypeOK' /\ PlaceInv'
    <3>1. got \in Snapshot \cup {None} /\ answer \in {"done", "found", "not found", "failure"}
      BY <1>2
    <3> QED
      BY <1>1, <1>2, <2>1, <2>3, <3>1, ReturnStep DEF Files
  <2> QED
    BY <1>5, <2>2, <2>3, AbandonReturns DEF ReadSidecar
<1> QED
  BY <1>3, <1>4, <1>5 DEF ReadStep

\* What a call that ends in RenameTmp returns.
LEMMA FinishReturns ==
  ASSUME TypeOK, PlaceInv, NEW c \in Callers, op[c].pc = "rename"
  PROVE  \E answer \in {"done", "found"}, got \in Snapshot \cup {None} :
            /\ Finish(c, op[c]) = Returned(c, answer, got)
            /\ answer = "done" <=> op[c].kind = "save"
            /\ answer = "found" => got \in {op[c].data, op[c].row} /\ got # None
<1>1. op[c].kind \in {"load", "list", "save"} /\ op[c].data \in Snapshot
      /\ op[c].row \in Snapshot \cup {None} /\ None \notin Snapshot
  BY IndexStoreAssumption DEF PlaceInv, Place, TypeOK, Op, Kinds, Snapshot
<1>2. CASE op[c].kind = "save"
  <2>1. Finish(c, op[c]) = Returned(c, "done", None)
    BY <1>2 DEF Finish
  <2> QED
    BY <1>2, <2>1
<1>3. CASE op[c].kind = "load"
  <2>1. Finish(c, op[c]) = Returned(c, "found", op[c].data)
    BY <1>3 DEF Finish
  <2> QED
    BY <1>1, <1>3, <2>1
<1>4. CASE op[c].kind = "list"
  <2> DEFINE got == IF op[c].row = None THEN op[c].data ELSE op[c].row
  <2>1. Finish(c, op[c]) = Returned(c, "found", got)
    BY <1>4 DEF Finish
  <2>2. got \in Snapshot /\ got \in {op[c].data, op[c].row} /\ got # None
    BY <1>1
  <2> HIDE DEF got
  <2> QED
    BY <1>4, <2>1, <2>2
<1> QED
  BY <1>1, <1>2, <1>3, <1>4

\* Changing what file a call has open changes nothing else.
LEMMA FdType ==
  ASSUME TypeOK, PlaceInv, NEW d \in Callers, NEW x \in {"none", "tmp", "json"}
  PROVE  /\ [op[d] EXCEPT !.fd = x] \in Op /\ Place([op[d] EXCEPT !.fd = x])
<1> DEFINE n == [op[d] EXCEPT !.fd = x]
<1>1. op[d] \in Op /\ Place(op[d])
  BY DEF TypeOK, PlaceInv
<1>2. n \in Op /\ n.pc = op[d].pc /\ n.kind = op[d].kind /\ n.data = op[d].data
      /\ n.row = op[d].row
  BY <1>1 DEF Op
<1> HIDE DEF n
<1>3. Place(n)
  BY <1>1, <1>2 DEF Place
<1> QED
  BY <1>2, <1>3 DEF n

LEMMA RenameTyped ==
  ASSUME TypeOK, PlaceInv, NEW c \in Callers, RenameTmp(c) PROVE TypeOK' /\ PlaceInv'
<1>1. PICK answer \in {"done", "found"}, got \in Snapshot \cup {None} :
         Finish(c, op[c]) = Returned(c, answer, got)
  BY FinishReturns DEF RenameTmp
<1>2. Finish(c, op[c]) \in Op /\ Finish(c, op[c]).pc = "idle"
  <2>1. Returned(c, answer, got) \in Op
    BY ReturnedType
  <2>2. Returned(c, answer, got).pc = "idle"
    BY DEF Returned, Idle
  <2> QED
    BY <1>1, <2>1, <2>2
<1>3. Place(Finish(c, op[c]))
  BY <1>2 DEF Place
<1>4. ASSUME NEW d \in Callers PROVE Renamed[d] \in Op /\ Place(Renamed[d])
  <2> DEFINE x == IF op[d].fd = "tmp" THEN "json" ELSE "none"
  <2>1. op[d] \in Op
    BY DEF TypeOK
  <2>2. Renamed[d] = [op[d] EXCEPT !.fd = x] /\ x \in {"none", "tmp", "json"}
    BY <2>1 DEF Renamed, Op
  <2> HIDE DEF x
  <2> QED
    BY <2>2, FdType
<1>5. op' \in [Callers -> Op] /\ PlaceInv'
  <2>1. \A d \in Callers : op'[d] = IF d = c THEN Finish(c, op[c]) ELSE Renamed[d]
    BY DEF RenameTmp, Renamed
  <2>2. DOMAIN op' = Callers /\ op' = [d \in Callers |-> op'[d]]
    BY DEF RenameTmp, Renamed
  <2> QED
    BY <1>2, <1>3, <1>4, <2>1, <2>2 DEF PlaceInv
<1>6. ended' \subseteq Nat /\ superseded' \subseteq Nat /\ kept' \in BOOLEAN
  BY EndsType DEF RenameTmp, PlaceInv, Place
<1> QED
  BY <1>5, <1>6 DEF TypeOK, RenameTmp, Counters, File

LEMMA WriteTyped ==
  ASSUME TypeOK, PlaceInv, NEW c \in Callers, WriteStep(c) PROVE TypeOK' /\ PlaceInv'
<1>1. op[c].pc \in {"open", "commit", "create", "write", "rename"} /\ op[c].kind # "delete"
      /\ op[c].data \in Snapshot /\ op[c] \in Op /\ UNCHANGED Counters
  BY DEF WriteStep, OpenDb, CommitRow, CreateTmp, WriteTmp, RenameTmp, RenameMissing,
         PlaceInv, Place, TypeOK
<1>2. saves' \in Nat /\ calls' \in Nat /\ faults' \in Nat
      /\ Opened \in SUBSET Snapshot /\ op[c].row \in Snapshot \cup {None}
      /\ db \in (SUBSET Snapshot) \cup {NoDb} /\ json \in File /\ tmp \in File
      /\ Torn \in File /\ op[c].data \in File
  BY <1>1 DEF Counters, TypeOK, Opened, Op, File
<1>3. CASE OpenDb(c)
  <2> DEFINE n == [op[c] EXCEPT !.linked = TRUE, !.pc = "commit"]
  <2>1. op' = [op EXCEPT ![c] = n] /\ n \in Op /\ n.pc = "commit" /\ n.kind = op[c].kind
        /\ n.data = op[c].data
    BY <1>1, <1>3 DEF OpenDb, TypeOK, Op, Steps
  <2> HIDE DEF n
  <2>2. Place(n)
    BY <1>1, <2>1 DEF Place
  <2> QED
    BY <1>2, <1>3, <2>1, <2>2, StepType DEF OpenDb, TypeOK, History
<1>4. CASE CommitRow(c)
  <2>1. db' \in (SUBSET Snapshot) \cup {NoDb}
    <3>1. {t \in Opened : t.repo # op[c].data.repo} \cup {op[c].data} \in SUBSET Snapshot
      BY <1>1, <1>2
    <3> QED
      BY <1>2, <1>4, <3>1 DEF CommitRow
  <2> QED
    BY <1>1, <1>2, <1>4, <2>1, GotoStep DEF CommitRow, Steps
<1>5. CASE CreateTmp(c)
  <2> DEFINE n == [op[c] EXCEPT !.fd = "tmp", !.pc = "write"]
  <2>1. op' = [op EXCEPT ![c] = n] /\ n \in Op /\ n.pc = "write" /\ n.kind = op[c].kind
        /\ n.data = op[c].data
    BY <1>1, <1>5 DEF CreateTmp, TypeOK, Op, Steps
  <2> HIDE DEF n
  <2>2. Place(n)
    BY <1>1, <2>1 DEF Place
  <2> QED
    BY <1>2, <1>5, <2>1, <2>2, StepType DEF CreateTmp, TypeOK, History
<1>6. CASE WriteTmp(c)
  <2>1. json' \in File /\ tmp' \in File /\ db' = db
    BY <1>2, <1>6 DEF WriteTmp
  <2> QED
    BY <1>1, <1>2, <1>6, <2>1, GotoStep DEF WriteTmp, Steps
<1>7. CASE RenameMissing(c)
  <2>1. PICK answer \in {"found", "not found", "failure"}, got \in {None, op[c].row} :
           Return(c, answer, got)
    BY <1>7, AbandonReturns DEF RenameMissing
  <2>2. got \in Snapshot \cup {None} /\ answer \in {"done", "found", "not found", "failure"}
    BY <1>2
  <2> QED
    BY <1>1, <1>2, <1>7, <2>1, <2>2, ReturnStep DEF RenameMissing, Files
<1> QED
  BY <1>3, <1>4, <1>5, <1>6, <1>7, RenameTyped DEF WriteStep

LEMMA DeleteTyped ==
  ASSUME TypeOK, PlaceInv, NEW c \in Callers, DeleteStep(c) PROVE TypeOK' /\ PlaceInv'
<1>1. op[c].pc \in {"dropdb", "dropjson"} /\ op[c].kind = "delete" /\ UNCHANGED Counters
  BY DEF DeleteStep, RemoveDb, RemoveSidecar, PlaceInv, Place
<1>2. CASE RemoveDb(c)
  <2> DEFINE m(d) == [op[d] EXCEPT !.linked = FALSE]
             n == [op[c] EXCEPT !.pc = "dropjson"]
  <2>1. op' = [d \in Callers |-> IF d = c THEN n ELSE m(d)]
    BY <1>2 DEF RemoveDb
  <2>2. n \in Op /\ n.pc = "dropjson" /\ n.kind = "delete"
    BY <1>1, GotoType DEF Steps
  <2>3. ASSUME NEW d \in Callers PROVE m(d) \in Op /\ Place(m(d))
    <3>1. op[d] \in Op /\ Place(op[d])
      BY DEF TypeOK, PlaceInv
    <3>2. m(d) \in Op /\ m(d).pc = op[d].pc /\ m(d).kind = op[d].kind
          /\ m(d).data = op[d].data /\ m(d).row = op[d].row
      BY <3>1 DEF Op
    <3> HIDE DEF m
    <3> QED
      BY <3>1, <3>2 DEF Place
  <2> HIDE DEF n, m
  <2>4. Place(n)
    BY <2>2 DEF Place
  <2>5. op' \in [Callers -> Op] /\ PlaceInv'
    BY <2>1, <2>2, <2>3, <2>4 DEF PlaceInv
  <2> QED
    BY <1>2, <2>5 DEF TypeOK, RemoveDb, History, Counters
<1>3. CASE RemoveSidecar(c)
  <2> DEFINE n == Returned(c, "done", None)
             x(d) == IF op[d].fd = "json" THEN "none" ELSE op[d].fd
             m(d) == [op[d] EXCEPT !.fd = x(d)]
  <2>1. \A d \in Callers : op'[d] = IF d = c THEN n ELSE m(d)
    BY <1>3 DEF RemoveSidecar
  <2>2. n \in Op /\ n.pc = "idle"
    <3>1. n \in Op
      BY ReturnedType
    <3>2. n.pc = "idle"
      BY DEF Returned, Idle
    <3> QED
      BY <3>1, <3>2
  <2>3. ASSUME NEW d \in Callers PROVE m(d) \in Op /\ Place(m(d))
    <3>1. x(d) \in {"none", "tmp", "json"}
      BY DEF TypeOK, Op
    <3> HIDE DEF x
    <3> QED
      BY <3>1, FdType
  <2>4. DOMAIN op' = Callers /\ op' = [d \in Callers |-> op'[d]]
    BY <1>3 DEF RemoveSidecar
  <2> HIDE DEF n, m
  <2>5. Place(n)
    BY <2>2 DEF Place
  <2>6. op' \in [Callers -> Op] /\ PlaceInv'
    BY <2>1, <2>2, <2>3, <2>4, <2>5 DEF PlaceInv
  <2>7. ended' \subseteq Nat /\ superseded' \subseteq Nat /\ kept' \in BOOLEAN
    BY <1>1, <1>3, EndsType DEF RemoveSidecar
  <2> QED
    BY <1>3, <2>6, <2>7 DEF TypeOK, RemoveSidecar, Counters, File
<1> QED
  BY <1>2, <1>3 DEF DeleteStep

LEMMA FailTyped ==
  ASSUME TypeOK, PlaceInv, NEW c \in Callers, StepFails(c) PROVE TypeOK' /\ PlaceInv'
<1>1. db' \in (SUBSET Snapshot) \cup {NoDb} /\ json' \in File /\ tmp' \in File
      /\ saves' \in Nat /\ calls' \in Nat /\ faults' \in Nat /\ op[c].pc # "idle"
      /\ op[c].row \in Snapshot \cup {None}
  BY FilesTyped DEF StepFails, TypeOK, Inside
<1>2. CASE Goto(c, "legacy") /\ UNCHANGED History /\ op[c].kind = "list"
  BY <1>1, <1>2, GotoStep DEF Steps
<1>3. CASE Abandon(c)
  <2>1. PICK answer \in {"found", "not found", "failure"}, got \in {None, op[c].row} :
           Return(c, answer, got)
    BY <1>3, AbandonReturns
  <2>2. got \in Snapshot \cup {None} /\ answer \in {"done", "found", "not found", "failure"}
    BY <1>1
  <2> QED
    BY <1>1, <2>1, <2>2, ReturnStep
<1> QED
  BY <1>2, <1>3 DEF StepFails

LEMMA CrashTyped ==
  ASSUME TypeOK, PlaceInv, NEW q \in Processes, Crash(q) PROVE TypeOK' /\ PlaceInv'
<1> DEFINE dead == {c \in Callers : ProcessOf[c] = q /\ Running(c)}
           n(c) == IF c \in dead THEN Idle(op[c].repo) ELSE op[c]
<1>1. op' = [c \in Callers |-> n(c)]
  BY DEF Crash
<1>2. ASSUME NEW c \in Callers PROVE n(c) \in Op /\ Place(n(c))
  <2>1. op[c] \in Op /\ Place(op[c]) /\ op[c].repo \in Repos
    BY FilesTyped DEF TypeOK, PlaceInv
  <2>2. Idle(op[c].repo) \in Op /\ Idle(op[c].repo).pc = "idle"
    BY <2>1, IdleType
  <2>3. Place(Idle(op[c].repo))
    BY <2>2 DEF Place
  <2> QED
    BY <2>1, <2>2, <2>3
<1>3. ended' \subseteq Nat
  <2>1. \A c \in dead : op[c].kind = "save" => op[c].data.ver \in Nat
    BY DEF PlaceInv, Place, Running, Snapshot
  <2> QED
    BY <2>1 DEF Crash, TypeOK
<1> HIDE DEF n, dead
<1>4. op' \in [Callers -> Op] /\ PlaceInv'
  BY <1>1, <1>2 DEF PlaceInv
<1> QED
  BY <1>3, <1>4 DEF TypeOK, Crash, Files

\* The files hold snapshots or torn text, calls keep their shape, and a call writes a
\* snapshot only: nothing that could not be decoded is ever written again.
THEOREM TypeCorrect == Spec => [](TypeOK /\ PlaceInv)
<1>1. Init => TypeOK /\ PlaceInv
  <2> SUFFICES ASSUME Init PROVE TypeOK /\ PlaceInv
    OBVIOUS
  <2> DEFINE r == CHOOSE x \in Repos : TRUE
  <2>1. ASSUME NEW c \in Callers PROVE op[c] \in Op /\ op[c].pc = "idle"
    <3>1. Repos # {} => r \in Repos
      OBVIOUS
    <3>2. op[c] = Idle(r)
      BY DEF Init
    <3> HIDE DEF r
    <3> QED
      BY <3>1, <3>2, IdleType, IndexStoreAssumption
  <2>2. PlaceInv
    BY <2>1 DEF PlaceInv, Place
  <2>3. op \in [Callers -> Op]
    BY <2>1 DEF Init
  <2> QED
    BY <2>2, <2>3 DEF Init, TypeOK, File, Snapshot
<1>2. TypeOK /\ PlaceInv /\ [Next]_vars => (TypeOK /\ PlaceInv)'
  <2> SUFFICES ASSUME TypeOK, PlaceInv, [Next]_vars PROVE TypeOK' /\ PlaceInv'
    OBVIOUS
  <2>1. CASE UNCHANGED vars
    BY <2>1 DEF TypeOK, PlaceInv, vars
  <2>2. ASSUME NEW c \in Callers, NEW k \in KindsOf[c], NEW r \in Repos, BeginCall(c, k, r)
        PROVE  TypeOK' /\ PlaceInv'
    BY <2>2, BeginTyped, IndexStoreAssumption
  <2> QED
    BY <2>1, <2>2, LockTyped, ReadTyped, WriteTyped, DeleteTyped, FailTyped, CrashTyped DEF Next
<1> QED
  BY <1>1, <1>2, PTL DEF Spec

-----------------------------------------------------------------------------
(* The shape of a step: what it may do to the calls.                       *)

\* A call goes on with what it has.
Same(o, n) == /\ n.kind = o.kind /\ n.older = o.older /\ n.keeps = o.keeps
              /\ n.data = o.data /\ n.row = o.row

\* The calls but c stay where they are; file names may change under them.
Others(c) == \A d \in Callers \ {c} : Same(op[d], op'[d]) /\ op'[d].pc = op[d].pc
\* Those too.
Untouched(c) == \A d \in Callers \ {c} : op'[d] = op[d]

LEMMA GotoShape ==
  ASSUME TypeOK, NEW c \in Callers, NEW s \in Steps, Goto(c, s)
  PROVE  /\ Untouched(c) /\ Same(op[c], op'[c]) /\ op'[c].pc = s
         /\ op'[c].linked = op[c].linked /\ op'[c].fd = op[c].fd
<1>1. op[c] \in Op /\ op \in [Callers -> Op]
  BY DEF TypeOK
<1>2. op'[c] = [op[c] EXCEPT !.pc = s] /\ Untouched(c)
  BY <1>1 DEF Goto, Untouched
<1> QED
  BY <1>1, <1>2 DEF Same, Op

LEMMA ReturnShape ==
  ASSUME TypeOK, NEW c \in Callers, NEW answer, NEW got, Return(c, answer, got)
  PROVE  /\ Untouched(c) /\ op'[c].pc = "idle"
         /\ op'[c].answer = answer /\ op'[c].got = got
<1>1. op'[c] = Returned(c, answer, got) /\ Untouched(c)
  BY DEF TypeOK, Return, Untouched
<1> QED
  BY <1>1 DEF Returned, Idle

LEMMA QueryShape ==
  ASSUME TypeOK, NEW c \in Callers, NEW s \in Snapshot,
         op' = [op EXCEPT ![c].row = s, ![c].pc = "legacy"]
  PROVE  /\ Untouched(c) /\ op'[c].pc = "legacy" /\ op'[c].row = s
         /\ op'[c].data = op[c].data /\ op'[c].kind = op[c].kind
         /\ op'[c].older = op[c].older /\ op'[c].keeps = op[c].keeps
  BY DEF TypeOK, Op, Untouched

LEMMA ReadShape ==
  ASSUME TypeOK, NEW c \in Callers, op' = [op EXCEPT ![c].data = json, ![c].pc = "open"]
  PROVE  /\ Untouched(c) /\ op'[c].pc = "open" /\ op'[c].data = json
         /\ op'[c].row = op[c].row /\ op'[c].kind = op[c].kind
         /\ op'[c].older = op[c].older /\ op'[c].keeps = op[c].keeps
  BY DEF TypeOK, Op, Untouched

LEMMA OpenShape ==
  ASSUME TypeOK, NEW c \in Callers, OpenDb(c)
  PROVE  Untouched(c) /\ Same(op[c], op'[c]) /\ op'[c].pc = "commit" /\ op'[c].linked
  BY DEF TypeOK, Op, OpenDb, Untouched, Same

LEMMA CreateShape ==
  ASSUME TypeOK, NEW c \in Callers, CreateTmp(c)
  PROVE  Untouched(c) /\ Same(op[c], op'[c]) /\ op'[c].pc = "write" /\ op'[c].fd = "tmp"
  BY DEF TypeOK, Op, CreateTmp, Untouched, Same

LEMMA RenameShape ==
  ASSUME TypeOK, PlaceInv, NEW c \in Callers, RenameTmp(c)
  PROVE  /\ Others(c) /\ op'[c].pc = "idle"
         /\ \A d \in Callers \ {c} : op'[d].linked = op[d].linked
         /\ op'[c].answer = "found" => op'[c].got \in {op[c].data, op[c].row}
<1>1. PICK answer, got : /\ Finish(c, op[c]) = Returned(c, answer, got)
                         /\ answer = "found" => got \in {op[c].data, op[c].row}
  BY FinishReturns DEF RenameTmp
<1>2. op'[c] = Returned(c, answer, got)
  BY <1>1 DEF RenameTmp, Renamed
<1>3. op'[c].pc = "idle" /\ op'[c].answer = answer /\ op'[c].got = got
  BY <1>2 DEF Returned, Idle
<1>4. ASSUME NEW d \in Callers \ {c}
      PROVE  Same(op[d], op'[d]) /\ op'[d].pc = op[d].pc /\ op'[d].linked = op[d].linked
  <2>1. op'[d] = Renamed[d] /\ op[d] \in Op
    BY DEF RenameTmp, Renamed, TypeOK
  <2> QED
    BY <2>1 DEF Renamed, Op, Same
<1> QED
  BY <1>1, <1>3, <1>4 DEF Others

LEMMA RemoveDbShape ==
  ASSUME TypeOK, NEW c \in Callers, RemoveDb(c)
  PROVE  Others(c) /\ Same(op[c], op'[c]) /\ op'[c].pc = "dropjson"
<1>1. \A d \in Callers : op[d] \in Op
  BY DEF TypeOK
<1>2. Same(op[c], op'[c]) /\ op'[c].pc = "dropjson"
  <2>1. op'[c] = [op[c] EXCEPT !.pc = "dropjson"]
    BY DEF RemoveDb
  <2> QED
    BY <1>1, <2>1 DEF Same, Op
<1>3. ASSUME NEW d \in Callers \ {c} PROVE Same(op[d], op'[d]) /\ op'[d].pc = op[d].pc
  <2>1. op'[d] = [op[d] EXCEPT !.linked = FALSE]
    BY DEF RemoveDb
  <2> QED
    BY <1>1, <2>1 DEF Same, Op
<1> QED
  BY <1>2, <1>3 DEF Others

LEMMA RemoveSidecarShape ==
  ASSUME TypeOK, NEW c \in Callers, RemoveSidecar(c)
  PROVE  Others(c) /\ op'[c].pc = "idle" /\ op'[c].answer = "done"
<1>1. \A d \in Callers : op[d] \in Op
  BY DEF TypeOK
<1>2. op'[c] = Returned(c, "done", None)
  BY DEF RemoveSidecar
<1>3. op'[c].pc = "idle" /\ op'[c].answer = "done"
  BY <1>2 DEF Returned, Idle
<1>4. ASSUME NEW d \in Callers \ {c} PROVE Same(op[d], op'[d]) /\ op'[d].pc = op[d].pc
  BY <1>1 DEF RemoveSidecar, Same, Op
<1> QED
  BY <1>3, <1>4 DEF Others

LEMMA BeginShape ==
  ASSUME TypeOK, NEW c \in Callers, NEW k \in Kinds, NEW r \in Repos, BeginCall(c, k, r)
  PROVE  /\ op'[c] = Call(k, r)
         /\ \A d \in Callers \ {c} :
               /\ op'[d].pc = op[d].pc /\ op'[d].kind = op[d].kind /\ op'[d].older = op[d].older
               /\ op'[d].data = op[d].data /\ op'[d].row = op[d].row
               /\ op'[d].linked = op[d].linked /\ op'[d].fd = op[d].fd
               /\ op'[d].keeps => op[d].keeps /\ k # "delete"
<1>1. op'[c] = Call(k, r)
  BY DEF BeginCall
<1>2. ASSUME NEW d \in Callers \ {c}
      PROVE  /\ op'[d].pc = op[d].pc /\ op'[d].kind = op[d].kind /\ op'[d].older = op[d].older
             /\ op'[d].data = op[d].data /\ op'[d].row = op[d].row
             /\ op'[d].linked = op[d].linked /\ op'[d].fd = op[d].fd
             /\ op'[d].keeps => op[d].keeps /\ k # "delete"
  <2> DEFINE x == op[d].keeps /\ k # "delete"
  <2>1. op[d] \in Op /\ x \in BOOLEAN
    BY DEF TypeOK
  <2>2. op'[d] = [op[d] EXCEPT !.keeps = x]
    BY <2>1 DEF BeginCall, Op
  <2>3. x => op[d].keeps /\ k # "delete"
    OBVIOUS
  <2> HIDE DEF x
  <2>4. op'[d].keeps = x
    BY <2>1, <2>2 DEF Op
  <2> QED
    BY <2>1, <2>2, <2>3, <2>4 DEF Op
<1> QED
  BY <1>1, <1>2

-----------------------------------------------------------------------------
(* The store's invariant: what does not depend on the files.               *)

\* A call inside goes on, and it writes no history.
LEMMA GoesOn ==
  ASSUME LockInv, NumbersInv, KeptInv, NEW c \in Callers, Others(c), Inside(c),
         op'[c].pc \notin {"idle", "lock"}, op'[c].kind = op[c].kind,
         op'[c].keeps = op[c].keeps, op[c].kind = "save" => op'[c].data = op[c].data,
         UNCHANGED History, saves' = saves
  PROVE  LockInv' /\ NumbersInv' /\ KeptInv'
<1>1. \A d \in Callers :
         /\ (op'[d].pc = "idle") = (op[d].pc = "idle")
         /\ (op'[d].pc = "lock") = (op[d].pc = "lock")
         /\ op'[d].kind = op[d].kind /\ op'[d].keeps = op[d].keeps
         /\ op[d].kind = "save" => op'[d].data = op[d].data
  BY DEF Others, Same, Inside
<1>2. UNCHANGED <<ended, superseded, kept>>
  BY DEF History
<1>3. LockInv'
  BY <1>1 DEF LockInv, Inside, Reads
<1>4. NumbersInv'
  BY <1>1, <1>2 DEF NumbersInv, Running
<1>5. KeptInv'
  BY <1>1, <1>2 DEF KeptInv, Running
<1> QED
  BY <1>3, <1>4, <1>5

\* A call inside ends.
LEMMA CallEnds ==
  ASSUME TypeOK, PlaceInv, LockInv, NumbersInv, RecentInv, KeptInv, NEW c \in Callers,
         Others(c), Inside(c), op'[c].pc = "idle", NEW answer, Ends(c, answer), saves' = saves
  PROVE  LockInv' /\ NumbersInv' /\ KeptInv'
<1>1. \A d \in Callers \ {c} :
         /\ op'[d].pc = op[d].pc /\ op'[d].kind = op[d].kind /\ op'[d].keeps = op[d].keeps
         /\ op'[d].data = op[d].data
  BY DEF Others, Same
<1>2. LockInv'
  BY <1>1 DEF LockInv, Inside, Reads
<1>3. superseded' \subseteq ended'
  BY DEF NumbersInv, Ends, RecentInv, Inside, Running, Reads
<1>4. NumbersInv'
  <2>1. \A n \in ended' : n <= saves'
    BY DEF NumbersInv, Ends, Inside, Running
  <2>2. \A n \in ended' \ ended : op[c].kind = "save" /\ n = op[c].data.ver
    BY DEF Ends
  <2> QED
    BY <1>1, <1>3, <2>1, <2>2 DEF NumbersInv, Running, Inside
<1>5. KeptInv'
  BY <1>1 DEF KeptInv, Ends, Running, Inside
<1> QED
  BY <1>2, <1>4, <1>5

\* What a call must not return, it may not return later either.
Older == \A c \in Callers :
            Running(c) => op[c].older \subseteq (IF Reads(c) THEN superseded ELSE ended)

LEMMA OlderStays ==
  ASSUME Older, NEW c \in Callers, Others(c), superseded \subseteq superseded',
         ended \subseteq ended', op[c].pc # "idle",
         op'[c].pc = "idle" \/ (op'[c].older = op[c].older /\ op'[c].kind = op[c].kind)
  PROVE  Older'
<1>1. \A d \in Callers \ {c} :
         op'[d].pc = op[d].pc /\ op'[d].kind = op[d].kind /\ op'[d].older = op[d].older
  BY DEF Others, Same
<1> QED
  BY <1>1 DEF Older, Running, Reads

\* The files and the calls inside hold nothing superseded: what they hold was there.
LEMMA RecentStays ==
  ASSUME RecentInv, NEW c \in Callers, Others(c), superseded' = superseded, Older',
         db' # NoDb => \A s \in db' : Current(s), Current(json'),
         Inside(c)' => Current(op'[c].row) /\ Current(op'[c].data)
  PROVE  RecentInv'
<1>1. \A d \in Callers \ {c} :
         op'[d].pc = op[d].pc /\ op'[d].data = op[d].data /\ op'[d].row = op[d].row
  BY DEF Others, Same
<1>2. \A s : Current(s)' = (s \in Snapshot => s.ver \notin superseded)
  BY DEF Current
<1> QED
  BY <1>1 DEF RecentInv, Older, Inside, Current

LEMMA OthersRest ==
  ASSUME NEW c \in Callers, Untouched(c) PROVE Others(c)
  BY DEF Untouched, Others, Same

LEMMA LockStore ==
  ASSUME OneProcess, TypeOK, PlaceInv, StoreInv, NEW c \in Callers, Lock(c) PROVE StoreInv'
<1> DEFINE s == Entry(op[c].kind)
<1>1. /\ s \in {"open", "dropdb", "stat"} /\ s \in Steps
      /\ s = "open" => op[c].kind = "save"
      /\ op[c].kind \in Kinds
  BY FilesTyped DEF Entry, Kinds, Steps
<1>2. Goto(c, s) /\ op[c].pc = "lock" /\ UNCHANGED <<Files, History, Counters>>
  BY DEF Lock
<1>3. UNCHANGED <<db, json, tmp, ended, superseded, kept, saves>>
  BY <1>2 DEF Files, History, Counters
<1>4. Untouched(c) /\ Others(c) /\ Same(op[c], op'[c]) /\ op'[c].pc = s
  BY <1>1, <1>2, GotoShape, OthersRest
<1>5. \A d \in Callers \ {c} : Inside(d) => Reads(c) /\ Reads(d)
  BY DEF Lock, OneProcess
<1> HIDE DEF s
<1>6. \A d \in Callers \ {c} : op'[d] = op[d]
  BY <1>4 DEF Untouched
<1>7. /\ op'[c].kind = op[c].kind /\ op'[c].older = op[c].older /\ op'[c].keeps = op[c].keeps
      /\ op'[c].data = op[c].data /\ op'[c].row = op[c].row
  BY <1>4 DEF Same
<1>8. LockInv'
  BY <1>1, <1>4, <1>5, <1>6, <1>7 DEF StoreInv, LockInv, Inside, Reads
<1>9. NumbersInv'
  BY <1>1, <1>2, <1>3, <1>4, <1>6, <1>7 DEF StoreInv, NumbersInv, Running
<1>10. KeptInv'
  BY <1>1, <1>2, <1>3, <1>4, <1>6, <1>7 DEF StoreInv, KeptInv, Running
<1>11. RecentInv'
  <2>1. Older'
    BY <1>2, <1>3, <1>4, <1>7, OlderStays DEF StoreInv, RecentInv, Older
  <2>2. Current(op[c].row) /\ Current(op[c].data)
    BY <1>2, IndexStoreAssumption
    DEF PlaceInv, Place, StoreInv, NumbersInv, Current, Running, Snapshot
  <2> QED
    BY <1>3, <1>4, <1>6, <1>7, <2>1, <2>2 DEF StoreInv, RecentInv, Older, Inside, Current
<1>12. FilesInv'
  <2>1. FilesOf(op'[c], db, json, tmp)
    BY <1>1, <1>4, <1>7 DEF FilesOf, Committed
  <2> QED
    BY <1>3, <1>6, <2>1 DEF StoreInv, FilesInv
<1>13. WritersAgree'
  BY <1>1, <1>4, <1>5, <1>6, <1>7 DEF StoreInv, WritersAgree, Writing, Inside, Reads
<1>14. AcknowledgedSurvives'
  BY <1>3 DEF StoreInv, AcknowledgedSurvives, Readable, Opened
<1> QED
  BY <1>8, <1>9, <1>10, <1>11, <1>12, <1>13, <1>14 DEF StoreInv

LEMMA BeginStore ==
  ASSUME TypeOK, PlaceInv, StoreInv, NEW c \in Callers, NEW k \in Kinds, NEW r \in Repos,
         BeginCall(c, k, r)
  PROVE  StoreInv'
<1>1. op'[c] = Call(k, r)
  BY BeginShape
<1>2. /\ op'[c].pc = "lock" /\ op'[c].kind = k
      /\ k = "save" => op'[c].data.ver = saves + 1
      /\ op'[c].older = IF k \in {"save", "delete"} THEN ended ELSE superseded
      /\ op'[c].keeps => \A d \in Callers : op[d].pc # "idle" => op[d].kind # "delete"
  <2>1. /\ op'[c].pc = "lock" /\ op'[c].kind = k
        /\ op'[c].data = IF k = "save" THEN [repo |-> r, ver |-> saves + 1] ELSE None
        /\ op'[c].older = IF k \in {"save", "delete"} THEN ended ELSE superseded
    BY <1>1, CallType
  <2>2. Call(k, r).keeps => ~ \E d \in Callers : op[d].pc # "idle" /\ op[d].kind = "delete"
    BY CallType
  <2>3. op'[c].keeps => ~ \E d \in Callers : op[d].pc # "idle" /\ op[d].kind = "delete"
    BY <1>1, <2>2
  <2>4. k = "save" => op'[c].data.ver = saves + 1
    BY <2>1
  <2> QED
    BY <2>1, <2>3, <2>4
<1>3. \A d \in Callers \ {c} :
         /\ op'[d].pc = op[d].pc /\ op'[d].kind = op[d].kind /\ op'[d].older = op[d].older
         /\ op'[d].data = op[d].data /\ op'[d].row = op[d].row
         /\ op'[d].linked = op[d].linked /\ op'[d].fd = op[d].fd
         /\ op'[d].keeps => op[d].keeps /\ k # "delete"
  BY BeginShape
<1>4. /\ op[c].pc = "idle" /\ UNCHANGED <<db, json, tmp, ended, superseded>>
      /\ saves \in Nat /\ saves' = IF k = "save" THEN saves + 1 ELSE saves
      /\ kept' => kept /\ k # "delete"
  BY DEF BeginCall, Files, Running, TypeOK
<1>5. LockInv'
  BY <1>2, <1>3 DEF StoreInv, LockInv, Inside, Reads
<1>6. NumbersInv'
  <2>1. \A n \in ended : n \in Nat /\ n <= saves
    BY DEF StoreInv, NumbersInv, TypeOK
  <2>2. \A d \in Callers \ {c} : op[d].kind = "save" /\ op[d].pc # "idle" =>
           op[d].data.ver \in Nat /\ op[d].data.ver <= saves
    BY DEF PlaceInv, Place, Snapshot, StoreInv, NumbersInv, Running
  <2>3. k = "save" => op'[c].data.ver \notin ended' /\ op'[c].data.ver <= saves'
    BY <1>2, <1>4, <2>1
  <2>4. ASSUME NEW d \in Callers \ {c}, op[d].kind = "save", op[d].pc # "idle"
        PROVE  /\ op'[d].data.ver \notin ended' /\ op'[d].data.ver <= saves'
               /\ k = "save" => op'[d].data.ver # op'[c].data.ver
    BY <1>2, <1>3, <1>4, <2>2, <2>4 DEF StoreInv, NumbersInv, Running
  <2>5. (superseded \subseteq ended)' /\ \A n \in ended' : n <= saves'
    BY <1>4, <2>1 DEF StoreInv, NumbersInv
  <2>6. ASSUME NEW d \in Callers \ {c}, NEW e \in Callers \ {c, d}, op[d].kind = "save",
               op[d].pc # "idle", op[e].kind = "save", op[e].pc # "idle"
        PROVE  op'[d].data.ver # op'[e].data.ver
    BY <1>3, <2>6 DEF StoreInv, NumbersInv, Running
  <2> QED
    BY <1>2, <1>3, <2>3, <2>4, <2>5, <2>6 DEF NumbersInv, Running
<1>7. KeptInv'
  <2>1. ASSUME NEW d \in Callers, op'[d].pc # "idle", op'[d].kind = "delete",
               NEW e \in Callers, op'[e].pc # "idle", op'[e].kind = "save", op'[e].keeps
        PROVE  FALSE
    <3>1. CASE d = c
      BY <1>2, <1>3, <2>1, <3>1
    <3>2. CASE d # c /\ e = c
      BY <1>2, <1>3, <2>1, <3>2
    <3>3. CASE d # c /\ e # c
      BY <1>3, <2>1, <3>3 DEF StoreInv, KeptInv, Running
    <3> QED
      BY <3>1, <3>2, <3>3
  <2>2. ASSUME NEW d \in Callers, op'[d].pc # "idle", op'[d].kind = "delete" PROVE ~kept'
    BY <1>2, <1>3, <1>4, <2>2 DEF StoreInv, KeptInv, Running
  <2> QED
    BY <2>1, <2>2 DEF KeptInv, Running
<1>8. RecentInv'
  BY <1>2, <1>3, <1>4 DEF StoreInv, RecentInv, Running, Reads, Inside, Current, Kinds
<1>9. FilesInv'
  <2>1. FilesOf(op'[c], db, json, tmp)
    BY <1>2 DEF FilesOf, Committed
  <2>2. ASSUME NEW d \in Callers \ {c} PROVE FilesOf(op'[d], db, json, tmp)
    BY <1>3 DEF StoreInv, FilesInv, FilesOf
  <2> QED
    BY <1>4, <2>1, <2>2 DEF FilesInv
<1>10. WritersAgree'
  BY <1>2, <1>3 DEF StoreInv, WritersAgree, Writing
<1>11. AcknowledgedSurvives'
  BY <1>4 DEF StoreInv, AcknowledgedSurvives, Readable, Opened
<1> QED
  BY <1>5, <1>6, <1>7, <1>8, <1>9, <1>10, <1>11 DEF StoreInv

LEMMA Alone ==
  ASSUME LockInv, NEW c \in Callers, Inside(c), ~Reads(c)
  PROVE  \A d \in Callers \ {c} : ~Inside(d)
  BY DEF LockInv

\* The calls but c, when the database is opened at most.
LEMMA OthersOpened ==
  ASSUME PlaceInv, StoreInv, NEW c \in Callers, Inside(c), op[c].kind # "delete", Others(c),
         \A d \in Callers \ {c} : op'[d].linked = op[d].linked /\ op'[d].fd = op[d].fd,
         db' \in {db, Opened}, UNCHANGED <<json, tmp>>
  PROVE  \A d \in Callers \ {c} : FilesOf(op'[d], db', json', tmp')
<1>1. ASSUME NEW d \in Callers \ {c} PROVE FilesOf(op'[d], db', json', tmp')
  <2>1. FilesOf(op[d], db, json, tmp)
    BY DEF StoreInv, FilesInv
  <2>2. op'[d].pc = op[d].pc /\ op'[d].kind = op[d].kind /\ op'[d].data = op[d].data
    BY DEF Others, Same
  <2>3. op[d].pc = "dropjson" => db' = db
    BY DEF PlaceInv, Place, StoreInv, LockInv, Inside, Reads
  <2>4. db # NoDb => db' = db
    BY DEF Opened
  <2>5. db' = NoDb => db = NoDb
    BY DEF Opened
  <2> QED
    BY <2>1, <2>2, <2>3, <2>4, <2>5 DEF FilesOf, Committed
<1> QED
  BY <1>1

LEMMA WritersStay ==
  ASSUME WritersAgree, NEW c \in Callers, Others(c),
         Writing(c)' => Writing(c) /\ op'[c].data = op[c].data
  PROVE  WritersAgree'
<1>1. \A d \in Callers \ {c} : op'[d].pc = op[d].pc /\ op'[d].data = op[d].data
  BY DEF Others, Same
<1> QED
  BY <1>1 DEF WritersAgree, Writing

LEMMA OpenedReadable ==
  ASSUME AcknowledgedSurvives, db' \in {db, Opened}, json' = json, kept' = kept
  PROVE  AcknowledgedSurvives'
  BY DEF AcknowledgedSurvives, Readable, Opened

LEMMA OpenedRecent ==
  ASSUME RecentInv, db' \in {db, Opened}, json' = json, superseded' = superseded
  PROVE  (db' # NoDb => \A s \in db' : Current(s)) /\ Current(json')
  BY DEF RecentInv, Opened, Current

\* A call returns and acknowledges nothing.
LEMMA ReturnStore ==
  ASSUME TypeOK, PlaceInv, StoreInv, NEW c \in Callers, Inside(c), op[c].kind # "delete" \/ db' = db,
         NEW answer, answer # "done", NEW got, Return(c, answer, got),
         db' \in {db, Opened}, UNCHANGED <<json, tmp, saves>>
  PROVE  StoreInv'
<1>1. Untouched(c) /\ Others(c) /\ op'[c].pc = "idle"
  BY ReturnShape, OthersRest
<1>2. superseded' = superseded /\ kept' = kept /\ ended \subseteq ended' /\ Ends(c, answer)
  BY DEF Return, Ends, TypeOK
<1>3. \A d \in Callers \ {c} : op'[d] = op[d]
  BY <1>1 DEF Untouched
<1>4. LockInv' /\ NumbersInv' /\ KeptInv'
  BY <1>1, <1>2, CallEnds DEF StoreInv
<1>5. RecentInv'
  <2>1. Older'
    BY <1>1, <1>2, OlderStays DEF StoreInv, RecentInv, Older, Inside
  <2> QED
    BY <1>1, <1>2, <2>1, OpenedRecent, RecentStays DEF StoreInv, Inside
<1>6. FilesInv'
  <2>1. FilesOf(op'[c], db', json', tmp')
    BY <1>1 DEF FilesOf, Committed
  <2>2. \A d \in Callers \ {c} : FilesOf(op'[d], db', json', tmp')
    <3>1. CASE op[c].kind # "delete"
      BY <1>1, <1>3, <3>1, OthersOpened
    <3>2. CASE db' = db
      BY <1>3, <3>2 DEF StoreInv, FilesInv
    <3> QED
      BY <3>1, <3>2
  <2> QED
    BY <2>1, <2>2 DEF FilesInv
<1>7. WritersAgree'
  BY <1>1, WritersStay DEF StoreInv, Writing
<1>8. AcknowledgedSurvives'
  BY <1>2, OpenedReadable DEF StoreInv
<1> QED
  BY <1>4, <1>5, <1>6, <1>7, <1>8 DEF StoreInv

\* A call that reads goes on to the next place to read.
LEMMA ReadOnStore ==
  ASSUME TypeOK, PlaceInv, StoreInv, NEW c \in Callers, Inside(c), Others(c),
         op[c].kind # "delete", op'[c].pc \in {"query", "legacy"}, op'[c].kind = op[c].kind,
         op'[c].older = op[c].older, op'[c].keeps = op[c].keeps, op'[c].data = op[c].data,
         \A d \in Callers \ {c} : op'[d] = op[d],
         op'[c].row = op[c].row \/ Current(op'[c].row),
         db' \in {db, Opened}, UNCHANGED History, UNCHANGED <<json, tmp, saves>>
  PROVE  StoreInv'
<1>1. UNCHANGED <<ended, superseded, kept>>
  BY DEF History
<1>2. LockInv' /\ NumbersInv' /\ KeptInv'
  BY GoesOn DEF StoreInv
<1>3. RecentInv'
  <2>1. Older'
    BY <1>1, OlderStays DEF StoreInv, RecentInv, Older, Inside
  <2>3. Current(op'[c].row) /\ Current(op'[c].data)
    BY DEF StoreInv, RecentInv
  <2> QED
    BY <1>1, <2>1, <2>3, OpenedRecent, RecentStays DEF StoreInv
<1>4. FilesInv'
  <2>1. FilesOf(op'[c], db', json', tmp')
    BY DEF FilesOf, Committed
  <2> QED
    BY <2>1, OthersOpened DEF FilesInv
<1>5. WritersAgree'
  BY WritersStay DEF StoreInv, Writing
<1>6. AcknowledgedSurvives'
  BY <1>1, OpenedReadable DEF StoreInv
<1> QED
  BY <1>2, <1>3, <1>4, <1>5, <1>6 DEF StoreInv

LEMMA ReadStore ==
  ASSUME TypeOK, PlaceInv, StoreInv, NEW c \in Callers, ReadStep(c) PROVE StoreInv'
<1>1. Inside(c) /\ Reads(c) /\ op[c].kind # "delete" /\ UNCHANGED saves
      /\ op[c].row \in Snapshot \cup {None} /\ db' \in {db, Opened} /\ UNCHANGED <<json, tmp>>
  BY DEF ReadStep, StatDb, QueryDb, ReadSidecar, PlaceInv, Place, Inside, Reads, Counters,
         TypeOK, Op, Files
<1>2. CASE StatDb(c)
  <2>1. PICK s \in {"query", "legacy"} : Goto(c, s) /\ UNCHANGED <<Files, History, Counters>>
    BY <1>2 DEF StatDb
  <2>2. Untouched(c) /\ Same(op[c], op'[c]) /\ op'[c].pc = s
    BY <2>1, GotoShape DEF Steps
  <2> QED
    BY <1>1, <2>1, <2>2, ReadOnStore, OthersRest DEF Untouched, Same
<1>3. CASE QueryDb(c)
  <2>1. CASE Goto(c, "legacy") /\ UNCHANGED History
    <3>1. Untouched(c) /\ Same(op[c], op'[c]) /\ op'[c].pc = "legacy"
      BY <2>1, GotoShape DEF Steps
    <3> QED
      BY <1>1, <2>1, <3>1, ReadOnStore, OthersRest DEF Untouched, Same
  <2>2. ASSUME NEW s \in Opened, Return(c, "found", s) PROVE StoreInv'
    BY <1>1, <2>2, ReturnStore
  <2>3. ASSUME NEW s \in Opened, UNCHANGED History,
               op' = [op EXCEPT ![c].row = s, ![c].pc = "legacy"]
        PROVE  StoreInv'
    <3>1. s \in Snapshot /\ Current(s)
      BY DEF StoreInv, RecentInv, TypeOK, Opened
    <3>2. /\ Untouched(c) /\ op'[c].pc = "legacy" /\ op'[c].row = s
          /\ op'[c].data = op[c].data /\ op'[c].kind = op[c].kind
          /\ op'[c].older = op[c].older /\ op'[c].keeps = op[c].keeps
      BY <2>3, <3>1, QueryShape
    <3> QED
      BY <1>1, <2>3, <3>1, <3>2, ReadOnStore, OthersRest DEF Untouched
  <2> QED
    BY <1>3, <2>1, <2>2, <2>3 DEF QueryDb
<1>4. CASE ReadSidecar(c)
  <2>1. UNCHANGED <<db, json, tmp>>
    BY <1>4 DEF ReadSidecar, Files
  <2>2. ASSUME json \in Snapshot, UNCHANGED History,
               op' = [op EXCEPT ![c].data = json, ![c].pc = "open"]
        PROVE  StoreInv'
    <3>1. /\ Untouched(c) /\ op'[c].pc = "open" /\ op'[c].data = json
          /\ op'[c].row = op[c].row /\ op'[c].kind = op[c].kind
          /\ op'[c].older = op[c].older /\ op'[c].keeps = op[c].keeps
      BY <2>2, ReadShape
    <3>2. UNCHANGED <<ended, superseded, kept>> /\ Others(c) /\ op[c].kind # "save"
      BY <1>1, <2>2, <3>1, OthersRest DEF History, Reads
    <3>3. \A d \in Callers \ {c} : op'[d] = op[d]
      BY <3>1 DEF Untouched
    <3>4. LockInv' /\ NumbersInv' /\ KeptInv'
      BY <1>1, <2>2, <3>1, <3>2, GoesOn DEF StoreInv
    <3>5. RecentInv'
      <4>1. Older'
        BY <1>1, <3>1, <3>2, OlderStays DEF StoreInv, RecentInv, Older, Inside
      <4>2. Current(op'[c].row) /\ Current(op'[c].data)
        BY <1>1, <3>1 DEF StoreInv, RecentInv
      <4> QED
        BY <1>1, <3>2, <4>1, <4>2, OpenedRecent, RecentStays DEF StoreInv
    <3>6. FilesInv'
      <4>1. FilesOf(op'[c], db', json', tmp')
        BY <2>1, <3>1 DEF FilesOf, Committed
      <4> QED
        BY <2>1, <3>3, <4>1 DEF StoreInv, FilesInv
    <3>7. ASSUME NEW d \in Callers \ {c}, Writing(d) PROVE op[d].data = json
      <4>1. Reads(d)
        BY <1>1, <3>7 DEF StoreInv, LockInv, Inside, Writing
      <4>2. json \in {op[d].data, Torn}
        BY <3>7, <4>1 DEF StoreInv, FilesInv, FilesOf, Committed, Writing, Reads
      <4> QED
        BY <2>2, <4>2, IndexStoreAssumption DEF Snapshot
    <3>8. WritersAgree'
      BY <3>1, <3>3, <3>7 DEF StoreInv, WritersAgree, Writing
    <3>9. AcknowledgedSurvives'
      BY <2>1, <3>2, OpenedReadable DEF StoreInv
    <3> QED
      BY <3>4, <3>5, <3>6, <3>8, <3>9 DEF StoreInv
  <2>3. ASSUME NEW answer \in {"found", "not found", "failure"},
               NEW got \in {None, op[c].row}, Return(c, answer, got)
        PROVE  StoreInv'
    BY <1>1, <2>3, ReturnStore
  <2> QED
    BY <1>4, <2>2, <2>3, AbandonReturns DEF ReadSidecar
<1> QED
  BY <1>2, <1>3, <1>4 DEF ReadStep

\* A call that writes goes on: what it leaves to show is what it does to the files.
LEMMA WriteOnStore ==
  ASSUME TypeOK, PlaceInv, StoreInv, NEW c \in Callers, Inside(c), Writing(c), Writing(c)',
         Untouched(c), Same(op[c], op'[c]), UNCHANGED History, UNCHANGED saves,
         db' # NoDb => \A s \in db' : Current(s), Current(json'), FilesInv',
         AcknowledgedSurvives'
  PROVE  StoreInv'
<1>1. UNCHANGED <<ended, superseded, kept>> /\ Others(c)
  BY OthersRest DEF History
<1>2. op'[c].pc \notin {"idle", "lock"} /\ op[c].pc # "idle"
  BY DEF Writing
<1>3. /\ op'[c].kind = op[c].kind /\ op'[c].older = op[c].older /\ op'[c].keeps = op[c].keeps
      /\ op'[c].data = op[c].data /\ op'[c].row = op[c].row
  BY DEF Same
<1>4. LockInv' /\ NumbersInv' /\ KeptInv'
  BY <1>1, <1>2, <1>3, GoesOn DEF StoreInv
<1>5. RecentInv'
  <2>1. Older'
    BY <1>1, <1>2, <1>3, OlderStays DEF StoreInv, RecentInv, Older
  <2>2. Current(op'[c].row) /\ Current(op'[c].data)
    BY <1>3 DEF StoreInv, RecentInv
  <2> QED
    BY <1>1, <2>1, <2>2, RecentStays DEF StoreInv
<1>6. WritersAgree'
  BY <1>1, <1>3, WritersStay DEF StoreInv
<1> QED
  BY <1>4, <1>5, <1>6 DEF StoreInv

\* Whoever writes beside a call that writes, imports the same sidecar.
LEMMA OthersImport ==
  ASSUME OneProcess, TypeOK, PlaceInv, StoreInv, NEW c \in Callers, Writing(c),
         NEW d \in Callers \ {c}, Inside(d)
  PROVE  /\ op[d].kind \in {"load", "list"} /\ op[c].kind \in {"load", "list"}
         /\ op[d].pc \notin {"dropdb", "dropjson"}
         /\ Writing(d) => op[d].data = op[c].data
  BY DEF StoreInv, LockInv, WritersAgree, OneProcess, Inside, Reads, Writing, PlaceInv, Place

LEMMA OpenStore ==
  ASSUME TypeOK, PlaceInv, StoreInv, NEW c \in Callers, OpenDb(c) PROVE StoreInv'
<1>1. /\ op[c].pc = "open" /\ db' = Opened /\ UNCHANGED <<json, tmp>> /\ UNCHANGED History
      /\ UNCHANGED saves /\ op[c].kind # "delete"
  BY DEF OpenDb, Counters, PlaceInv, Place
<1>2. Untouched(c) /\ Same(op[c], op'[c]) /\ op'[c].pc = "commit" /\ op'[c].linked
  BY OpenShape
<1>3. Inside(c) /\ Writing(c) /\ Writing(c)' /\ kept' = kept /\ superseded' = superseded
  BY <1>1, <1>2 DEF Inside, Writing, History
<1>4. FilesInv'
  <2>1. FilesOf(op[c], db, json, tmp)
    BY DEF StoreInv, FilesInv
  <2>2. db' # NoDb
    BY <1>1, IndexStoreAssumption DEF Opened, NoDb
  <2>3. FilesOf(op'[c], db', json', tmp')
    BY <1>1, <1>2, <2>1, <2>2 DEF FilesOf, Committed, Same
  <2> QED
    BY <1>1, <1>2, <1>3, <2>3, OthersOpened, OthersRest DEF FilesInv, Untouched
<1>5. (db' # NoDb => \A s \in db' : Current(s)) /\ Current(json')
  BY <1>1, <1>3, OpenedRecent DEF StoreInv
<1>6. AcknowledgedSurvives'
  BY <1>1, <1>3, OpenedReadable DEF StoreInv
<1> QED
  BY <1>1, <1>2, <1>3, <1>4, <1>5, <1>6, WriteOnStore

LEMMA CommitStore ==
  ASSUME OneProcess, OwnSlug, TypeOK, PlaceInv, StoreInv, NEW c \in Callers, CommitRow(c)
  PROVE  StoreInv'
<1> DEFINE s == op[c].data
<1>1. /\ op[c].pc = "commit" /\ UNCHANGED <<json, tmp>> /\ UNCHANGED History
      /\ UNCHANGED saves /\ op[c].kind # "delete" /\ s \in Snapshot
  BY DEF CommitRow, Counters, PlaceInv, Place
<1>2. Untouched(c) /\ Same(op[c], op'[c]) /\ op'[c].pc = "create"
  BY GotoShape DEF CommitRow, Steps
<1>3. Inside(c) /\ Writing(c) /\ Writing(c)' /\ kept' = kept /\ superseded' = superseded
  BY <1>1, <1>2 DEF Inside, Writing, History
<1>4. FilesOf(op[c], db, json, tmp) /\ op[c].linked
  BY <1>1 DEF StoreInv, FilesInv, FilesOf
<1>5. db' = {s}
  <2>1. db' = {t \in Opened : t.repo # s.repo} \cup {s}
    BY <1>4 DEF CommitRow
  <2>2. \A t \in Opened : t \in Snapshot
    BY DEF TypeOK, Opened
  <2>3. \A t \in Opened : t.repo = s.repo
    BY <1>1, <2>2 DEF OwnSlug, Snapshot
  <2> HIDE DEF s
  <2> QED
    BY <2>1, <2>3
<1>6. db' # NoDb
  BY <1>1, <1>5, IndexStoreAssumption DEF Snapshot, NoDb
<1>7. FilesInv'
  <2>1. FilesOf(op'[c], db', json', tmp')
    BY <1>1, <1>2, <1>4, <1>5, <1>6 DEF FilesOf, Committed, Same
  <2>2. ASSUME NEW d \in Callers \ {c} PROVE FilesOf(op'[d], db', json', tmp')
    <3>1. op'[d] = op[d]
      BY <1>2 DEF Untouched
    <3>2. CASE Inside(d)
      <4>1. op[d].kind \in {"load", "list"} /\ op[d].pc \notin {"dropdb", "dropjson"}
        BY <1>3, <3>2, OthersImport
      <4> QED
        BY <1>1, <1>5, <1>6, <3>1, <4>1 DEF StoreInv, FilesInv, FilesOf, Committed
    <3>3. CASE ~Inside(d)
      BY <3>1, <3>3 DEF Inside, FilesOf, Committed
    <3> QED
      BY <3>2, <3>3
  <2> QED
    BY <2>1, <2>2 DEF FilesInv
<1>8. (db' # NoDb => \A t \in db' : Current(t)) /\ Current(json')
  BY <1>1, <1>3, <1>5 DEF StoreInv, RecentInv
<1>9. AcknowledgedSurvives'
  BY <1>5, <1>6 DEF AcknowledgedSurvives, Readable, Opened
<1> QED
  BY <1>1, <1>2, <1>3, <1>7, <1>8, <1>9, WriteOnStore

LEMMA CreateStore ==
  ASSUME OneProcess, TypeOK, PlaceInv, StoreInv, NEW c \in Callers, CreateTmp(c) PROVE StoreInv'
<1>1. /\ op[c].pc = "create" /\ tmp' = Torn /\ UNCHANGED <<db, json>> /\ UNCHANGED History
      /\ UNCHANGED saves
  BY DEF CreateTmp, Counters
<1>2. Untouched(c) /\ Same(op[c], op'[c]) /\ op'[c].pc = "write" /\ op'[c].fd = "tmp"
  BY CreateShape
<1>3. Inside(c) /\ Writing(c) /\ Writing(c)' /\ kept' = kept /\ superseded' = superseded
  BY <1>1, <1>2 DEF Inside, Writing, History
<1>4. FilesInv'
  <2>1. FilesOf(op[c], db, json, tmp)
    BY DEF StoreInv, FilesInv
  <2>2. FilesOf(op'[c], db', json', tmp')
    BY <1>1, <1>2, <2>1 DEF FilesOf, Committed, Same
  <2>3. ASSUME NEW d \in Callers \ {c} PROVE FilesOf(op'[d], db', json', tmp')
    <3>1. op'[d] = op[d]
      BY <1>2 DEF Untouched
    <3>2. CASE Inside(d)
      <4>1. op[d].kind \in {"load", "list"}
        BY <1>3, <3>2, OthersImport
      <4> QED
        BY <1>1, <3>1, <4>1 DEF StoreInv, FilesInv, FilesOf, Committed
    <3>3. CASE ~Inside(d)
      BY <3>1, <3>3 DEF Inside, FilesOf, Committed
    <3> QED
      BY <3>2, <3>3
  <2> QED
    BY <2>2, <2>3 DEF FilesInv
<1>5. (db' # NoDb => \A s \in db' : Current(s)) /\ Current(json')
  BY <1>1, OpenedRecent, <1>3 DEF StoreInv
<1>6. AcknowledgedSurvives'
  BY <1>1, <1>3, OpenedReadable DEF StoreInv
<1> QED
  BY <1>1, <1>2, <1>3, <1>4, <1>5, <1>6, WriteOnStore

LEMMA WriteStore ==
  ASSUME OneProcess, TypeOK, PlaceInv, StoreInv, NEW c \in Callers, WriteTmp(c) PROVE StoreInv'
<1>1. /\ op[c].pc = "write" /\ UNCHANGED db /\ UNCHANGED History /\ UNCHANGED saves
      /\ tmp' = (IF op[c].fd = "tmp" THEN op[c].data ELSE tmp)
      /\ json' = (IF op[c].fd = "json" THEN op[c].data ELSE json)
      /\ op[c].data \in Snapshot /\ op[c].kind # "delete"
  BY DEF WriteTmp, Counters, PlaceInv, Place
<1>2. Untouched(c) /\ Same(op[c], op'[c]) /\ op'[c].pc = "rename"
  BY GotoShape DEF WriteTmp, Steps
<1>3. Inside(c) /\ Writing(c) /\ Writing(c)' /\ kept' = kept /\ superseded' = superseded
  BY <1>1, <1>2 DEF Inside, Writing, History
<1>4. FilesOf(op[c], db, json, tmp)
  BY DEF StoreInv, FilesInv
<1>5. FilesInv'
  <2>1. FilesOf(op'[c], db', json', tmp')
    BY <1>1, <1>2, <1>4 DEF FilesOf, Committed, Same
  <2>2. ASSUME NEW d \in Callers \ {c} PROVE FilesOf(op'[d], db', json', tmp')
    <3>1. op'[d] = op[d]
      BY <1>2 DEF Untouched
    <3>2. CASE Inside(d)
      <4>1. /\ op[d].kind \in {"load", "list"}
            /\ Writing(d) => op[d].data = op[c].data
        BY <1>3, <3>2, OthersImport
      <4> QED
        BY <1>1, <3>1, <4>1 DEF StoreInv, FilesInv, FilesOf, Committed, Writing
    <3>3. CASE ~Inside(d)
      BY <3>1, <3>3 DEF Inside, FilesOf, Committed
    <3> QED
      BY <3>2, <3>3
  <2> QED
    BY <2>1, <2>2 DEF FilesInv
<1>6. (db' # NoDb => \A s \in db' : Current(s)) /\ Current(json')
  BY <1>1, <1>3 DEF StoreInv, RecentInv
<1>7. AcknowledgedSurvives'
  BY <1>1, <1>3 DEF StoreInv, AcknowledgedSurvives, Readable, Opened
<1> QED
  BY <1>1, <1>2, <1>3, <1>5, <1>6, <1>7, WriteOnStore

LEMMA RenameStore ==
  ASSUME OneProcess, TypeOK, PlaceInv, StoreInv, NEW c \in Callers, RenameTmp(c)
  PROVE  StoreInv'
<1>1. /\ op[c].pc = "rename" /\ tmp # None /\ json' = tmp /\ tmp' = None /\ UNCHANGED db
      /\ Ends(c, "done") /\ UNCHANGED saves /\ op[c].data \in Snapshot
      /\ op[c].kind # "delete"
  BY DEF RenameTmp, Counters, PlaceInv, Place
<1>2. /\ Others(c) /\ op'[c].pc = "idle"
      /\ \A d \in Callers \ {c} : op'[d].linked = op[d].linked
  BY RenameShape
<1>3. Inside(c) /\ Writing(c)
  BY <1>1 DEF Inside, Writing
<1>4. FilesOf(op[c], db, json, tmp)
  BY DEF StoreInv, FilesInv
<1>5. \A d \in Callers \ {c} :
         op'[d].pc = op[d].pc /\ op'[d].kind = op[d].kind /\ op'[d].data = op[d].data
         /\ op'[d].row = op[d].row
  BY <1>2 DEF Others, Same
<1>6. LockInv' /\ NumbersInv' /\ KeptInv'
  BY <1>1, <1>2, <1>3, CallEnds DEF StoreInv
<1>7. FilesInv'
  <2>1. FilesOf(op'[c], db', json', tmp')
    BY <1>2 DEF FilesOf, Committed
  <2>2. ASSUME NEW d \in Callers \ {c} PROVE FilesOf(op'[d], db', json', tmp')
    <3>1. CASE Inside(d)
      <4>1. /\ op[d].kind \in {"load", "list"} /\ op[d].pc \notin {"dropdb", "dropjson"}
            /\ Writing(d) => op[d].data = op[c].data
        BY <1>3, <3>1, OthersImport
      <4>2. tmp \in {Torn, op[c].data}
        BY <1>1, <1>4 DEF FilesOf
      <4> QED
        BY <1>1, <1>2, <1>5, <4>1, <4>2 DEF StoreInv, FilesInv, FilesOf, Committed, Writing
    <3>2. CASE ~Inside(d)
      BY <1>5, <3>2 DEF Inside, FilesOf, Committed
    <3> QED
      BY <3>1, <3>2
  <2> QED
    BY <2>1, <2>2 DEF FilesInv
<1>8. RecentInv'
  <2>1. CASE op[c].kind = "save"
    <3>1. db = {op[c].data} /\ tmp = op[c].data
      BY <1>1, <1>4, <2>1 DEF FilesOf, Committed
    <3>2. \A d \in Callers \ {c} : ~Inside(d)
      BY <1>3, <2>1, Alone DEF StoreInv, Reads
    <3>3. \A d \in Callers : ~(op'[d].pc \notin {"idle", "lock"})
      BY <1>2, <1>5, <3>2 DEF Inside
    <3>4. ended \subseteq ended' /\ superseded \subseteq superseded'
          /\ superseded' \subseteq ended
      BY <1>1, <1>3 DEF Ends, StoreInv, RecentInv, NumbersInv, Running, Inside, Reads
    <3>5. op[c].data.ver \notin ended
      BY <1>1, <2>1 DEF StoreInv, NumbersInv, Running
    <3>6. Older'
      BY <1>1, <1>2, <3>4, OlderStays DEF StoreInv, RecentInv, Older
    <3> QED
      BY <1>1, <3>1, <3>3, <3>4, <3>5, <3>6 DEF RecentInv, Older, Current, Inside
  <2>2. CASE op[c].kind # "save"
    <3>1. superseded' = superseded /\ ended' = ended
      BY <1>1, <2>2 DEF Ends
    <3>2. tmp \in {Torn, op[c].data}
      BY <1>1, <1>4 DEF FilesOf
    <3>3. Current(tmp)
      BY <3>2, <1>3, IndexStoreAssumption DEF StoreInv, RecentInv, Current, Snapshot
    <3>4. Older'
      BY <1>1, <1>2, <3>1, OlderStays DEF StoreInv, RecentInv, Older
    <3>5. db' # NoDb => \A s \in db' : Current(s)
      BY <1>1 DEF StoreInv, RecentInv
    <3> QED
      BY <1>1, <1>2, <3>1, <3>3, <3>4, <3>5, RecentStays DEF StoreInv, Inside
  <2> QED
    BY <2>1, <2>2
<1>9. WritersAgree'
  BY <1>2, WritersStay DEF StoreInv, Writing
<1>10. AcknowledgedSurvives'
  BY <1>1, <1>4 DEF FilesOf, Committed, AcknowledgedSurvives, Readable, Opened
<1> QED
  BY <1>6, <1>7, <1>8, <1>9, <1>10 DEF StoreInv

LEMMA RemoveDbStore ==
  ASSUME TypeOK, PlaceInv, StoreInv, NEW c \in Callers, RemoveDb(c) PROVE StoreInv'
<1>1. /\ op[c].pc = "dropdb" /\ db' = NoDb /\ UNCHANGED <<json, tmp>> /\ UNCHANGED History
      /\ UNCHANGED saves /\ op[c].kind = "delete"
  BY DEF RemoveDb, Counters, PlaceInv, Place
<1>2. Others(c) /\ Same(op[c], op'[c]) /\ op'[c].pc = "dropjson"
  BY RemoveDbShape
<1>3. /\ op'[c].kind = op[c].kind /\ op'[c].older = op[c].older /\ op'[c].keeps = op[c].keeps
      /\ op'[c].data = op[c].data /\ op'[c].row = op[c].row
  BY <1>2 DEF Same
<1>4. Inside(c) /\ UNCHANGED <<ended, superseded, kept>>
  BY <1>1 DEF Inside, History
<1>5. \A d \in Callers \ {c} : ~Inside(d) /\ op'[d].pc = op[d].pc
  BY <1>1, <1>2, <1>4, Alone DEF StoreInv, Reads, Others
<1>6. LockInv' /\ NumbersInv' /\ KeptInv'
  BY <1>1, <1>2, <1>3, <1>4, GoesOn DEF StoreInv
<1>7. RecentInv'
  <2>1. Older'
    BY <1>1, <1>2, <1>3, <1>4, OlderStays DEF StoreInv, RecentInv, Older
  <2>2. Current(op'[c].row) /\ Current(op'[c].data) /\ Current(json')
    BY <1>1, <1>3, <1>4 DEF StoreInv, RecentInv
  <2> QED
    BY <1>1, <1>2, <1>4, <2>1, <2>2, RecentStays DEF StoreInv
<1>8. FilesInv'
  <2>1. FilesOf(op'[c], db', json', tmp')
    BY <1>1, <1>2 DEF FilesOf, Committed
  <2>2. \A d \in Callers \ {c} : FilesOf(op'[d], db', json', tmp')
    BY <1>5 DEF Inside, FilesOf, Committed
  <2> QED
    BY <2>1, <2>2 DEF FilesInv
<1>9. WritersAgree'
  BY <1>2, WritersStay DEF StoreInv, Writing
<1>10. AcknowledgedSurvives'
  BY <1>1, <1>4 DEF StoreInv, KeptInv, Running, AcknowledgedSurvives
<1> QED
  BY <1>6, <1>7, <1>8, <1>9, <1>10 DEF StoreInv

LEMMA RemoveSidecarStore ==
  ASSUME TypeOK, PlaceInv, StoreInv, NEW c \in Callers, RemoveSidecar(c) PROVE StoreInv'
<1>1. /\ op[c].pc = "dropjson" /\ json' = None /\ UNCHANGED <<db, tmp>> /\ Ends(c, "done")
      /\ UNCHANGED saves /\ op[c].kind = "delete"
  BY DEF RemoveSidecar, Counters, PlaceInv, Place
<1>2. Others(c) /\ op'[c].pc = "idle"
  BY RemoveSidecarShape
<1>3. Inside(c) /\ db = NoDb
  BY <1>1 DEF Inside, StoreInv, FilesInv, FilesOf
<1>4. \A d \in Callers \ {c} : ~Inside(d) /\ op'[d].pc = op[d].pc
  BY <1>1, <1>2, <1>3, Alone DEF StoreInv, Reads, Others
<1>5. LockInv' /\ NumbersInv' /\ KeptInv'
  BY <1>1, <1>2, <1>3, CallEnds DEF StoreInv
<1>6. RecentInv'
  <2>1. Older'
    BY <1>1, <1>2, OlderStays DEF StoreInv, RecentInv, Older, Ends
  <2> QED
    BY <1>1, <1>2, <1>3, <1>4, <2>1, IndexStoreAssumption
    DEF RecentInv, Older, Inside, Current, Snapshot
<1>7. FilesInv'
  BY <1>2, <1>4 DEF Inside, FilesInv, FilesOf, Committed
<1>8. WritersAgree'
  BY <1>2, WritersStay DEF StoreInv, Writing
<1>9. AcknowledgedSurvives'
  BY <1>1 DEF StoreInv, KeptInv, Running, Ends, AcknowledgedSurvives
<1> QED
  BY <1>5, <1>6, <1>7, <1>8, <1>9 DEF StoreInv

LEMMA MissingStore ==
  ASSUME TypeOK, PlaceInv, StoreInv, NEW c \in Callers, RenameMissing(c) PROVE StoreInv'
<1>1. PICK answer \in {"found", "not found", "failure"}, got \in {None, op[c].row} :
         Return(c, answer, got)
  BY AbandonReturns DEF RenameMissing
<1>2. Inside(c) /\ UNCHANGED <<db, json, tmp, saves>>
  BY DEF RenameMissing, Inside, Files, Counters
<1> QED
  BY <1>1, <1>2, ReturnStore

LEMMA FailStore ==
  ASSUME TypeOK, PlaceInv, StoreInv, NEW c \in Callers, StepFails(c) PROVE StoreInv'
<1>1. /\ Inside(c) /\ UNCHANGED <<json, tmp, saves>> /\ db' \in {db, Opened}
      /\ op[c].kind # "delete" \/ db' = db
  BY DEF StepFails, PlaceInv, Place
<1>2. CASE Goto(c, "legacy") /\ UNCHANGED History /\ op[c].kind = "list"
  <2>1. Untouched(c) /\ Same(op[c], op'[c]) /\ op'[c].pc = "legacy"
    BY <1>2, GotoShape DEF Steps
  <2> QED
    BY <1>1, <1>2, <2>1, ReadOnStore, OthersRest DEF Untouched, Same
<1>3. CASE Abandon(c)
  <2>1. PICK answer \in {"found", "not found", "failure"}, got \in {None, op[c].row} :
           Return(c, answer, got)
    BY <1>3, AbandonReturns
  <2> QED
    BY <1>1, <2>1, ReturnStore
<1> QED
  BY <1>2, <1>3 DEF StepFails

LEMMA CrashStore ==
  ASSUME TypeOK, PlaceInv, StoreInv, NEW q \in Processes, Crash(q) PROVE StoreInv'
<1> DEFINE dead == {c \in Callers : ProcessOf[c] = q /\ Running(c)}
<1>1. \A c \in Callers : op'[c] = IF c \in dead THEN Idle(op[c].repo) ELSE op[c]
  BY DEF Crash
<1>2. UNCHANGED <<db, json, tmp, superseded, kept, saves>>
  BY DEF Crash, Files
<1>3. ended' = ended \cup {op[c].data.ver : c \in {d \in dead : op[d].kind = "save"}}
  BY DEF Crash
<1>4. \A c \in dead : c \in Callers /\ op[c].pc # "idle"
  BY DEF Running
<1> HIDE DEF dead
<1>5. ASSUME NEW c \in Callers PROVE op'[c].pc = "idle" \/ (c \notin dead /\ op'[c] = op[c])
  <2>1. Idle(op[c].repo).pc = "idle"
    BY DEF Idle
  <2> QED
    BY <1>1, <2>1
<1>6. LockInv'
  BY <1>5 DEF StoreInv, LockInv, Inside, Reads
<1>7. NumbersInv'
  <2>1. superseded' \subseteq ended' /\ \A n \in ended' : n <= saves'
    BY <1>2, <1>3, <1>4 DEF StoreInv, NumbersInv, Running
  <2>2. ASSUME NEW c \in Callers, op'[c].pc # "idle", op'[c].kind = "save"
        PROVE  op'[c].data.ver \notin ended'
    <3>1. c \notin dead /\ op'[c] = op[c]
      BY <1>5, <2>2
    <3>2. \A d \in dead : op[d].kind = "save" => op[d].data.ver # op[c].data.ver
      BY <1>4, <2>2, <3>1 DEF StoreInv, NumbersInv, Running
    <3>3. op[c].data.ver \notin ended
      BY <2>2, <3>1 DEF StoreInv, NumbersInv, Running
    <3> QED
      BY <1>3, <3>1, <3>2, <3>3
  <2> QED
    BY <1>2, <1>5, <2>1, <2>2 DEF StoreInv, NumbersInv, Running
<1>8. KeptInv'
  BY <1>2, <1>5 DEF StoreInv, KeptInv, Running
<1>9. RecentInv'
  BY <1>2, <1>3, <1>5 DEF StoreInv, RecentInv, Running, Reads, Inside, Current
<1>10. FilesInv'
  <2>1. ASSUME NEW c \in Callers PROVE FilesOf(op'[c], db', json', tmp')
    <3>1. CASE op'[c].pc = "idle"
      BY <3>1 DEF FilesOf, Committed
    <3>2. CASE op'[c] = op[c]
      BY <1>2, <3>2 DEF StoreInv, FilesInv
    <3> QED
      BY <1>5, <3>1, <3>2
  <2> QED
    BY <2>1 DEF FilesInv
<1>11. WritersAgree'
  BY <1>5 DEF StoreInv, WritersAgree, Writing
<1>12. AcknowledgedSurvives'
  BY <1>2 DEF StoreInv, AcknowledgedSurvives, Readable, Opened
<1> QED
  BY <1>6, <1>7, <1>8, <1>9, <1>10, <1>11, <1>12 DEF StoreInv

LEMMA InitStore == ASSUME Init PROVE StoreInv
<1>1. \A c \in Callers : op[c].pc = "idle"
  BY DEF Init, Idle
<1>2. db = NoDb /\ ended = {0} /\ superseded = {} /\ saves = 0
  BY DEF Init
<1>3. kept => json \in Snapshot
  <2>1. json \in {None} \cup Snapshot
    BY DEF Init, Snapshot
  <2>2. kept => json # None
    BY Zenon DEF Init
  <2> QED
    BY <2>1, <2>2
<1>4. LockInv /\ WritersAgree
  BY <1>1 DEF LockInv, Inside, WritersAgree, Writing
<1>5. NumbersInv /\ KeptInv
  BY <1>1, <1>2 DEF NumbersInv, KeptInv, Running
<1>6. FilesInv
  BY <1>1 DEF FilesInv, FilesOf, Committed
<1>7. RecentInv
  BY <1>1, <1>2 DEF RecentInv, Running, Inside, Current
<1>8. AcknowledgedSurvives
  BY <1>3 DEF AcknowledgedSurvives, Readable
<1> QED
  BY <1>4, <1>5, <1>6, <1>7, <1>8 DEF StoreInv

LEMMA StoreStep ==
  ASSUME OneProcess, OwnSlug, TypeOK, PlaceInv, StoreInv, [Next]_vars PROVE StoreInv'
<1>1. CASE UNCHANGED vars
  BY <1>1
  DEF vars, StoreInv, LockInv, NumbersInv, RecentInv, FilesInv, KeptInv, WritersAgree,
      AcknowledgedSurvives, Readable, Opened, Inside, Running, Reads, Writing, Current
<1>2. ASSUME NEW c \in Callers, NEW k \in KindsOf[c], NEW r \in Repos, BeginCall(c, k, r)
      PROVE  StoreInv'
  BY <1>2, BeginStore, IndexStoreAssumption
<1>3. ASSUME NEW c \in Callers, WriteStep(c) PROVE StoreInv'
  BY <1>3, OpenStore, CommitStore, CreateStore, WriteStore, RenameStore, MissingStore
  DEF WriteStep
<1>4. ASSUME NEW c \in Callers, DeleteStep(c) PROVE StoreInv'
  BY <1>4, RemoveDbStore, RemoveSidecarStore DEF DeleteStep
<1> QED
  BY <1>1, <1>2, <1>3, <1>4, LockStore, ReadStore, FailStore, CrashStore DEF Next

\* The store of one process, for a repository with a slug of its own, is sound: calls that
\* write together agree, and an acknowledged save can be read until a delete begins.
THEOREM StoreSound ==
  ASSUME OneProcess, OwnSlug
  PROVE  Spec => [](StoreInv /\ WritersAgree /\ AcknowledgedSurvives)
<1>1. Init => StoreInv
  BY InitStore
<1>2. TypeOK /\ PlaceInv /\ StoreInv /\ [Next]_vars => StoreInv'
  BY StoreStep
<1>3. StoreInv => WritersAgree /\ AcknowledgedSurvives
  BY DEF StoreInv
<1> QED
  BY <1>1, <1>2, <1>3, TypeCorrect, PTL DEF Spec

LEMMA CurrentIsRecent ==
  ASSUME StoreInv, NEW c \in Callers, Running(c), Reads(c), NEW s \in Snapshot, Current(s)
  PROVE  s.ver \notin op[c].older
  BY DEF StoreInv, RecentInv, Current

\* A step in which c returns with a snapshot is a step of c, which holds the snapshot.
LEMMA AnswerHeld ==
  ASSUME TypeOK, PlaceInv, StoreInv, [Next]_vars, NEW c \in Callers, Answers(c)
  PROVE  /\ Reads(c) /\ op'[c].got \in Snapshot
         /\ Current(op'[c].got)
<1> DEFINE Held == Reads(c) /\ op'[c].got \in Snapshot /\ Current(op'[c].got)
<1> HIDE DEF Held
<1>1. op[c].pc # "idle" /\ op'[c].pc = "idle" /\ op'[c].answer = "found"
  BY DEF Answers, Running
<1>2. op[c].row \in Snapshot \cup {None} /\ op[c].data \in Snapshot \cup {None}
  BY FilesTyped
<1>3. ASSUME NEW d \in Callers, Others(d) \/ Untouched(d) PROVE c = d
  BY <1>1, <1>3, OthersRest DEF Others
<1>4. ASSUME NEW d \in Callers, NEW answer, NEW got, Return(d, answer, got)
      PROVE  c = d /\ answer = "found" /\ op'[c].got = got
  <2>1. Untouched(d) /\ op'[d].answer = answer /\ op'[d].got = got
    BY <1>4, ReturnShape
  <2> QED
    BY <1>1, <1>3, <2>1
<1>5. ASSUME NEW d \in Callers, NEW s \in Steps \ {"idle"}, Goto(d, s) PROVE FALSE
  BY <1>1, <1>3, <1>5, GotoShape
<1>6. ASSUME NEW d \in Callers, Inside(d), op[d].kind = "list",
             Abandon(d) \/ ReturnList(d, op[d].row)
      PROVE  Held
  <2>1. PICK answer \in {"found", "not found", "failure"}, got \in {None, op[d].row} :
           Return(d, answer, got) /\ (answer = "found" => got = op[d].row /\ got # None)
    BY <1>6, AbandonReturns
  <2>2. c = d /\ op'[c].got = op[c].row /\ op[c].row # None
    BY <1>4, <2>1
  <2> QED
    BY <1>2, <1>6, <2>2 DEF Held, StoreInv, RecentInv, Reads
<1>7. ASSUME NEW d \in Callers, op[d].kind # "list", Abandon(d) PROVE Held
  BY <1>4, <1>7 DEF Abandon
<1>8. ASSUME NEW d \in Callers, ReadStep(d) PROVE Held
  <2>1. Inside(d) /\ Reads(d)
    BY <1>8 DEF ReadStep, StatDb, QueryDb, ReadSidecar, PlaceInv, Place, Inside, Reads
  <2>2. CASE StatDb(d)
    BY <1>5, <2>2 DEF StatDb, Steps
  <2>3. CASE QueryDb(d)
    <3>1. ASSUME NEW s \in Opened, Return(d, "found", s) PROVE Held
      <4>1. c = d /\ op'[c].got = s
        BY <1>4, <3>1
      <4>2. s \in Snapshot /\ Current(s)
        BY DEF StoreInv, RecentInv, TypeOK, Opened
      <4> QED
        BY <2>1, <4>1, <4>2 DEF Held
    <3>2. ASSUME NEW s \in Opened, op' = [op EXCEPT ![d].row = s, ![d].pc = "legacy"]
          PROVE  FALSE
      <4>1. s \in Snapshot
        BY DEF TypeOK, Opened
      <4> QED
        BY <1>1, <1>3, <3>2, <4>1, QueryShape
    <3> QED
      BY <1>5, <2>3, <3>1, <3>2 DEF QueryDb, Steps
  <2>4. CASE ReadSidecar(d)
    <3>1. CASE op' = [op EXCEPT ![d].data = json, ![d].pc = "open"]
      BY <1>1, <1>3, <3>1, ReadShape
    <3>2. CASE op[d].kind = "list" /\ ReturnList(d, op[d].row)
      BY <1>6, <2>1, <3>2
    <3>3. CASE Return(d, IF json = None THEN "not found" ELSE "failure", None)
      <4>1. PICK answer \in {"not found", "failure"} : Return(d, answer, None)
        BY <3>3
      <4> QED
        BY <1>4, <4>1
    <3> QED
      BY <2>4, <3>1, <3>2, <3>3 DEF ReadSidecar
  <2> QED
    BY <1>8, <2>2, <2>3, <2>4 DEF ReadStep
<1>9. ASSUME NEW d \in Callers, WriteStep(d) PROVE Held
  <2>1. Inside(d) /\ op[d].kind # "delete" /\ op[d].kind \in Kinds
    BY <1>9, FilesTyped
    DEF WriteStep, OpenDb, CommitRow, CreateTmp, WriteTmp, RenameTmp, RenameMissing, PlaceInv,
        Place, Inside
  <2>2. CASE RenameTmp(d)
    <3>1. Others(d)
      BY <2>2, RenameShape
    <3>2. c = d
      BY <1>3, <3>1
    <3>3. PICK answer \in {"done", "found"}, got \in Snapshot \cup {None} :
             /\ Finish(c, op[c]) = Returned(c, answer, got)
             /\ answer = "done" <=> op[c].kind = "save"
             /\ answer = "found" => got \in {op[c].data, op[c].row} /\ got # None
      BY <2>2, <3>2, FinishReturns DEF RenameTmp
    <3>4. op'[c] = Returned(c, answer, got)
      BY <2>2, <3>2, <3>3 DEF RenameTmp, Renamed
    <3>5. op'[c].answer = answer /\ op'[c].got = got
      BY <3>4 DEF Returned, Idle
    <3>6. got \in {op[c].data, op[c].row} /\ got \in Snapshot /\ op[c].kind \in {"load", "list"}
      BY <1>1, <2>1, <3>2, <3>3, <3>5 DEF Kinds
    <3> QED
      BY <2>1, <3>2, <3>5, <3>6 DEF Held, Reads, StoreInv, RecentInv
  <2>3. CASE RenameMissing(d)
    BY <1>6, <1>7, <2>1, <2>3 DEF RenameMissing
  <2>4. CASE CommitRow(d) \/ WriteTmp(d)
    BY <1>5, <2>4 DEF CommitRow, WriteTmp, Steps
  <2>5. CASE OpenDb(d)
    BY <1>1, <1>3, <2>5, OpenShape
  <2>6. CASE CreateTmp(d)
    BY <1>1, <1>3, <2>6, CreateShape
  <2> QED
    BY <1>9, <2>2, <2>3, <2>4, <2>5, <2>6 DEF WriteStep
<1>10. ASSUME NEW d \in Callers, DeleteStep(d) PROVE FALSE
  <2>1. CASE RemoveDb(d)
    BY <1>1, <1>3, <2>1, RemoveDbShape
  <2>2. CASE RemoveSidecar(d)
    BY <1>1, <1>3, <2>2, RemoveSidecarShape
  <2> QED
    BY <1>10, <2>1, <2>2 DEF DeleteStep
<1>11. ASSUME NEW d \in Callers, StepFails(d) PROVE Held
  BY <1>5, <1>6, <1>7, <1>11 DEF StepFails, Steps
<1>12. ASSUME NEW d \in Callers, Lock(d) PROVE FALSE
  <2>1. Entry(op[d].kind) \in Steps \ {"idle"}
    BY DEF Entry, Steps
  <2> QED
    BY <1>5, <1>12, <2>1 DEF Lock
<1>13. ASSUME NEW q \in Processes, Crash(q) PROVE FALSE
  <2>1. op'[c] = Idle(op[c].repo) \/ op'[c] = op[c]
    BY <1>13 DEF Crash
  <2>2. Idle(op[c].repo).answer = "none"
    BY DEF Idle
  <2> QED
    BY <1>1, <2>1, <2>2
<1>14. ASSUME NEW d \in Callers, NEW k \in Kinds, NEW r \in Repos, BeginCall(d, k, r)
       PROVE  FALSE
  <2>1. op'[d] = Call(k, r)
    BY <1>14, BeginShape
  <2>2. Call(k, r).pc = "lock"
    BY CallType
  <2>3. c # d => op'[c].pc = op[c].pc
    BY <1>14, BeginShape
  <2> QED
    BY <1>1, <2>1, <2>2, <2>3
<1>15. Held
  BY <1>1, <1>8, <1>9, <1>10, <1>11, <1>12, <1>13, <1>14, IndexStoreAssumption DEF Next, vars
<1> QED
  BY <1>15 DEF Held

\* What a Load or List returns had not been superseded when the call began.
THEOREM LoadsRecent == ASSUME OneProcess, OwnSlug PROVE Spec => LoadsAreRecent
<1>1. TypeOK /\ PlaceInv /\ StoreInv /\ [Next]_vars =>
         [\A c \in Callers : Answers(c) => op'[c].got.ver \notin op[c].older]_vars
  BY AnswerHeld, CurrentIsRecent DEF Answers
<1> QED
  BY <1>1, TypeCorrect, StoreSound, PTL DEF Spec, LoadsAreRecent
=============================================================================
