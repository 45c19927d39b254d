----------------------- MODULE ProjectCreationProofs -----------------------
(***************************************************************************)
(* What holds of ProjectCreation for any number of calls.                  *)
(***************************************************************************)
EXTENDS ProjectCreation, TLAPS, WellFoundedInduction

-----------------------------------------------------------------------------
(* The scans.                                                              *)

(* Every non-empty set of naturals has a least element. *)
LEMMA LeastNatural ==
  ASSUME NEW T \in SUBSET Nat, T # {}
  PROVE  \E n \in T : \A k \in T : n <= k
<1> DEFINE R == OpToRel(<, Nat)
<1>1. PICK n \in T : \A k \in T : <<k, n>> \notin R
  <2>1. IsWellFoundedOn(R, Nat)
    BY NatLessThanWellFounded
  <2> HIDE DEF R
  <2>2. QED
    BY <2>1, WFMin
<1>2. \A k \in T : ~(k < n)
  BY <1>1 DEF OpToRel
<1>3. QED
  BY <1>2

(* What a scan of a bounded set finds is in the set, or what was found     *)
(* before, and nothing found is larger.                                    *)
LEMMA LargestIsLargest ==
  ASSUME NEW b \in Nat, NEW S \in SUBSET (0..b), NEW found \in 0..b
  PROVE  /\ Largest(S, found) \in S \cup {found}
         /\ \A k \in S \cup {found} : k <= Largest(S, found)
<1> DEFINE T == S \cup {found}
<1> DEFINE U == {n \in Nat : \A k \in T : k <= n}
<1>1. PICK u \in U : \A n \in U : u <= n
  <2>1. b \in U
    OBVIOUS
  <2>2. QED
    BY <2>1, LeastNatural
<1>2. u \in T
  <2>1. SUFFICES ASSUME u \notin T PROVE FALSE
    OBVIOUS
  <2>2. \A k \in T : k < u
    BY <1>1, <2>1
  <2>3. u # 0
    BY <2>2
  <2>4. u - 1 \in U
    BY <2>2, <2>3
  <2>5. QED
    BY <1>1, <2>4
<1>3. \E n \in T : \A k \in T : k <= n
  BY <1>1, <1>2
<1>4. QED
  BY <1>3 DEF Largest

-----------------------------------------------------------------------------
(* Types.                                                                  *)

(* Project.create is called at most twice by a call of create. *)
TriesOK ==
  \A c \in Creators :
    creator[c].pc \in {"idle", "pick", "bump", "seedStorages", "seedDirs", "insert",
                       "resave", "scanStorages", "scanDirs", "updatePick", "updateWrite"}
      => creator[c].tries \in 0..1

(* A call that has a number got it from a row. *)
RowOK ==
  \A c \in Creators :
    /\ creator[c].pc \in {"bump", "updateWrite"} => creator[c].row \in Rows
    /\ creator[c].pc \in {"mkdir", "lookup", "add", "getRecord", "addRecord", "role",
                          "undo", "scanStorages", "scanDirs", "updatePick"}
         => newest \in Rows

(* Numbers do not exceed b. *)
BoundedBy(b) ==
  /\ \A r \in Rows : value[r] <= b
  /\ dirs \subseteq 0..b
  /\ SystemIds \subseteq 0..b
  /\ \A c \in Creators : creator[c].id <= b /\ creator[c].found <= b
  /\ \A m \in Commands : command[m].found <= b

TypeInv == TypeOK /\ TriesOK /\ RowOK /\ \E b \in Nat : BoundedBy(b)

LEMMA TypeInit == Init => TypeInv
<1> SUFFICES ASSUME Init PROVE TypeInv
  OBVIOUS
<1> USE DEF Init
<1>1. TypeOK
  BY SeedAssumption, ActorsAssumption, ForeignAssumption
  DEF TypeOK, Rows, Ids, System, Makers, Creator, CreatorPcs, Command
<1>2. TriesOK /\ RowOK
  BY DEF TriesOK, RowOK
<1>3. BoundedBy(ForeignMax + SeedValue)
  <2>1. \A n \in 0..ForeignMax : n \in 0..(ForeignMax + SeedValue)
    BY SeedAssumption, ForeignAssumption
  <2>2. SystemIds \subseteq ForeignSystems /\ dirs \subseteq ForeignDirs
    BY DEF SystemIds
  <2>3. \A r \in Rows : value[r] <= ForeignMax + SeedValue
    BY SeedAssumption, ForeignAssumption
  <2>4. QED
    BY <2>1, <2>2, <2>3, SeedAssumption, ForeignAssumption DEF BoundedBy
<1>4. ForeignMax + SeedValue \in Nat
  BY SeedAssumption, ForeignAssumption
<1>5. QED
  BY <1>1, <1>2, <1>3, <1>4 DEF TypeInv

(* What a scan of the systems or of the directories finds. *)
LEMMA ScanBounds ==
  ASSUME TypeOK, NEW b \in Nat, BoundedBy(b), NEW f \in Nat, f <= b
  PROVE  /\ Largest(SystemIds, f) \in 0..b
         /\ Largest(dirs, f) \in 0..b
<1>1. SystemIds \in SUBSET (0..b) /\ dirs \in SUBSET (0..b) /\ f \in 0..b
  BY DEF BoundedBy
<1>2. Largest(SystemIds, f) \in SystemIds \cup {f}
  BY <1>1, LargestIsLargest
<1>3. Largest(dirs, f) \in dirs \cup {f}
  BY <1>1, LargestIsLargest
<1>4. QED
  BY <1>1, <1>2, <1>3

(* A step of create keeps the types. *)
LEMMA TypeCreate ==
  ASSUME TypeInv, NEW c \in Creators, Create(c)
  PROVE  TypeInv'
<1> USE DEF At, Goto, Fail, Save, tenant
<1>0. systems' = systems => SystemIds' = SystemIds
  BY DEF SystemIds
<1>1. PICK b \in Nat : BoundedBy(b)
  BY DEF TypeInv
<1>2. TypeOK /\ TriesOK /\ RowOK
  BY DEF TypeInv
<1>3. SUFFICES TypeOK' /\ TriesOK' /\ RowOK' /\ \E d \in Nat : BoundedBy(d)'
  BY DEF TypeInv
<1>4. creator[c] \in Creator /\ b + 1 \in Nat
  BY <1>2 DEF TypeOK
<1>5. CASE Start(c)
  <2>1. TypeOK'
    BY <1>2, <1>4, <1>5 DEF Start, TypeOK, Creator, CreatorPcs, Rows
  <2>2. TriesOK'
    BY <1>2, <1>4, <1>5 DEF Start, TypeOK, Creator, TriesOK
  <2>3. RowOK'
    BY <1>2, <1>4, <1>5 DEF Start, TypeOK, Creator, RowOK, Rows
  <2>4. BoundedBy(b)'
    BY <1>0, <1>1, <1>2, <1>4, <1>5 DEF Start, TypeOK, Creator, BoundedBy
  <2>5. QED
    BY <1>4, <2>1, <2>2, <2>3, <2>4
<1>6. CASE Pick(c)
  <2>1. TypeOK'
    BY <1>2, <1>4, <1>6 DEF Pick, TypeOK, Creator, CreatorPcs, Rows
  <2>2. TriesOK'
    BY <1>2, <1>4, <1>6 DEF Pick, TypeOK, Creator, TriesOK
  <2>3. RowOK'
    BY <1>2, <1>4, <1>6 DEF Pick, TypeOK, Creator, RowOK, Rows
  <2>4. BoundedBy(b)'
    BY <1>0, <1>1, <1>2, <1>4, <1>6 DEF Pick, TypeOK, Creator, BoundedBy
  <2>5. QED
    BY <1>4, <2>1, <2>2, <2>3, <2>4
<1>7. CASE Bump(c)
  <2>1. TypeOK'
    BY <1>2, <1>4, <1>7 DEF Bump, TypeOK, Creator, CreatorPcs, Rows, Ids
  <2>2. TriesOK'
    BY <1>2, <1>4, <1>7 DEF Bump, TypeOK, Creator, TriesOK
  <2>3. RowOK'
    BY <1>2, <1>4, <1>7 DEF Bump, TypeOK, Creator, RowOK, Rows
  <2>4. BoundedBy(b + 1)'
    BY <1>0, <1>1, <1>2, <1>4, <1>7 DEF Bump, TypeOK, Creator, BoundedBy, Ids
  <2>5. QED
    BY <1>4, <2>1, <2>2, <2>3, <2>4
<1>8. CASE PickNothing(c)
  <2>1. TypeOK'
    BY <1>2, <1>4, <1>8 DEF PickNothing, TypeOK, Creator, CreatorPcs, Rows
  <2>2. TriesOK'
    BY <1>2, <1>4, <1>8 DEF PickNothing, TypeOK, Creator, TriesOK
  <2>3. RowOK'
    BY <1>2, <1>4, <1>8 DEF PickNothing, TypeOK, Creator, RowOK, Rows
  <2>4. BoundedBy(b)'
    BY <1>0, <1>1, <1>2, <1>4, <1>8 DEF PickNothing, TypeOK, Creator, BoundedBy
  <2>5. QED
    BY <1>4, <2>1, <2>2, <2>3, <2>4
<1>9. CASE ScanStorages(c)
  <2>0. Largest(SystemIds, 0) \in 0..b
    BY <1>1, <1>2, ScanBounds
  <2>1. TypeOK'
    <3> DEFINE p == IF At(c, "seedStorages") THEN "seedDirs" ELSE "scanDirs"
    <3> DEFINE n == Largest(SystemIds, 0)
    <3>0. p \in CreatorPcs /\ n \in Nat
      BY <1>1, <2>0 DEF CreatorPcs
    <3>1. creator' = [creator EXCEPT ![c].pc = p, ![c].found = n]
      BY <1>9 DEF ScanStorages
    <3> HIDE DEF p, n
    <3>2. creator' \in [Creators -> Creator]
      <4>1. [creator[c] EXCEPT !.pc = p, !.found = n] \in Creator
        BY <1>4, <3>0 DEF Creator
      <4>2. creator' = [creator EXCEPT ![c] = [creator[c] EXCEPT !.pc = p, !.found = n]]
        BY <1>2, <3>1 DEF TypeOK
      <4>3. QED
        BY <1>2, <4>1, <4>2 DEF TypeOK
    <3>3. QED
      BY <1>2, <1>9, <3>2 DEF ScanStorages, TypeOK
  <2>2. TriesOK'
    BY <1>2, <1>4, <1>9 DEF ScanStorages, TypeOK, Creator, TriesOK
  <2>3. RowOK'
    BY <1>2, <1>4, <1>9 DEF ScanStorages, TypeOK, Creator, RowOK, Rows
  <2>4. BoundedBy(b)'
    BY <1>0, <1>1, <1>2, <1>4, <1>9, <2>0 DEF ScanStorages, TypeOK, Creator, BoundedBy
  <2>5. QED
    BY <1>4, <2>1, <2>2, <2>3, <2>4
<1>10. CASE ScanDirs(c)
  <2>0. Largest(dirs, creator[c].found) \in 0..b
    <3>1. creator[c].found \in Nat /\ creator[c].found <= b
      BY <1>1, <1>4 DEF Creator, BoundedBy
    <3>2. QED
      BY <1>1, <1>2, <3>1, ScanBounds
  <2>1. TypeOK'
    <3> DEFINE p == IF At(c, "seedDirs") THEN "insert" ELSE "updatePick"
    <3> DEFINE n == Largest(dirs, creator[c].found)
    <3>0. p \in CreatorPcs /\ n \in Nat
      BY <1>1, <2>0 DEF CreatorPcs
    <3>1. creator' = [creator EXCEPT ![c].pc = p, ![c].found = n]
      BY <1>10 DEF ScanDirs
    <3> HIDE DEF p, n
    <3>2. creator' \in [Creators -> Creator]
      <4>1. [creator[c] EXCEPT !.pc = p, !.found = n] \in Creator
        BY <1>4, <3>0 DEF Creator
      <4>2. creator' = [creator EXCEPT ![c] = [creator[c] EXCEPT !.pc = p, !.found = n]]
        BY <1>2, <3>1 DEF TypeOK
      <4>3. QED
        BY <1>2, <4>1, <4>2 DEF TypeOK
    <3>3. QED
      BY <1>2, <1>10, <3>2 DEF ScanDirs, TypeOK
  <2>2. TriesOK'
    BY <1>2, <1>4, <1>10 DEF ScanDirs, TypeOK, Creator, TriesOK
  <2>3. RowOK'
    BY <1>2, <1>4, <1>10 DEF ScanDirs, TypeOK, Creator, RowOK, Rows
  <2>4. BoundedBy(b)'
    BY <1>0, <1>1, <1>2, <1>4, <1>10, <2>0 DEF ScanDirs, TypeOK, Creator, BoundedBy
  <2>5. QED
    BY <1>4, <2>1, <2>2, <2>3, <2>4
<1>11. CASE Insert(c)
  <2>1. TypeOK'
    BY <1>2, <1>4, <1>11 DEF Insert, TypeOK, Creator, CreatorPcs, Rows
  <2>2. TriesOK'
    BY <1>2, <1>4, <1>11 DEF Insert, TypeOK, Creator, TriesOK
  <2>3. RowOK'
    BY <1>2, <1>4, <1>11 DEF Insert, TypeOK, Creator, RowOK, Rows
  <2>4. BoundedBy(b)'
    BY <1>0, <1>1, <1>2, <1>4, <1>11 DEF Insert, TypeOK, Creator, BoundedBy
  <2>5. QED
    BY <1>4, <2>1, <2>2, <2>3, <2>4
<1>12. CASE Resave(c)
  <2>1. TypeOK'
    BY <1>2, <1>4, <1>12 DEF Resave, TypeOK, Creator, CreatorPcs, Rows
  <2>2. TriesOK'
    BY <1>2, <1>4, <1>12 DEF Resave, TypeOK, Creator, TriesOK
  <2>3. RowOK'
    BY <1>2, <1>4, <1>12 DEF Resave, TypeOK, Creator, RowOK, Rows
  <2>4. BoundedBy(b)'
    BY <1>0, <1>1, <1>2, <1>4, <1>12 DEF Resave, TypeOK, Creator, BoundedBy
  <2>5. QED
    BY <1>4, <2>1, <2>2, <2>3, <2>4
<1>13. CASE Mkdir(c)
  <2>1. TypeOK'
    BY <1>2, <1>4, <1>13 DEF Mkdir, TypeOK, Creator, CreatorPcs, Rows, Ids
  <2>2. TriesOK'
    BY <1>2, <1>4, <1>13 DEF Mkdir, TypeOK, Creator, TriesOK
  <2>3. RowOK'
    BY <1>2, <1>4, <1>13 DEF Mkdir, TypeOK, Creator, RowOK, Rows
  <2>4. BoundedBy(b)'
    BY <1>0, <1>1, <1>2, <1>4, <1>13 DEF Mkdir, TypeOK, Creator, BoundedBy, Ids
  <2>5. QED
    BY <1>4, <2>1, <2>2, <2>3, <2>4
<1>14. CASE MkdirFails(c)
  <2>1. TypeOK'
    BY <1>2, <1>4, <1>14 DEF MkdirFails, TypeOK, Creator, CreatorPcs, Rows
  <2>2. TriesOK'
    BY <1>2, <1>4, <1>14 DEF MkdirFails, TypeOK, Creator, TriesOK
  <2>3. RowOK'
    BY <1>2, <1>4, <1>14 DEF MkdirFails, TypeOK, Creator, RowOK, Rows
  <2>4. BoundedBy(b)'
    BY <1>0, <1>1, <1>2, <1>4, <1>14 DEF MkdirFails, TypeOK, Creator, BoundedBy
  <2>5. QED
    BY <1>4, <2>1, <2>2, <2>3, <2>4
<1>15. CASE LookUp(c)
  <2>0. Registered(creator[c].id) \in BOOLEAN
    BY DEF Registered
  <2>1. TypeOK'
    BY <1>2, <1>4, <1>15, <2>0 DEF LookUp, TypeOK, Creator, CreatorPcs, Rows
  <2>2. TriesOK'
    BY <1>2, <1>4, <1>15 DEF LookUp, TypeOK, Creator, TriesOK
  <2>3. RowOK'
    BY <1>2, <1>4, <1>15 DEF LookUp, TypeOK, Creator, RowOK, Rows
  <2>4. BoundedBy(b)'
    BY <1>0, <1>1, <1>2, <1>4, <1>15 DEF LookUp, TypeOK, Creator, BoundedBy
  <2>5. QED
    BY <1>4, <2>1, <2>2, <2>3, <2>4
<1>16. CASE Add(c)
  <2>1. TypeOK'
    BY <1>2, <1>4, <1>16 DEF Add, TypeOK, Creator, CreatorPcs, Rows, AddSystem, System, Makers, Ids
  <2>2. TriesOK'
    BY <1>2, <1>4, <1>16 DEF Add, TypeOK, Creator, TriesOK
  <2>3. RowOK'
    BY <1>2, <1>4, <1>16 DEF Add, TypeOK, Creator, RowOK, Rows
  <2>4. BoundedBy(b)'
    BY <1>0, <1>1, <1>2, <1>4, <1>16 DEF Add, TypeOK, Creator, BoundedBy, SystemIds, AddSystem, System, Makers, Ids
  <2>5. QED
    BY <1>4, <2>1, <2>2, <2>3, <2>4
<1>17. CASE StorageFails(c)
  <2>0. systems' \subseteq System
    BY <1>2, <1>4, <1>17 DEF StorageFails, TypeOK, Creator, AddSystem, System, Makers, Ids
  <2>1. TypeOK'
    BY <1>2, <1>4, <1>17, <2>0 DEF StorageFails, TypeOK, Creator, CreatorPcs, Rows
  <2>2. TriesOK'
    BY <1>2, <1>4, <1>17 DEF StorageFails, TypeOK, Creator, TriesOK
  <2>3. RowOK'
    BY <1>2, <1>4, <1>17 DEF StorageFails, TypeOK, Creator, RowOK, Rows
  <2>4. BoundedBy(b)'
    BY <1>0, <1>1, <1>2, <1>4, <1>17 DEF StorageFails, TypeOK, Creator, BoundedBy, SystemIds, AddSystem, System, Makers, Ids
  <2>5. QED
    BY <1>4, <2>1, <2>2, <2>3, <2>4
<1>18. CASE GetRecord(c)
  <2>1. TypeOK'
    BY <1>2, <1>4, <1>18 DEF GetRecord, TypeOK, Creator, CreatorPcs, Rows
  <2>2. TriesOK'
    BY <1>2, <1>4, <1>18 DEF GetRecord, TypeOK, Creator, TriesOK
  <2>3. RowOK'
    BY <1>2, <1>4, <1>18 DEF GetRecord, TypeOK, Creator, RowOK, Rows
  <2>4. BoundedBy(b)'
    BY <1>0, <1>1, <1>2, <1>4, <1>18 DEF GetRecord, TypeOK, Creator, BoundedBy
  <2>5. QED
    BY <1>4, <2>1, <2>2, <2>3, <2>4
<1>19. CASE AddRecord(c)
  <2>1. TypeOK'
    BY <1>2, <1>4, <1>19 DEF AddRecord, TypeOK, Creator, CreatorPcs, Rows
  <2>2. TriesOK'
    BY <1>2, <1>4, <1>19 DEF AddRecord, TypeOK, Creator, TriesOK
  <2>3. RowOK'
    BY <1>2, <1>4, <1>19 DEF AddRecord, TypeOK, Creator, RowOK, Rows
  <2>4. BoundedBy(b)'
    BY <1>0, <1>1, <1>2, <1>4, <1>19 DEF AddRecord, TypeOK, Creator, BoundedBy
  <2>5. QED
    BY <1>4, <2>1, <2>2, <2>3, <2>4
<1>20. CASE Undo(c)
  <2>1. TypeOK'
    BY <1>2, <1>4, <1>20 DEF Undo, TypeOK, Creator, CreatorPcs, Rows
  <2>2. TriesOK'
    BY <1>2, <1>4, <1>20 DEF Undo, TypeOK, Creator, TriesOK
  <2>3. RowOK'
    BY <1>2, <1>4, <1>20 DEF Undo, TypeOK, Creator, RowOK, Rows
  <2>4. BoundedBy(b)'
    BY <1>0, <1>1, <1>2, <1>4, <1>20 DEF Undo, TypeOK, Creator, BoundedBy
  <2>5. QED
    BY <1>4, <2>1, <2>2, <2>3, <2>4
<1>21. CASE UndoFails(c)
  <2>1. TypeOK'
    BY <1>2, <1>4, <1>21 DEF UndoFails, TypeOK, Creator, CreatorPcs, Rows
  <2>2. TriesOK'
    BY <1>2, <1>4, <1>21 DEF UndoFails, TypeOK, Creator, TriesOK
  <2>3. RowOK'
    BY <1>2, <1>4, <1>21 DEF UndoFails, TypeOK, Creator, RowOK, Rows
  <2>4. BoundedBy(b)'
    BY <1>0, <1>1, <1>2, <1>4, <1>21 DEF UndoFails, TypeOK, Creator, BoundedBy
  <2>5. QED
    BY <1>4, <2>1, <2>2, <2>3, <2>4
<1>22. CASE GiveRole(c)
  <2>1. TypeOK'
    BY <1>2, <1>4, <1>22 DEF GiveRole, TypeOK, Creator, CreatorPcs, Rows
  <2>2. TriesOK'
    BY <1>2, <1>4, <1>22 DEF GiveRole, TypeOK, Creator, TriesOK
  <2>3. RowOK'
    BY <1>2, <1>4, <1>22 DEF GiveRole, TypeOK, Creator, RowOK, Rows
  <2>4. BoundedBy(b)'
    BY <1>0, <1>1, <1>2, <1>4, <1>22 DEF GiveRole, TypeOK, Creator, BoundedBy
  <2>5. QED
    BY <1>4, <2>1, <2>2, <2>3, <2>4
<1>23. CASE RoleFails(c)
  <2>1. TypeOK'
    BY <1>2, <1>4, <1>23 DEF RoleFails, TypeOK, Creator, CreatorPcs, Rows
  <2>2. TriesOK'
    BY <1>2, <1>4, <1>23 DEF RoleFails, TypeOK, Creator, TriesOK
  <2>3. RowOK'
    BY <1>2, <1>4, <1>23 DEF RoleFails, TypeOK, Creator, RowOK, Rows
  <2>4. BoundedBy(b)'
    BY <1>0, <1>1, <1>2, <1>4, <1>23 DEF RoleFails, TypeOK, Creator, BoundedBy
  <2>5. QED
    BY <1>4, <2>1, <2>2, <2>3, <2>4
<1>24. CASE UpdatePick(c)
  <2>1. TypeOK'
    BY <1>2, <1>4, <1>24 DEF UpdatePick, TypeOK, Creator, CreatorPcs, Rows
  <2>2. TriesOK'
    BY <1>2, <1>4, <1>24 DEF UpdatePick, TypeOK, Creator, TriesOK
  <2>3. RowOK'
    BY <1>2, <1>4, <1>24 DEF UpdatePick, TypeOK, Creator, RowOK, Rows
  <2>4. BoundedBy(b)'
    BY <1>0, <1>1, <1>2, <1>4, <1>24 DEF UpdatePick, TypeOK, Creator, BoundedBy
  <2>5. QED
    BY <1>4, <2>1, <2>2, <2>3, <2>4
<1>25. CASE UpdateWrite(c)
  <2>1. TypeOK'
    BY <1>2, <1>4, <1>25 DEF UpdateWrite, TypeOK, Creator, CreatorPcs, Rows
  <2>2. TriesOK'
    BY <1>2, <1>4, <1>25 DEF UpdateWrite, TypeOK, Creator, TriesOK
  <2>3. RowOK'
    BY <1>2, <1>4, <1>25 DEF UpdateWrite, TypeOK, Creator, RowOK, Rows
  <2>4. BoundedBy(b)'
    BY <1>0, <1>1, <1>2, <1>4, <1>25 DEF UpdateWrite, TypeOK, Creator, BoundedBy
  <2>5. QED
    BY <1>4, <2>1, <2>2, <2>3, <2>4
<1>26. CASE RecordFails(c)
  <2>1. TypeOK'
    BY <1>2, <1>4, <1>26 DEF RecordFails, TypeOK, Creator, CreatorPcs, Rows
  <2>2. TriesOK'
    BY <1>2, <1>4, <1>26 DEF RecordFails, TypeOK, Creator, TriesOK
  <2>3. RowOK'
    BY <1>2, <1>4, <1>26 DEF RecordFails, TypeOK, Creator, RowOK, Rows
  <2>4. BoundedBy(b)'
    BY <1>0, <1>1, <1>2, <1>4, <1>26 DEF RecordFails, TypeOK, Creator, BoundedBy
  <2>5. QED
    BY <1>4, <2>1, <2>2, <2>3, <2>4
<1>27. QED
  BY Zenon, <1>5, <1>6, <1>7, <1>8, <1>9, <1>10, <1>11, <1>12, <1>13, <1>14, <1>15, <1>16, <1>17, <1>18, <1>19, <1>20, <1>21, <1>22, <1>23, <1>24, <1>25, <1>26 DEF Create

(* A step of the management command keeps the types. *)
LEMMA TypeCommand ==
  ASSUME TypeInv, NEW m \in Commands, RunCommand(m)
  PROVE  TypeInv'
<1> USE DEF Save, tenant
<1>0. systems' = systems => SystemIds' = SystemIds
  BY DEF SystemIds
<1>1. PICK b \in Nat : BoundedBy(b)
  BY DEF TypeInv
<1>2. TypeOK /\ TriesOK /\ RowOK
  BY DEF TypeInv
<1>3. SUFFICES TypeOK' /\ TriesOK' /\ RowOK' /\ BoundedBy(b)'
  BY <1>1 DEF TypeInv
<1>4. command[m] \in Command
  BY <1>2 DEF TypeOK
<1>5. TriesOK'
  BY <1>2 DEF RunCommand, TriesOK, CommandStorages, CommandDirs, CommandPick, CommandWrite
<1>6. CASE CommandStorages(m)
  <2>1. Largest(SystemIds, 0) \in 0..b
    BY <1>1, <1>2, ScanBounds
  <2>2. TypeOK'
    <3> DEFINE n == Largest(SystemIds, 0)
    <3>1. n \in Nat
      BY <1>1, <2>1
    <3>2. command' = [command EXCEPT ![m] = [command[m] EXCEPT !.pc = "dirs", !.found = n]]
      BY <1>2, <1>6 DEF CommandStorages, TypeOK
    <3> HIDE DEF n
    <3>3. [command[m] EXCEPT !.pc = "dirs", !.found = n] \in Command
      BY <1>4, <3>1 DEF Command
    <3>4. command' \in [Commands -> Command]
      BY <1>2, <3>2, <3>3 DEF TypeOK
    <3>5. QED
      BY <1>2, <1>6, <3>4 DEF CommandStorages, TypeOK
  <2>3. RowOK' /\ BoundedBy(b)'
    BY <1>0, <1>1, <1>2, <1>4, <1>6, <2>1 DEF CommandStorages, TypeOK, Command, RowOK, BoundedBy
  <2>4. QED
    BY <1>5, <2>2, <2>3
<1>7. CASE CommandDirs(m)
  <2>1. Largest(dirs, command[m].found) \in 0..b
    <3>1. command[m].found \in Nat /\ command[m].found <= b
      BY <1>1, <1>4 DEF Command, BoundedBy
    <3>2. QED
      BY <1>1, <1>2, <3>1, ScanBounds
  <2>2. TypeOK'
    <3> DEFINE n == Largest(dirs, command[m].found)
    <3>1. n \in Nat
      BY <1>1, <2>1
    <3>2. command' = [command EXCEPT ![m] = [command[m] EXCEPT !.pc = "pick", !.found = n]]
      BY <1>2, <1>7 DEF CommandDirs, TypeOK
    <3> HIDE DEF n
    <3>3. [command[m] EXCEPT !.pc = "pick", !.found = n] \in Command
      BY <1>4, <3>1 DEF Command
    <3>4. command' \in [Commands -> Command]
      BY <1>2, <3>2, <3>3 DEF TypeOK
    <3>5. QED
      BY <1>2, <1>7, <3>4 DEF CommandDirs, TypeOK
  <2>3. RowOK' /\ BoundedBy(b)'
    BY <1>0, <1>1, <1>2, <1>4, <1>7, <2>1 DEF CommandDirs, TypeOK, Command, RowOK, BoundedBy
  <2>4. QED
    BY <1>5, <2>2, <2>3
<1>8. CASE CommandPick(m)
  <2>1. TypeOK'
    BY <1>2, <1>4, <1>8 DEF CommandPick, TypeOK, Command
  <2>2. RowOK' /\ BoundedBy(b)'
    BY <1>0, <1>1, <1>2, <1>4, <1>8 DEF CommandPick, TypeOK, Command, RowOK, BoundedBy
  <2>3. QED
    BY <1>5, <2>1, <2>2
<1>9. CASE CommandWrite(m)
  <2>1. PICK r \in Rows : Save(r, command[m].found)
    BY <1>4, <1>9 DEF CommandWrite, Command, Rows
  <2>2. TypeOK'
    BY <1>2, <1>4, <1>9, <2>1 DEF CommandWrite, TypeOK, Command
  <2>3. RowOK'
    BY <1>2, <1>9, <2>1 DEF CommandWrite, RowOK
  <2>4. BoundedBy(b)'
    BY <1>0, <1>1, <1>2, <1>4, <1>9, <2>1 DEF CommandWrite, TypeOK, Command, BoundedBy
  <2>5. QED
    BY <1>5, <2>2, <2>3, <2>4
<1>10. QED
  BY <1>6, <1>7, <1>8, <1>9 DEF RunCommand

(* The variables keep their types, whatever the tenant holds and however   *)
(* calls and commands interleave.                                          *)
THEOREM TypeCorrect == Spec => []TypeOK
<1>1. Init => TypeInv
  BY TypeInit
<1>2. TypeInv /\ [Next]_vars => TypeInv'
  <2> SUFFICES ASSUME TypeInv, [Next]_vars PROVE TypeInv'
    OBVIOUS
  <2>1. ASSUME NEW c \in Creators, Create(c) PROVE TypeInv'
    BY <2>1, TypeCreate
  <2>2. ASSUME NEW m \in Commands, RunCommand(m) PROVE TypeInv'
    BY <2>2, TypeCommand
  <2>3. CASE UNCHANGED vars
    BY <2>3 DEF vars, TypeInv, TypeOK, TriesOK, RowOK, BoundedBy, SystemIds
  <2>4. QED
    BY <2>1, <2>2, <2>3 DEF Next
<1>3. TypeInv => TypeOK
  BY DEF TypeInv
<1>4. QED
  BY <1>1, <1>2, <1>3, PTL DEF Spec

-----------------------------------------------------------------------------
(* A portal that nothing collides with: the table has its row, every       *)
(* system was made by the portal, and nobody resets the counter.  Calls    *)
(* interleave freely and every remote call may fail.                       *)

Undisturbed == FirstRows = {Seed} /\ ForeignSystems = {} /\ Commands = {}

Numbered(c) == creator[c].pc \notin {"idle", "pick", "bump"}

(* One row, the seed, serves every call, and no call ever recovers. *)
OneRow ==
  /\ newest = Seed
  /\ \A c \in Creators :
       /\ creator[c].pc \in {"idle", "pick", "bump", "mkdir", "lookup", "add", "getRecord",
                             "addRecord", "role", "undo", "done", "failed"}
       /\ creator[c].pc = "bump" => creator[c].row = Seed
       /\ creator[c].exists = FALSE

(* A number handed out is behind the counter and handed out once. *)
HandedOut ==
  /\ \A c \in Creators : Numbered(c) => creator[c].id <= value[Seed]
  /\ \A c, d \in Creators :
       c # d /\ Numbered(c) /\ Numbered(d) => creator[c].id # creator[d].id

(* What the tenant and the database hold was put there by the call that    *)
(* has the number.                                                         *)
OwnedSystems ==
  \A s \in systems : /\ s.by \in Creators
                     /\ s.id = creator[s.by].id
                     /\ creator[s.by].pc \in {"getRecord", "addRecord", "role",
                                              "undo", "done", "failed"}

OwnedRecords ==
  \A m \in records : m.id = creator[m.owner].id
                     /\ creator[m.owner].pc \in {"role", "done", "failed"}

OwnedRoles ==
  \A a \in admins : a.id = creator[a.by].id /\ creator[a.by].pc = "done"

(* What a call has made so far is in place. *)
InPlace ==
  \A c \in Creators :
    LET n == creator[c].id IN
    /\ creator[c].pc \in {"lookup", "add", "getRecord", "addRecord", "role", "done"}
         => n \in dirs
    /\ creator[c].pc \in {"getRecord", "addRecord", "role", "done"}
         => [id |-> n, by |-> c] \in systems
    /\ creator[c].pc \in {"role", "done"} => [id |-> n, owner |-> c] \in records
    /\ creator[c].pc = "done" => [id |-> n, by |-> c] \in admins

IInv ==
  /\ TypeOK
  /\ OneRow
  /\ HandedOut
  /\ OwnedSystems /\ OwnedRecords /\ OwnedRoles
  /\ InPlace

LEMMA IInvInit == Undisturbed /\ Init => IInv
<1> SUFFICES ASSUME Undisturbed, Init PROVE IInv
  OBVIOUS
<1>1. TypeOK
  BY TypeInit DEF TypeInv
<1>2. systems = {} /\ records = {} /\ admins = {}
  BY DEF Init, Undisturbed
<1>3. OneRow /\ HandedOut /\ InPlace
  BY DEF Init, Undisturbed, OneRow, HandedOut, InPlace, Numbered
<1>4. OwnedSystems /\ OwnedRecords /\ OwnedRoles
  BY <1>2 DEF OwnedSystems, OwnedRecords, OwnedRoles
<1>5. QED
  BY <1>1, <1>3, <1>4 DEF IInv

(* Nobody else's system has the number of a call that is about to look. *)
LEMMA NobodyElse ==
  ASSUME IInv, NEW c \in Creators, creator[c].pc \in {"lookup", "add"}
  PROVE  ~Registered(creator[c].id)
BY DEF IInv, OneRow, HandedOut, OwnedSystems, Numbered, Registered, SystemIds

LEMMA IInvCreate ==
  ASSUME IInv, TypeOK', NEW c \in Creators, Create(c)
  PROVE  IInv'
<1> USE DEF At, Goto, Fail, Save, tenant
<1>1. /\ TypeOK /\ OneRow /\ HandedOut /\ InPlace
      /\ OwnedSystems /\ OwnedRecords /\ OwnedRoles
  BY DEF IInv
<1>2. SUFFICES /\ OneRow' /\ HandedOut' /\ InPlace'
               /\ OwnedSystems' /\ OwnedRecords' /\ OwnedRoles'
  BY DEF IInv
<1>3. creator[c] \in Creator /\ Seed \in Rows /\ value[Seed] \in Nat
  BY <1>1 DEF TypeOK, Rows
<1>4. CASE Start(c)
  <2>1. OneRow'
    BY <1>1, <1>3, <1>4 DEF Start, TypeOK, Creator, OneRow
  <2>2. HandedOut'
    BY <1>1, <1>3, <1>4 DEF Start, TypeOK, Creator, OneRow, HandedOut, Numbered
  <2>3. InPlace'
    BY <1>1, <1>3, <1>4 DEF Start, TypeOK, Creator, OneRow, InPlace, HandedOut, Numbered
  <2>4. OwnedSystems'
    BY <1>1, <1>3, <1>4 DEF Start, TypeOK, Creator, OwnedSystems, System, Makers
  <2>5. OwnedRecords' /\ OwnedRoles'
    BY <1>1, <1>3, <1>4 DEF Start, TypeOK, Creator, OwnedRecords, OwnedRoles
  <2>6. QED
    BY <2>1, <2>2, <2>3, <2>4, <2>5
<1>5. CASE Pick(c)
  <2>1. OneRow'
    BY <1>1, <1>3, <1>5 DEF Pick, TypeOK, Creator, OneRow
  <2>2. HandedOut'
    BY <1>1, <1>3, <1>5 DEF Pick, TypeOK, Creator, OneRow, HandedOut, Numbered
  <2>3. InPlace'
    BY <1>1, <1>3, <1>5 DEF Pick, TypeOK, Creator, OneRow, InPlace, HandedOut, Numbered
  <2>4. OwnedSystems'
    BY <1>1, <1>3, <1>5 DEF Pick, TypeOK, Creator, OwnedSystems, System, Makers
  <2>5. OwnedRecords' /\ OwnedRoles'
    BY <1>1, <1>3, <1>5 DEF Pick, TypeOK, Creator, OwnedRecords, OwnedRoles
  <2>6. QED
    BY <2>1, <2>2, <2>3, <2>4, <2>5
<1>6. CASE Bump(c)
  <2>1. OneRow'
    BY <1>1, <1>3, <1>6 DEF Bump, TypeOK, Creator, OneRow
  <2>2. HandedOut'
    BY <1>1, <1>3, <1>6 DEF Bump, TypeOK, Creator, OneRow, HandedOut, Numbered
  <2>3. InPlace'
    BY <1>1, <1>3, <1>6 DEF Bump, TypeOK, Creator, OneRow, InPlace, HandedOut, Numbered
  <2>4. OwnedSystems'
    BY <1>1, <1>3, <1>6 DEF Bump, TypeOK, Creator, OwnedSystems, System, Makers
  <2>5. OwnedRecords' /\ OwnedRoles'
    BY <1>1, <1>3, <1>6 DEF Bump, TypeOK, Creator, OwnedRecords, OwnedRoles
  <2>6. QED
    BY <2>1, <2>2, <2>3, <2>4, <2>5
<1>7. CASE Mkdir(c)
  <2>1. OneRow'
    BY <1>1, <1>3, <1>7 DEF Mkdir, TypeOK, Creator, OneRow
  <2>2. HandedOut'
    BY <1>1, <1>3, <1>7 DEF Mkdir, TypeOK, Creator, OneRow, HandedOut, Numbered
  <2>3. InPlace'
    BY <1>1, <1>3, <1>7 DEF Mkdir, TypeOK, Creator, OneRow, InPlace, HandedOut, Numbered
  <2>4. OwnedSystems'
    BY <1>1, <1>3, <1>7 DEF Mkdir, TypeOK, Creator, OwnedSystems, System, Makers
  <2>5. OwnedRecords' /\ OwnedRoles'
    BY <1>1, <1>3, <1>7 DEF Mkdir, TypeOK, Creator, OwnedRecords, OwnedRoles
  <2>6. QED
    BY <2>1, <2>2, <2>3, <2>4, <2>5
<1>8. CASE MkdirFails(c)
  <2>1. OneRow'
    BY <1>1, <1>3, <1>8 DEF MkdirFails, TypeOK, Creator, OneRow
  <2>2. HandedOut'
    BY <1>1, <1>3, <1>8 DEF MkdirFails, TypeOK, Creator, OneRow, HandedOut, Numbered
  <2>3. InPlace'
    BY <1>1, <1>3, <1>8 DEF MkdirFails, TypeOK, Creator, OneRow, InPlace, HandedOut, Numbered
  <2>4. OwnedSystems'
    BY <1>1, <1>3, <1>8 DEF MkdirFails, TypeOK, Creator, OwnedSystems, System, Makers
  <2>5. OwnedRecords' /\ OwnedRoles'
    BY <1>1, <1>3, <1>8 DEF MkdirFails, TypeOK, Creator, OwnedRecords, OwnedRoles
  <2>6. QED
    BY <2>1, <2>2, <2>3, <2>4, <2>5
<1>9. CASE LookUp(c)
  <2>0. ~Registered(creator[c].id)
    BY <1>9, NobodyElse DEF LookUp
  <2>1. OneRow'
    BY <1>1, <1>3, <1>9, <2>0 DEF LookUp, TypeOK, Creator, OneRow
  <2>2. HandedOut'
    BY <1>1, <1>3, <1>9 DEF LookUp, TypeOK, Creator, OneRow, HandedOut, Numbered
  <2>3. InPlace'
    BY <1>1, <1>3, <1>9, <2>0 DEF LookUp, TypeOK, Creator, OneRow, InPlace, HandedOut, Numbered
  <2>4. OwnedSystems'
    BY <1>1, <1>3, <1>9, <2>0 DEF LookUp, TypeOK, Creator, OwnedSystems, System, Makers
  <2>5. OwnedRecords' /\ OwnedRoles'
    BY <1>1, <1>3, <1>9 DEF LookUp, TypeOK, Creator, OwnedRecords, OwnedRoles
  <2>6. QED
    BY <2>1, <2>2, <2>3, <2>4, <2>5
<1>10. CASE Add(c)
  <2>0. ~Registered(creator[c].id)
    BY <1>10, NobodyElse DEF Add
  <2>1. OneRow'
    BY <1>1, <1>3, <1>10, <2>0 DEF Add, TypeOK, Creator, OneRow
  <2>2. HandedOut'
    BY <1>1, <1>3, <1>10 DEF Add, TypeOK, Creator, OneRow, HandedOut, Numbered
  <2>3. InPlace'
    BY <1>1, <1>3, <1>10, <2>0 DEF Add, TypeOK, Creator, OneRow, InPlace, HandedOut, Numbered, AddSystem, Registered, SystemIds
  <2>4. OwnedSystems'
    BY <1>1, <1>3, <1>10, <2>0 DEF Add, TypeOK, Creator, OwnedSystems, System, Makers, AddSystem
  <2>5. OwnedRecords' /\ OwnedRoles'
    BY <1>1, <1>3, <1>10 DEF Add, TypeOK, Creator, OwnedRecords, OwnedRoles
  <2>6. QED
    BY <2>1, <2>2, <2>3, <2>4, <2>5
<1>11. CASE StorageFails(c)
  <2>0. ~Registered(creator[c].id)
    BY <1>11, NobodyElse DEF StorageFails
  <2>1. OneRow'
    BY <1>1, <1>3, <1>11, <2>0 DEF StorageFails, TypeOK, Creator, OneRow
  <2>2. HandedOut'
    BY <1>1, <1>3, <1>11 DEF StorageFails, TypeOK, Creator, OneRow, HandedOut, Numbered
  <2>3. InPlace'
    BY <1>1, <1>3, <1>11, <2>0 DEF StorageFails, TypeOK, Creator, OneRow, InPlace, HandedOut, Numbered, AddSystem, Registered, SystemIds
  <2>4. OwnedSystems'
    BY <1>1, <1>3, <1>11, <2>0 DEF StorageFails, TypeOK, Creator, OwnedSystems, System, Makers, AddSystem
  <2>5. OwnedRecords' /\ OwnedRoles'
    BY <1>1, <1>3, <1>11 DEF StorageFails, TypeOK, Creator, OwnedRecords, OwnedRoles
  <2>6. QED
    BY <2>1, <2>2, <2>3, <2>4, <2>5
<1>12. CASE GetRecord(c)
  <2>0. \A m \in records : m.id # creator[c].id
    BY <1>1, <1>12 DEF GetRecord, TypeOK, OwnedRecords, HandedOut, Numbered
  <2>1. OneRow'
    BY <1>1, <1>3, <1>12 DEF GetRecord, TypeOK, Creator, OneRow
  <2>2. HandedOut'
    BY <1>1, <1>3, <1>12 DEF GetRecord, TypeOK, Creator, OneRow, HandedOut, Numbered
  <2>3. InPlace'
    BY <1>1, <1>3, <1>12, <2>0 DEF GetRecord, TypeOK, Creator, OneRow, InPlace, HandedOut, Numbered
  <2>4. OwnedSystems'
    BY <1>1, <1>3, <1>12 DEF GetRecord, TypeOK, Creator, OwnedSystems, System, Makers
  <2>5. OwnedRecords' /\ OwnedRoles'
    BY <1>1, <1>3, <1>12 DEF GetRecord, TypeOK, Creator, OwnedRecords, OwnedRoles
  <2>6. QED
    BY <2>1, <2>2, <2>3, <2>4, <2>5
<1>13. CASE AddRecord(c)
  <2>1. OneRow'
    BY <1>1, <1>3, <1>13 DEF AddRecord, TypeOK, Creator, OneRow
  <2>2. HandedOut'
    BY <1>1, <1>3, <1>13 DEF AddRecord, TypeOK, Creator, OneRow, HandedOut, Numbered
  <2>3. InPlace'
    BY <1>1, <1>3, <1>13 DEF AddRecord, TypeOK, Creator, OneRow, InPlace, HandedOut, Numbered
  <2>4. OwnedSystems'
    BY <1>1, <1>3, <1>13 DEF AddRecord, TypeOK, Creator, OwnedSystems, System, Makers
  <2>5. OwnedRecords' /\ OwnedRoles'
    BY <1>1, <1>3, <1>13 DEF AddRecord, TypeOK, Creator, OwnedRecords, OwnedRoles
  <2>6. QED
    BY <2>1, <2>2, <2>3, <2>4, <2>5
<1>14. CASE Undo(c)
  <2>1. OneRow'
    BY <1>1, <1>3, <1>14 DEF Undo, TypeOK, Creator, OneRow
  <2>2. HandedOut'
    BY <1>1, <1>3, <1>14 DEF Undo, TypeOK, Creator, OneRow, HandedOut, Numbered
  <2>3. InPlace'
    BY <1>1, <1>3, <1>14 DEF Undo, TypeOK, Creator, OneRow, InPlace, HandedOut, Numbered
  <2>4. OwnedSystems'
    BY <1>1, <1>3, <1>14 DEF Undo, TypeOK, Creator, OneRow, OwnedSystems, System, Makers
  <2>5. OwnedRecords' /\ OwnedRoles'
    BY <1>1, <1>3, <1>14 DEF Undo, TypeOK, Creator, OwnedRecords, OwnedRoles
  <2>6. QED
    BY <2>1, <2>2, <2>3, <2>4, <2>5
<1>15. CASE UndoFails(c)
  <2>1. OneRow'
    BY <1>1, <1>3, <1>15 DEF UndoFails, TypeOK, Creator, OneRow
  <2>2. HandedOut'
    BY <1>1, <1>3, <1>15 DEF UndoFails, TypeOK, Creator, OneRow, HandedOut, Numbered
  <2>3. InPlace'
    BY <1>1, <1>3, <1>15 DEF UndoFails, TypeOK, Creator, OneRow, InPlace, HandedOut, Numbered
  <2>4. OwnedSystems'
    BY <1>1, <1>3, <1>15 DEF UndoFails, TypeOK, Creator, OwnedSystems, System, Makers
  <2>5. OwnedRecords' /\ OwnedRoles'
    BY <1>1, <1>3, <1>15 DEF UndoFails, TypeOK, Creator, OwnedRecords, OwnedRoles
  <2>6. QED
    BY <2>1, <2>2, <2>3, <2>4, <2>5
<1>16. CASE GiveRole(c)
  <2>1. OneRow'
    BY <1>1, <1>3, <1>16 DEF GiveRole, TypeOK, Creator, OneRow
  <2>2. HandedOut'
    BY <1>1, <1>3, <1>16 DEF GiveRole, TypeOK, Creator, OneRow, HandedOut, Numbered
  <2>3. InPlace'
    BY <1>1, <1>3, <1>16 DEF GiveRole, TypeOK, Creator, OneRow, InPlace, HandedOut, Numbered
  <2>4. OwnedSystems'
    BY <1>1, <1>3, <1>16 DEF GiveRole, TypeOK, Creator, OwnedSystems, System, Makers
  <2>5. OwnedRecords' /\ OwnedRoles'
    BY <1>1, <1>3, <1>16 DEF GiveRole, TypeOK, Creator, OwnedRecords, OwnedRoles
  <2>6. QED
    BY <2>1, <2>2, <2>3, <2>4, <2>5
<1>17. CASE RoleFails(c)
  <2>1. OneRow'
    BY <1>1, <1>3, <1>17 DEF RoleFails, TypeOK, Creator, OneRow
  <2>2. HandedOut'
    BY <1>1, <1>3, <1>17 DEF RoleFails, TypeOK, Creator, OneRow, HandedOut, Numbered
  <2>3. InPlace'
    BY <1>1, <1>3, <1>17 DEF RoleFails, TypeOK, Creator, OneRow, InPlace, HandedOut, Numbered
  <2>4. OwnedSystems'
    BY <1>1, <1>3, <1>17 DEF RoleFails, TypeOK, Creator, OwnedSystems, System, Makers
  <2>5. OwnedRecords' /\ OwnedRoles'
    BY <1>1, <1>3, <1>17 DEF RoleFails, TypeOK, Creator, OwnedRecords, OwnedRoles
  <2>6. QED
    BY <2>1, <2>2, <2>3, <2>4, <2>5
<1>18. ~(PickNothing(c) \/ ScanStorages(c) \/ ScanDirs(c) \/ Insert(c)
        \/ Resave(c) \/ UpdatePick(c) \/ UpdateWrite(c))
  <2>1. ~PickNothing(c)
    BY <1>1, SeedAssumption DEF PickNothing, OneRow
  <2>2. ~ScanStorages(c)
    BY <1>1 DEF ScanStorages, OneRow
  <2>3. ~ScanDirs(c)
    BY <1>1 DEF ScanDirs, OneRow
  <2>4. ~Insert(c)
    BY <1>1 DEF Insert, OneRow
  <2>5. ~Resave(c)
    BY <1>1 DEF Resave, OneRow
  <2>6. ~UpdatePick(c)
    BY <1>1 DEF UpdatePick, OneRow
  <2>7. ~UpdateWrite(c)
    BY <1>1 DEF UpdateWrite, OneRow
  <2>8. QED
    BY <2>1, <2>2, <2>3, <2>4, <2>5, <2>6, <2>7
<1>19. CASE RecordFails(c)
  <2>1. OneRow'
    BY <1>1, <1>3, <1>19 DEF RecordFails, TypeOK, Creator, OneRow
  <2>2. HandedOut'
    BY <1>1, <1>3, <1>19 DEF RecordFails, TypeOK, Creator, OneRow, HandedOut, Numbered
  <2>3. InPlace'
    BY <1>1, <1>3, <1>19 DEF RecordFails, TypeOK, Creator, OneRow, InPlace, HandedOut, Numbered
  <2>4. OwnedSystems'
    BY <1>1, <1>3, <1>19 DEF RecordFails, TypeOK, Creator, OwnedSystems, System, Makers
  <2>5. OwnedRecords' /\ OwnedRoles'
    BY <1>1, <1>3, <1>19 DEF RecordFails, TypeOK, Creator, OwnedRecords, OwnedRoles
  <2>6. QED
    BY <2>1, <2>2, <2>3, <2>4, <2>5
<1>20. QED
  BY Zenon, <1>4, <1>5, <1>6, <1>7, <1>8, <1>9, <1>10, <1>11, <1>12, <1>13, <1>14, <1>15, <1>16, <1>17, <1>18, <1>19 DEF Create

LEMMA IInvNext ==
  ASSUME Undisturbed, IInv, TypeOK', [Next]_vars
  PROVE  IInv'
<1>1. ASSUME NEW c \in Creators, Create(c) PROVE IInv'
  BY <1>1, IInvCreate
<1>2. CASE UNCHANGED vars
  BY <1>2 DEF vars, IInv, TypeOK, OneRow, HandedOut, Numbered, OwnedSystems, OwnedRecords,
     OwnedRoles, InPlace
<1>3. QED
  BY <1>1, <1>2 DEF Next, Undisturbed

LEMMA IInvHolds == ASSUME Undisturbed PROVE Spec => []IInv
<1>1. Init => IInv
  BY IInvInit
<1>2. IInv /\ TypeOK' /\ [Next]_vars => IInv'
  BY IInvNext
<1>3. QED
  BY <1>1, <1>2, TypeCorrect, PTL DEF Spec

(* next_id never hands one number to two calls: the row lock is enough     *)
(* while nothing resets the counter.                                       *)
THEOREM IdsAreDistinct == ASSUME Undisturbed PROVE Spec => []DistinctIds
<1>1. IInv => DistinctIds
  BY DEF IInv, HandedOut, DistinctIds, Holds, Numbered
<1>2. QED
  BY <1>1, IInvHolds, PTL

(* A project that create returned stays complete and its creator's alone,  *)
(* whatever other calls do and whichever of their remote calls fail.       *)
THEOREM CreatedStaysWhole == ASSUME Undisturbed PROVE Spec => []CreatedIsWhole
<1>1. ASSUME IInv PROVE CreatedIsWhole
  <2>1. SUFFICES ASSUME NEW c \in Creators, creator[c].pc = "done"
                 PROVE  LET n == creator[c].id IN
                        /\ n \in dirs
                        /\ {s \in systems : s.id = n} = {[id |-> n, by |-> c]}
                        /\ {m \in records : m.id = n} = {[id |-> n, owner |-> c]}
                        /\ {a \in admins : a.id = n} = {[id |-> n, by |-> c]}
    BY DEF CreatedIsWhole, At
  <2> DEFINE n == creator[c].id
  <2>2. \A d \in Creators : Numbered(d) /\ creator[d].id = n => d = c
    BY <1>1, <2>1 DEF IInv, HandedOut, Numbered
  <2>3. \A s \in systems : s.id = n => s = [id |-> n, by |-> c]
    BY <1>1, <2>2 DEF IInv, OwnedSystems, Numbered, TypeOK, System
  <2>4. \A m \in records : m.id = n => m = [id |-> n, owner |-> c]
    BY <1>1, <2>2 DEF IInv, OwnedRecords, Numbered, TypeOK
  <2>5. \A a \in admins : a.id = n => a = [id |-> n, by |-> c]
    BY <1>1, <2>2 DEF IInv, OwnedRoles, Numbered, TypeOK
  <2>6. /\ n \in dirs /\ [id |-> n, by |-> c] \in systems
        /\ [id |-> n, owner |-> c] \in records /\ [id |-> n, by |-> c] \in admins
    BY <1>1, <2>1 DEF IInv, InPlace
  <2> HIDE DEF n
  <2>7. /\ n \in dirs
        /\ {s \in systems : s.id = n} = {[id |-> n, by |-> c]}
        /\ {m \in records : m.id = n} = {[id |-> n, owner |-> c]}
        /\ {a \in admins : a.id = n} = {[id |-> n, by |-> c]}
    BY <2>3, <2>4, <2>5, <2>6
  <2>8. QED
    BY <2>7 DEF n
<1>2. QED
  BY <1>1, IInvHolds, PTL

-----------------------------------------------------------------------------
(* Refinement.                                                             *)

(* Until a call is done, or once it is, its other steps leave the set of   *)
(* answers alone.                                                          *)
LEMMA SameAnswers ==
  ASSUME TypeOK, NEW c \in Creators, NEW r,
         creator' = [creator EXCEPT ![c] = r],
         creator[c].pc # "done", r.pc # "done"
  PROVE  Answered' = Answered
<1>1. \A d \in Creators : d # c => creator'[d] = creator[d]
  BY DEF TypeOK
<1>2. creator'[c] = r
  BY DEF TypeOK
<1>3. {d \in Creators : At(d, "done")}' = {d \in Creators : At(d, "done")}
  BY <1>1, <1>2 DEF At
<1>4. \A d \in Creators : At(d, "done") => creator'[d] = creator[d]
  BY <1>1 DEF At
<1>5. QED
  BY <1>3, <1>4 DEF Answered

LEMMA RegistryStep ==
  ASSUME IInv, IInv', NEW c \in Creators, Create(c)
  PROVE  [Registry!Next]_<<dirs, systems, Answered>>
<1> USE DEF At, Goto, Fail, Save, tenant
<1> DEFINE n == creator[c].id
<1>1. TypeOK /\ creator[c] \in Creator /\ n \in Nat
  BY DEF IInv, TypeOK, Creator, Ids
<1>2. ASSUME dirs' = dirs, systems' = systems, creator[c].pc # "done",
             NEW r, creator' = [creator EXCEPT ![c] = r], r.pc # "done"
      PROVE  UNCHANGED <<dirs, systems, Answered>>
  BY <1>1, <1>2, SameAnswers
<1>3. CASE Start(c)
  <2>1. creator' = [creator EXCEPT ![c] = creator'[c]] /\ creator'[c].pc # "done"
    BY <1>1, <1>3 DEF Start, TypeOK, Creator
  <2>2. dirs' = dirs /\ systems' = systems /\ creator[c].pc # "done"
    BY <1>3 DEF Start
  <2>3. QED
    BY <1>2, <2>1, <2>2
<1>4. CASE Pick(c)
  <2>1. creator' = [creator EXCEPT ![c] = creator'[c]] /\ creator'[c].pc # "done"
    BY <1>1, <1>4 DEF Pick, TypeOK, Creator
  <2>2. dirs' = dirs /\ systems' = systems /\ creator[c].pc # "done"
    BY <1>4 DEF Pick
  <2>3. QED
    BY <1>2, <2>1, <2>2
<1>5. CASE Bump(c)
  <2>1. creator' = [creator EXCEPT ![c] = creator'[c]] /\ creator'[c].pc # "done"
    BY <1>1, <1>5 DEF Bump, TypeOK, Creator
  <2>2. dirs' = dirs /\ systems' = systems /\ creator[c].pc # "done"
    BY <1>5 DEF Bump
  <2>3. QED
    BY <1>2, <2>1, <2>2
<1>6. CASE MkdirFails(c)
  <2>1. creator' = [creator EXCEPT ![c] = creator'[c]] /\ creator'[c].pc # "done"
    BY <1>1, <1>6 DEF MkdirFails, TypeOK, Creator
  <2>2. dirs' = dirs /\ systems' = systems /\ creator[c].pc # "done"
    BY <1>6 DEF MkdirFails
  <2>3. QED
    BY <1>2, <2>1, <2>2
<1>7. CASE LookUp(c)
  <2>1. creator' = [creator EXCEPT ![c] = creator'[c]] /\ creator'[c].pc # "done"
    BY <1>1, <1>7 DEF LookUp, TypeOK, Creator
  <2>2. dirs' = dirs /\ systems' = systems /\ creator[c].pc # "done"
    BY <1>7 DEF LookUp
  <2>3. QED
    BY <1>2, <2>1, <2>2
<1>8. CASE GetRecord(c)
  <2>1. creator' = [creator EXCEPT ![c] = creator'[c]] /\ creator'[c].pc # "done"
    BY <1>1, <1>8 DEF GetRecord, TypeOK, Creator
  <2>2. dirs' = dirs /\ systems' = systems /\ creator[c].pc # "done"
    BY <1>8 DEF GetRecord
  <2>3. QED
    BY <1>2, <2>1, <2>2
<1>9. CASE AddRecord(c)
  <2>1. creator' = [creator EXCEPT ![c] = creator'[c]] /\ creator'[c].pc # "done"
    BY <1>1, <1>9 DEF AddRecord, TypeOK, Creator
  <2>2. dirs' = dirs /\ systems' = systems /\ creator[c].pc # "done"
    BY <1>9 DEF AddRecord
  <2>3. QED
    BY <1>2, <2>1, <2>2
<1>10. CASE UndoFails(c)
  <2>1. creator' = [creator EXCEPT ![c] = creator'[c]] /\ creator'[c].pc # "done"
    BY <1>1, <1>10 DEF UndoFails, TypeOK, Creator
  <2>2. dirs' = dirs /\ systems' = systems /\ creator[c].pc # "done"
    BY <1>10 DEF UndoFails
  <2>3. QED
    BY <1>2, <2>1, <2>2
<1>11. CASE RoleFails(c)
  <2>1. creator' = [creator EXCEPT ![c] = creator'[c]] /\ creator'[c].pc # "done"
    BY <1>1, <1>11 DEF RoleFails, TypeOK, Creator
  <2>2. dirs' = dirs /\ systems' = systems /\ creator[c].pc # "done"
    BY <1>11 DEF RoleFails
  <2>3. QED
    BY <1>2, <2>1, <2>2
<1>12. CASE PickNothing(c)
  <2>1. creator' = [creator EXCEPT ![c] = creator'[c]] /\ creator'[c].pc # "done"
    BY <1>1, <1>12 DEF PickNothing, TypeOK, Creator
  <2>2. dirs' = dirs /\ systems' = systems /\ creator[c].pc # "done"
    BY <1>12 DEF PickNothing
  <2>3. QED
    BY <1>2, <2>1, <2>2
<1>13. CASE ScanStorages(c)
  <2>1. creator' = [creator EXCEPT ![c] = creator'[c]] /\ creator'[c].pc # "done"
    BY <1>1, <1>13 DEF ScanStorages, TypeOK, Creator
  <2>2. dirs' = dirs /\ systems' = systems /\ creator[c].pc # "done"
    BY <1>13 DEF ScanStorages
  <2>3. QED
    BY <1>2, <2>1, <2>2
<1>14. CASE ScanDirs(c)
  <2>1. creator' = [creator EXCEPT ![c] = creator'[c]] /\ creator'[c].pc # "done"
    BY <1>1, <1>14 DEF ScanDirs, TypeOK, Creator
  <2>2. dirs' = dirs /\ systems' = systems /\ creator[c].pc # "done"
    BY <1>14 DEF ScanDirs
  <2>3. QED
    BY <1>2, <2>1, <2>2
<1>15. CASE Insert(c)
  <2>1. creator' = [creator EXCEPT ![c] = creator'[c]] /\ creator'[c].pc # "done"
    BY <1>1, <1>15 DEF Insert, TypeOK, Creator
  <2>2. dirs' = dirs /\ systems' = systems /\ creator[c].pc # "done"
    BY <1>15 DEF Insert
  <2>3. QED
    BY <1>2, <2>1, <2>2
<1>16. CASE Resave(c)
  <2>1. creator' = [creator EXCEPT ![c] = creator'[c]] /\ creator'[c].pc # "done"
    BY <1>1, <1>16 DEF Resave, TypeOK, Creator
  <2>2. dirs' = dirs /\ systems' = systems /\ creator[c].pc # "done"
    BY <1>16 DEF Resave
  <2>3. QED
    BY <1>2, <2>1, <2>2
<1>17. CASE UpdatePick(c)
  <2>1. creator' = [creator EXCEPT ![c] = creator'[c]] /\ creator'[c].pc # "done"
    BY <1>1, <1>17 DEF UpdatePick, TypeOK, Creator
  <2>2. dirs' = dirs /\ systems' = systems /\ creator[c].pc # "done"
    BY <1>17 DEF UpdatePick
  <2>3. QED
    BY <1>2, <2>1, <2>2
<1>18. CASE UpdateWrite(c)
  <2>1. creator' = [creator EXCEPT ![c] = creator'[c]] /\ creator'[c].pc # "done"
    BY <1>1, <1>18 DEF UpdateWrite, TypeOK, Creator
  <2>2. dirs' = dirs /\ systems' = systems /\ creator[c].pc # "done"
    BY <1>18 DEF UpdateWrite
  <2>3. QED
    BY <1>2, <2>1, <2>2
<1>19. CASE Mkdir(c)
  <2>1. creator' = [creator EXCEPT ![c] = creator'[c]] /\ creator'[c].pc # "done"
    BY <1>1, <1>19 DEF Mkdir, TypeOK, Creator
  <2>2. creator[c].pc # "done"
    BY <1>19 DEF Mkdir
  <2>3. Answered' = Answered
    BY <1>1, <2>1, <2>2, SameAnswers
  <2>4. Registry!MakeDir(n) /\ n \in Registry!InPlay
    BY <1>19, <2>3 DEF Mkdir, Registry!MakeDir, Registry!InPlay
  <2>5. QED
    BY <2>4 DEF Registry!Next
<1>20. CASE Add(c)
  <2>1. creator' = [creator EXCEPT ![c] = creator'[c]] /\ creator'[c].pc # "done"
    BY <1>1, <1>20 DEF Add, TypeOK, Creator
  <2>2. creator[c].pc # "done"
    BY <1>20 DEF Add
  <2>3. Answered' = Answered
    BY <1>1, <2>1, <2>2, SameAnswers
  <2>4. ~Registry!Registered(n)
    <3>1. ~Registered(n)
      BY <1>20, NobodyElse DEF Add
    <3>2. QED
      BY <3>1 DEF Registry!Registered, Registered, SystemIds
  <2>5. systems' = systems \cup {[id |-> n, by |-> c]}
    BY <1>20, <2>4 DEF Add, AddSystem, Registry!Registered
  <2>6. n \in dirs
    BY <1>20 DEF Add, IInv, InPlace
  <2>7. Registry!Register(c, n) /\ n \in Registry!InPlay
    BY <1>20, <2>3, <2>4, <2>5, <2>6 DEF Add, Registry!Register, Registry!InPlay
  <2>8. QED
    BY <2>7 DEF Registry!Next
<1>21. CASE StorageFails(c)
  <2>1. creator' = [creator EXCEPT ![c] = creator'[c]] /\ creator'[c].pc # "done"
    BY <1>1, <1>21 DEF StorageFails, TypeOK, Creator
  <2>2. creator[c].pc # "done"
    BY <1>21 DEF StorageFails
  <2>3. Answered' = Answered
    BY <1>1, <2>1, <2>2, SameAnswers
  <2>4. ~Registry!Registered(n)
    <3>1. ~Registered(n)
      BY <1>21, NobodyElse DEF StorageFails
    <3>2. QED
      BY <3>1 DEF Registry!Registered, Registered, SystemIds
  <2>5. CASE systems' = systems
    BY <1>21, <2>3, <2>5 DEF StorageFails
  <2>6. CASE AddSystem(c)
    <3>1. systems' = systems \cup {[id |-> n, by |-> c]}
      BY <2>4, <2>6 DEF AddSystem, Registry!Registered
    <3>2. Registry!Register(c, n) /\ n \in Registry!InPlay
      BY <1>21, <2>3, <2>4, <3>1 DEF StorageFails, Registry!Register, Registry!InPlay
    <3>3. QED
      BY <3>2 DEF Registry!Next
  <2>7. QED
    BY <1>21, <2>5, <2>6 DEF StorageFails
<1>22. CASE Undo(c)
  <2>1. creator' = [creator EXCEPT ![c] = creator'[c]] /\ creator'[c].pc # "done"
    BY <1>1, <1>22 DEF Undo, TypeOK, Creator
  <2>2. creator[c].pc # "done"
    BY <1>22 DEF Undo
  <2>3. Answered' = Answered
    BY <1>1, <2>1, <2>2, SameAnswers
  <2>4. \A s \in systems : s.id = n => s.by = c
    BY <1>22 DEF Undo, IInv, OwnedSystems, HandedOut, Numbered
  <2>5. \A a \in Answered : a.id # n
    BY <1>22 DEF Undo, Answered, IInv, HandedOut, Numbered
  <2>6. CASE n \in dirs
    <3>1. Registry!Abandon(c, n) /\ n \in Registry!InPlay
      BY <1>22, <2>3, <2>4, <2>5, <2>6 DEF Undo, Registry!Abandon, Registry!InPlay
    <3>2. QED
      BY <3>1 DEF Registry!Next
  <2>7. CASE n \notin dirs
    BY <1>22, <2>3, <2>7 DEF Undo
  <2>8. QED
    BY <2>6, <2>7
<1>23. CASE GiveRole(c)
  <2>1. \A d \in Creators : creator'[d].id = creator[d].id
    BY <1>1, <1>23 DEF GiveRole, TypeOK, Creator
  <2>2. \A d \in Creators : At(d, "done")' <=> At(d, "done") \/ d = c
    BY <1>1, <1>23 DEF GiveRole, TypeOK, Creator
  <2>3. Answered' = Answered \cup {[id |-> n, by |-> c]}
    <3>1. {d \in Creators : At(d, "done")}' = {d \in Creators : At(d, "done")} \cup {c}
      BY <2>2
    <3>2. QED
      BY <2>1, <3>1 DEF Answered
  <2>4. [id |-> n, by |-> c] \in systems /\ n \in dirs
    BY <1>23 DEF GiveRole, IInv, InPlace
  <2>5. Registry!Answer(c, n) /\ n \in Registry!InPlay
    BY <1>23, <2>3, <2>4 DEF GiveRole, Registry!Answer, Registry!InPlay
  <2>6. QED
    BY <2>5 DEF Registry!Next
<1>24. CASE RecordFails(c)
  <2>1. creator' = [creator EXCEPT ![c] = creator'[c]] /\ creator'[c].pc # "done"
    BY <1>1, <1>24 DEF RecordFails, TypeOK, Creator
  <2>2. dirs' = dirs /\ systems' = systems /\ creator[c].pc # "done"
    BY <1>24 DEF RecordFails
  <2>3. QED
    BY <1>2, <2>1, <2>2
<1>25. QED
  BY Zenon, <1>3, <1>4, <1>5, <1>6, <1>7, <1>8, <1>9, <1>10, <1>11, <1>12, <1>13, <1>14, <1>15, <1>16, <1>17, <1>18, <1>19, <1>20, <1>21, <1>22, <1>23, <1>24 DEF Create

(* Seen from the tenant, the portal registers a system once and never      *)
(* takes the directory of somebody's project away.                         *)
THEOREM PortalKeepsRegistry == ASSUME Undisturbed PROVE Spec => RegistryKept
<1>1. Init => Registry!Init
  BY ForeignAssumption DEF Init, Registry!Init, Answered, At, Undisturbed
<1>2. ASSUME IInv, IInv', [Next]_vars
      PROVE  [Registry!Next]_<<dirs, systems, Answered>>
  <2>1. ASSUME NEW c \in Creators, Create(c)
        PROVE  [Registry!Next]_<<dirs, systems, Answered>>
    BY <1>2, <2>1, RegistryStep
  <2>2. CASE UNCHANGED vars
    BY <2>2 DEF vars, Answered, At
  <2>3. QED
    BY <1>2, <2>1, <2>2 DEF Next, Undisturbed
<1>3. QED
  BY <1>1, <1>2, IInvHolds, PTL DEF Spec, RegistryKept, Registry!Spec, Registry!vars
-----------------------------------------------------------------------------
(* One after another.  What was made elsewhere and what failed half-way    *)
(* may be in the way here, but no call meets another.                      *)

Busy(c) == creator[c].pc \notin {"idle", "done", "failed"}
Running(m) == command[m].pc \notin {"idle", "done"}

Alone ==
  /\ \A c, d \in Creators : Busy(c) /\ Busy(d) => c = d
  /\ \A m, k \in Commands : Running(m) /\ Running(k) => m = k
  /\ \A c \in Creators, m \in Commands : ~(Busy(c) /\ Running(m))

(* No system has a number above n. *)
Covers(n) == \A k \in SystemIds : k <= n

(* What the recovery has found reaches the counter, and from there the     *)
(* second Project.create.                                                  *)
RecoveryOK(c) ==
  /\ creator[c].pc \in {"idle", "seedStorages", "seedDirs", "insert", "resave"}
       => creator[c].tries = 0
  /\ creator[c].pc \in {"scanDirs", "updatePick", "updateWrite"} => Covers(creator[c].found)
  /\ At(c, "pick") /\ creator[c].tries = 1 => newest \in Rows /\ Covers(value[newest])
  /\ At(c, "bump") /\ creator[c].tries = 1 => Covers(value[creator[c].row])
  /\ creator[c].pc \in {"mkdir", "lookup"} /\ creator[c].tries = 2
       => ~Registered(creator[c].id)
  /\ At(c, "undo") /\ creator[c].exists => creator[c].tries # 2

(* A call that got past the registration has a registered number. *)
InUse(c) ==
  creator[c].pc \in {"getRecord", "addRecord", "role", "done"} => Registered(creator[c].id)

CommandOK(m) ==
  /\ command[m].pc \in {"dirs", "pick", "write"} => Covers(command[m].found)
  /\ command[m].pc \in {"pick", "write"} => \A n \in dirs : n <= command[m].found

SerialInv ==
  /\ Alone
  /\ \A c \in Creators : RecoveryOK(c) /\ InUse(c)
  /\ \A m \in Commands : CommandOK(m)

(* What the scans find is no smaller than what they have looked at. *)
LEMMA ScansCover ==
  ASSUME TypeInv, NEW f \in Nat, \E b \in Nat : BoundedBy(b) /\ f <= b
  PROVE  /\ Covers(Largest(SystemIds, f))
         /\ \A n \in dirs \cup {f} : n <= Largest(dirs, f)
         /\ Largest(SystemIds, f) \in Nat /\ Largest(dirs, f) \in Nat
<1>1. PICK b \in Nat : BoundedBy(b) /\ f <= b
  OBVIOUS
<1>2. SystemIds \in SUBSET (0..b) /\ dirs \in SUBSET (0..b) /\ f \in 0..b
  BY <1>1 DEF BoundedBy
<1>3. /\ Largest(SystemIds, f) \in SystemIds \cup {f}
      /\ \A k \in SystemIds \cup {f} : k <= Largest(SystemIds, f)
  BY <1>2, LargestIsLargest
<1>4. /\ Largest(dirs, f) \in dirs \cup {f}
      /\ \A k \in dirs \cup {f} : k <= Largest(dirs, f)
  BY <1>2, LargestIsLargest
<1>5. Largest(SystemIds, f) \in Nat /\ Largest(dirs, f) \in Nat
  <2>1. \A k \in SystemIds \cup dirs \cup {f} : k \in Nat
    BY <1>2
  <2>2. QED
    BY Zenon, <1>3, <1>4, <2>1
<1>6. Covers(Largest(SystemIds, f))
  BY <1>3 DEF Covers
<1>7. QED
  BY <1>4, <1>5, <1>6

LEMMA SerialCreate ==
  ASSUME Serial, TypeInv, SerialInv, NEW c \in Creators, Create(c)
  PROVE  SerialInv'
<1>1. /\ creator \in [Creators -> Creator] /\ creator[c] \in Creator
      /\ value \in [Rows -> Nat] /\ systems \subseteq System /\ SystemIds \subseteq Nat
      /\ RowOK /\ TriesOK
  BY DEF TypeInv, TypeOK, SystemIds, System, Ids
<1>2. /\ UNCHANGED command
      /\ \A d \in Creators : d # c => creator'[d] = creator[d]
  BY <1>1 DEF Create, Start, Pick, PickNothing, Bump, ScanStorages, ScanDirs, Insert,
     Resave, Mkdir, MkdirFails, LookUp, Add, StorageFails, GetRecord, AddRecord, RecordFails, Undo,
     UndoFails, GiveRole, RoleFails, UpdatePick, UpdateWrite, Goto, Fail
<1>3. /\ \A d \in Creators : d # c => ~Busy(d)
      /\ \A m \in Commands : ~Running(m)
  <2>1. CASE Start(c)
    BY <2>1 DEF Start, Quiet, Busy, Running
  <2>2. CASE ~Start(c)
    <3>1. Busy(c)
      BY <2>2 DEF Create, Pick, PickNothing, Bump, ScanStorages, ScanDirs, Insert,
         Resave, Mkdir, MkdirFails, LookUp, Add, StorageFails, GetRecord, AddRecord,
         RecordFails, Undo, UndoFails, GiveRole, RoleFails, UpdatePick, UpdateWrite, At, Busy
    <3>2. QED
      BY <3>1 DEF SerialInv, Alone
  <2>3. QED
    BY <2>1, <2>2
<1>4. Alone'
  BY <1>2, <1>3 DEF Alone, Busy, Running
<1>5. systems' = systems \/ SystemIds' = SystemIds \cup {creator[c].id}
  <2>1. CASE Add(c) \/ StorageFails(c)
    <3>1. systems' = systems \/ AddSystem(c)
      BY <2>1 DEF Add, StorageFails
    <3>2. ASSUME AddSystem(c) PROVE SystemIds' = SystemIds \cup {creator[c].id}
      <4> DEFINE n == creator[c].id
                 kept == {s \in systems : s.id # n}
      <4>1. systems' = kept \cup {[id |-> n, by |-> c]}
        BY <3>2 DEF AddSystem
      <4>2. \A k : k \in SystemIds' <=> (\E s \in kept : s.id = k) \/ k = n
        <5>1. \A k : k \in SystemIds' <=> \E s \in systems' : k = s.id
          BY DEF SystemIds
        <5>2. [id |-> n, by |-> c].id = n
          OBVIOUS
        <5> HIDE DEF n, kept
        <5>3. QED
          BY <4>1, <5>1, <5>2
      <4>3. \A k : k \in SystemIds <=> \E s \in systems : k = s.id
        BY DEF SystemIds
      <4>4. \A k : k \in SystemIds' <=> k \in SystemIds \/ k = n
        BY <4>2, <4>3
      <4>5. QED
        BY <4>4
    <3>3. QED
      BY <3>1, <3>2
  <2>2. CASE ~(Add(c) \/ StorageFails(c))
    BY <2>2 DEF Create, Start, Pick, PickNothing, Bump, ScanStorages, ScanDirs, Insert,
       Resave, Mkdir, MkdirFails, LookUp, GetRecord, AddRecord, RecordFails, Undo, UndoFails,
       GiveRole, RoleFails, UpdatePick, UpdateWrite, tenant
  <2>3. QED
    BY <2>1, <2>2
<1>6. SystemIds \subseteq SystemIds' /\ (systems' = systems => SystemIds' = SystemIds)
  BY <1>5 DEF SystemIds
<1>7. \A d \in Creators : d # c => RecoveryOK(d)' /\ InUse(d)'
  BY <1>2, <1>3, <1>6 DEF SerialInv, RecoveryOK, InUse, Registered, Busy, At
<1>8. \A m \in Commands : CommandOK(m)'
  BY <1>2, <1>3 DEF CommandOK, Running
<1>9. RecoveryOK(c) /\ InUse(c)
  BY DEF SerialInv
<1>10. RecoveryOK(c)'
  <2>1. ASSUME creator'[c].pc \in {"add", "getRecord", "addRecord", "role", "done",
                                   "failed", "scanStorages"}
        PROVE  RecoveryOK(c)'
    BY <2>1 DEF RecoveryOK, At
  <2>2. CASE Start(c)
    BY <1>1, <1>9, <2>2 DEF Start, Goto, At, RecoveryOK, Creator
  <2>3. CASE Pick(c)
    <3>1. /\ creator'[c].pc = "bump" /\ creator'[c].row = newest
          /\ creator'[c].tries = creator[c].tries /\ value' = value
          /\ SystemIds' = SystemIds /\ At(c, "pick")
      BY <1>1, <1>6, <2>3 DEF Pick, tenant, Creator
    <3>2. QED
      BY <1>9, <3>1 DEF RecoveryOK, At, Covers
  <2>4. CASE PickNothing(c)
    <3>1. newest \notin Rows
      BY <2>4, SeedAssumption DEF PickNothing, Rows
    <3>2. creator[c].tries = 0
      <4>1. creator[c].tries \in 0..1
        BY <1>1, <2>4 DEF PickNothing, TriesOK, At
      <4>2. QED
        BY <1>9, <2>4, <3>1, <4>1 DEF RecoveryOK, PickNothing
    <3>3. creator'[c].pc = "seedStorages" /\ creator'[c].tries = 0
      BY <1>1, <2>4, <3>2 DEF PickNothing, Goto, Creator
    <3>4. QED
      BY <3>3 DEF RecoveryOK, At
  <2>5. CASE Bump(c)
    <3> DEFINE r == creator[c].row
    <3>1. /\ r \in Rows /\ value[r] \in Nat /\ creator[c].tries \in 0..1
          /\ creator[c].pc = "bump"
      BY <1>1, <2>5 DEF Bump, RowOK, TriesOK, At
    <3>2. /\ creator'[c].pc = "mkdir" /\ creator'[c].id = value[r] + 1
          /\ creator'[c].tries = creator[c].tries + 1 /\ SystemIds' = SystemIds
      BY <1>1, <1>6, <2>5 DEF Bump, tenant, Creator
    <3>3. creator[c].tries = 1 => ~Registered(value[r] + 1)
      <4>1. creator[c].tries = 1 => Covers(value[r])
        BY <1>9, <3>1 DEF RecoveryOK, At
      <4>2. QED
        BY <1>1, <3>1, <4>1 DEF Covers, Registered
    <3>4. (creator[c].tries = 2 => ~Registered(creator[c].id))'
      BY <3>1, <3>2, <3>3 DEF Registered
    <3>5. QED
      BY <3>2, <3>4 DEF RecoveryOK, At
  <2>6. CASE ScanStorages(c) /\ At(c, "seedStorages")
    <3>1. creator'[c].pc = "seedDirs" /\ creator'[c].tries = creator[c].tries
      BY <1>1, <2>6 DEF ScanStorages, Creator
    <3>2. QED
      BY <1>9, <2>6, <3>1 DEF RecoveryOK, At
  <2>7. CASE ScanStorages(c) /\ ~At(c, "seedStorages")
    <3>1. /\ creator'[c].pc = "scanDirs" /\ creator'[c].found = Largest(SystemIds, 0)
          /\ SystemIds' = SystemIds
      BY <1>1, <1>6, <2>7 DEF ScanStorages, Creator, tenant
    <3>2. Covers(Largest(SystemIds, 0))
      <4>1. \E b \in Nat : BoundedBy(b) /\ 0 <= b
        BY DEF TypeInv
      <4>2. QED
        BY <4>1, ScansCover
    <3>3. QED
      BY <3>1, <3>2 DEF RecoveryOK, At, Covers
  <2>8. CASE ScanDirs(c) /\ At(c, "seedDirs")
    <3>1. creator'[c].pc = "insert" /\ creator'[c].tries = creator[c].tries
      BY <1>1, <2>8 DEF ScanDirs, Creator
    <3>2. QED
      BY <1>9, <2>8, <3>1 DEF RecoveryOK, At
  <2>9. CASE ScanDirs(c) /\ ~At(c, "seedDirs")
    <3> DEFINE f == creator[c].found
    <3>1. /\ creator'[c].pc = "updatePick" /\ creator'[c].found = Largest(dirs, f)
          /\ SystemIds' = SystemIds /\ creator[c].pc = "scanDirs" /\ f \in Nat
      BY <1>1, <1>6, <2>9 DEF ScanDirs, Creator, tenant, At
    <3>2. f <= Largest(dirs, f) /\ Largest(dirs, f) \in Nat
      <4>1. \E b \in Nat : BoundedBy(b) /\ f <= b
        BY DEF TypeInv, BoundedBy
      <4>2. QED
        BY <3>1, <4>1, ScansCover
    <3>3. Covers(f)
      BY <1>9, <3>1 DEF RecoveryOK
    <3> DEFINE g == Largest(dirs, f)
    <3>4. Covers(g)
      <4> HIDE DEF g
      <4>1. f <= g /\ g \in Nat /\ f \in Nat
        BY <3>1, <3>2 DEF g
      <4>2. \A k \in SystemIds : k \in Nat /\ k <= f
        BY <1>1, <3>3 DEF Covers
      <4> HIDE DEF f
      <4>3. QED
        BY <4>1, <4>2 DEF Covers
    <3> HIDE DEF g
    <3>5. QED
      BY <3>1, <3>4 DEF RecoveryOK, At, Covers, g
  <2>10. CASE Insert(c)
    <3>1. creator'[c].pc = "resave" /\ creator'[c].tries = creator[c].tries
      BY <1>1, <2>10 DEF Insert, Goto, Creator
    <3>2. QED
      BY <1>9, <2>10, <3>1 DEF RecoveryOK, Insert, At
  <2>11. CASE Resave(c)
    <3>1. /\ creator'[c].pc = "pick" /\ creator'[c].tries = creator[c].tries
          /\ creator[c].tries = 0
      BY <1>1, <1>9, <2>11 DEF Resave, Goto, Creator, RecoveryOK, At
    <3>2. QED
      BY <3>1 DEF RecoveryOK, At
  <2>12. CASE Mkdir(c)
    <3>1. /\ creator'[c].pc = "lookup" /\ creator'[c].id = creator[c].id
          /\ creator'[c].tries = creator[c].tries /\ SystemIds' = SystemIds
          /\ creator[c].pc = "mkdir"
      BY <1>1, <1>6, <2>12 DEF Mkdir, Goto, Creator, At
    <3>2. QED
      BY <1>9, <3>1 DEF RecoveryOK, At, Registered
  <2>13. CASE LookUp(c)
    <3>1. CASE Registered(creator[c].id)
      <4>1. /\ creator'[c].pc = "undo" /\ creator'[c].tries = creator[c].tries
            /\ creator[c].pc = "lookup"
        BY <1>1, <2>13, <3>1 DEF LookUp, Creator, At
      <4>2. QED
        BY <1>9, <3>1, <4>1 DEF RecoveryOK, At
    <3>2. CASE ~Registered(creator[c].id)
      <4>1. creator'[c].pc = "add"
        BY <1>1, <2>13, <3>2 DEF LookUp, Creator
      <4>2. QED
        BY <2>1, <4>1
    <3>3. QED
      BY <3>1, <3>2
  <2>14. CASE StorageFails(c) \/ RecordFails(c)
    <3>1. creator'[c].pc = "undo" /\ creator'[c].exists = FALSE
      BY <1>1, <2>14 DEF StorageFails, RecordFails, Creator
    <3>2. QED
      BY <3>1 DEF RecoveryOK, At
  <2>15. CASE UpdatePick(c)
    <3>1. /\ creator'[c].pc = "updateWrite" /\ creator'[c].found = creator[c].found
          /\ SystemIds' = SystemIds /\ creator[c].pc = "updatePick"
      BY <1>1, <1>6, <2>15 DEF UpdatePick, Creator, tenant, At
    <3>2. QED
      BY <1>9, <3>1 DEF RecoveryOK, At, Covers
  <2>16. CASE UpdateWrite(c)
    <3>1. creator[c].row \in Rows
      BY <1>1, <2>16 DEF UpdateWrite, RowOK, At
    <3>2. /\ creator'[c].pc = "pick" /\ newest' = creator[c].row
          /\ value'[newest'] = creator[c].found
          /\ SystemIds' = SystemIds /\ creator[c].pc = "updateWrite"
      BY <1>1, <1>6, <2>16, <3>1 DEF UpdateWrite, Save, Goto, tenant, At, Creator
    <3>3. QED
      BY <1>9, <3>1, <3>2 DEF RecoveryOK, At, Covers
  <2>17. CASE \/ MkdirFails(c) \/ Add(c) \/ GetRecord(c) \/ AddRecord(c) \/ Undo(c)
              \/ UndoFails(c) \/ GiveRole(c) \/ RoleFails(c)
    <3>1. creator'[c].pc \in {"getRecord", "addRecord", "role", "done", "failed",
                              "scanStorages"}
      BY <1>1, <2>17 DEF MkdirFails, Add, GetRecord, AddRecord, RecordFails, Undo, UndoFails,
         GiveRole, RoleFails, Goto, Fail, Creator
    <3>2. QED
      BY <2>1, <3>1
  <2>18. QED
    BY Zenon, <2>2, <2>3, <2>4, <2>5, <2>6, <2>7, <2>8, <2>9, <2>10, <2>11, <2>12,
       <2>13, <2>14, <2>15, <2>16, <2>17 DEF Create
<1>11. InUse(c)'
  <2>1. CASE Add(c)
    <3>1. /\ creator'[c].id = creator[c].id
          /\ systems' = {s \in systems : s.id # creator[c].id}
                           \cup {[id |-> creator[c].id, by |-> c]}
      BY <1>1, <2>1 DEF Add, AddSystem, Goto, Creator
    <3>2. [id |-> creator[c].id, by |-> c] \in systems'
      BY <3>1
    <3>3. creator[c].id \in SystemIds'
      BY <3>2 DEF SystemIds
    <3>4. QED
      BY <3>1, <3>3 DEF InUse, Registered
  <2>2. CASE GetRecord(c) \/ AddRecord(c) \/ GiveRole(c)
    <3>1. /\ creator'[c].id = creator[c].id
          /\ creator[c].pc \in {"getRecord", "addRecord", "role"}
      BY <1>1, <2>2 DEF GetRecord, AddRecord, GiveRole, Goto, Creator, At
    <3>2. QED
      BY <1>6, <1>9, <3>1 DEF InUse, Registered
  <2>3. CASE ~(Add(c) \/ GetRecord(c) \/ AddRecord(c) \/ GiveRole(c))
    <3>1. creator'[c].pc \notin {"getRecord", "addRecord", "role", "done"}
      BY <1>1, <2>3 DEF Create, Start, Pick, PickNothing, Bump, ScanStorages, ScanDirs,
         Insert, Resave, Mkdir, MkdirFails, LookUp, StorageFails, RecordFails, Undo, UndoFails,
         RoleFails, UpdatePick, UpdateWrite, Goto, Fail, Creator
    <3>2. QED
      BY <3>1 DEF InUse
  <2>4. QED
    BY <2>1, <2>2, <2>3
<1>12. QED
  BY <1>4, <1>7, <1>8, <1>10, <1>11 DEF SerialInv

LEMMA SerialCommand ==
  ASSUME Serial, TypeInv, SerialInv, NEW m \in Commands, RunCommand(m)
  PROVE  SerialInv'
<1>1. /\ command \in [Commands -> Command] /\ command[m] \in Command
      /\ SystemIds \subseteq Nat /\ dirs \subseteq Nat
  BY DEF TypeInv, TypeOK, SystemIds, System, Ids
<1>2. /\ UNCHANGED <<creator, systems, dirs>>
      /\ \A k \in Commands : k # m => command'[k] = command[k]
  BY <1>1 DEF RunCommand, CommandStorages, CommandDirs, CommandPick, CommandWrite, tenant
<1>3. /\ \A c \in Creators : ~Busy(c)
      /\ \A k \in Commands : k # m => ~Running(k)
  <2>1. CASE CommandStorages(m)
    BY <2>1 DEF CommandStorages, Quiet, Busy, Running
  <2>2. CASE ~CommandStorages(m)
    <3>1. Running(m)
      BY <2>2 DEF RunCommand, CommandDirs, CommandPick, CommandWrite, Running
    <3>2. QED
      BY <3>1 DEF SerialInv, Alone
  <2>3. QED
    BY <2>1, <2>2
<1>4. Alone'
  BY <1>2, <1>3 DEF Alone, Busy, Running
<1>5. SystemIds' = SystemIds
  BY <1>2 DEF SystemIds
<1>6. \A c \in Creators : RecoveryOK(c)' /\ InUse(c)'
  BY <1>2, <1>3, <1>5 DEF SerialInv, RecoveryOK, InUse, Registered, Busy, At
<1>7. \A k \in Commands : k # m => CommandOK(k)'
  BY <1>2, <1>3 DEF CommandOK, Running
<1>8. CommandOK(m)
  BY DEF SerialInv
<1>9. CommandOK(m)'
  <2>1. CASE CommandStorages(m)
    <3>1. command'[m].pc = "dirs" /\ command'[m].found = Largest(SystemIds, 0)
      BY <1>1, <2>1 DEF CommandStorages, Command
    <3>2. Covers(Largest(SystemIds, 0))
      <4>1. \E b \in Nat : BoundedBy(b) /\ 0 <= b
        BY DEF TypeInv
      <4>2. QED
        BY <4>1, ScansCover
    <3>3. QED
      BY <1>5, <3>1, <3>2 DEF CommandOK, Covers
  <2>2. CASE CommandDirs(m)
    <3> DEFINE f == command[m].found
    <3>1. /\ command'[m].pc = "pick" /\ command'[m].found = Largest(dirs, f)
          /\ command[m].pc = "dirs" /\ f \in Nat
      BY <1>1, <2>2 DEF CommandDirs, Command
    <3>2. /\ \A n \in dirs \cup {f} : n <= Largest(dirs, f)
          /\ Largest(dirs, f) \in Nat
      <4>1. \E b \in Nat : BoundedBy(b) /\ f <= b
        BY DEF TypeInv, BoundedBy
      <4>2. QED
        BY <3>1, <4>1, ScansCover
    <3>3. Covers(f)
      BY <1>8, <3>1 DEF CommandOK
    <3>4. Covers(Largest(dirs, f))
      BY <1>1, <3>1, <3>2, <3>3 DEF Covers
    <3>5. QED
      BY <1>2, <1>5, <3>1, <3>2, <3>4 DEF CommandOK, Covers
  <2>3. CASE CommandPick(m)
    <3>1. /\ command'[m].pc = "write" /\ command'[m].found = command[m].found
          /\ command[m].pc = "pick"
      BY <1>1, <2>3 DEF CommandPick, Command
    <3>2. QED
      BY <1>2, <1>5, <1>8, <3>1 DEF CommandOK, Covers
  <2>4. CASE CommandWrite(m)
    <3>1. command'[m].pc = "done"
      BY <1>1, <2>4 DEF CommandWrite, Command
    <3>2. QED
      BY <3>1 DEF CommandOK
  <2>5. QED
    BY <2>1, <2>2, <2>3, <2>4 DEF RunCommand
<1>10. QED
  BY <1>4, <1>6, <1>7, <1>9 DEF SerialInv

LEMMA SerialHolds == ASSUME Serial PROVE Spec => [](TypeInv /\ SerialInv)
<1>1. Init => SerialInv
  BY DEF Init, SerialInv, Alone, Busy, Running, RecoveryOK, InUse, CommandOK, At
<1>2. TypeInv /\ SerialInv /\ [Next]_vars => (TypeInv /\ SerialInv)'
  <2> SUFFICES ASSUME TypeInv, SerialInv, [Next]_vars PROVE (TypeInv /\ SerialInv)'
    OBVIOUS
  <2>1. ASSUME NEW c \in Creators, Create(c) PROVE (TypeInv /\ SerialInv)'
    BY <2>1, TypeCreate, SerialCreate
  <2>2. ASSUME NEW m \in Commands, RunCommand(m) PROVE (TypeInv /\ SerialInv)'
    BY <2>2, TypeCommand, SerialCommand
  <2>3. CASE UNCHANGED vars
    <3>1. TypeInv'
      BY <2>3 DEF vars, TypeInv, TypeOK, TriesOK, RowOK, BoundedBy, SystemIds
    <3>2. SerialInv'
      BY <2>3 DEF vars, SerialInv, Alone, Busy, Running, RecoveryOK, InUse, CommandOK,
         At, Covers, Registered, SystemIds
    <3>3. QED
      BY <3>1, <3>2
  <2>4. QED
    BY <2>1, <2>2, <2>3 DEF Next
<1>3. QED
  BY <1>1, <1>2, TypeInit, PTL DEF Spec

(* Whatever was made elsewhere or was left by calls that failed, a call    *)
(* that meets no other recovers: the number of its second Project.create   *)
(* is not registered.                                                      *)
THEOREM RecoveryAlwaysSettles == ASSUME Serial PROVE Spec => []RecoverySettles
<1>1. TypeInv /\ SerialInv => RecoverySettles
  BY DEF SerialInv, RecoveryOK, RecoverySettles
<1>2. QED
  BY <1>1, SerialHolds, PTL

(* And the command, run while no call is, leaves a counter above every     *)
(* number in use, for any tenant.                                          *)
THEOREM CommandStaysSafe == ASSUME Serial PROVE Spec => CommandIsSafe
<1>1. ASSUME TypeInv, SerialInv, NEW m \in Commands, CommandWrite(m)
      PROVE  /\ \A c \in Creators : Holds(c) => creator[c].id <= value'[newest']
             /\ \A n \in dirs \cup SystemIds : n <= value'[newest']
  <2>1. /\ value \in [Rows -> Nat] /\ command[m] \in Command
    BY <1>1 DEF TypeInv, TypeOK
  <2>2. value'[newest'] = command[m].found /\ command[m].pc = "write"
    BY <1>1, <2>1 DEF CommandWrite, Save, Rows, Command
  <2>3. Covers(command[m].found) /\ \A n \in dirs : n <= command[m].found
    BY <1>1, <2>2 DEF SerialInv, CommandOK
  <2>4. ASSUME NEW c \in Creators, Holds(c) PROVE creator[c].id \in SystemIds
    <3>1. ~Busy(c)
      BY <1>1, <2>2 DEF SerialInv, Alone, Running
    <3>2. creator[c].pc = "done"
      BY <2>4, <3>1 DEF Holds, Busy
    <3>3. QED
      BY <1>1, <3>2 DEF SerialInv, InUse, Registered
  <2>5. QED
    BY <2>2, <2>3, <2>4 DEF Covers
<1>2. TypeInv /\ SerialInv /\ [Next]_vars =>
        [\A m \in Commands : CommandWrite(m) =>
           /\ \A c \in Creators : Holds(c) => creator[c].id <= value'[newest']
           /\ \A n \in dirs \cup SystemIds : n <= value'[newest']]_vars
  BY <1>1
<1>3. QED
  BY <1>2, SerialHolds, PTL DEF Spec, CommandIsSafe
=============================================================================
