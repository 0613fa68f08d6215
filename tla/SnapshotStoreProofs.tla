------------------------- MODULE SnapshotStoreProofs -------------------------
(***************************************************************************)
(* Proofs, for any set of catalogs and readers and any number of faults,   *)
(* that the snapshot files implement a one-step register and that loads    *)
(* are never stale.                                                        *)
(***************************************************************************)
EXTENDS SnapshotStore, TLAPS

(* Every variable keeps its type through every repository call. *)
THEOREM TypeCorrect == Spec => []TypeOK
<1>1. Init => TypeOK
  <2> SUFFICES ASSUME Init PROVE TypeOK
    OBVIOUS
  <2>1. seen \in [Readers -> SUBSET Contents]
    BY DEF Init, Contents
  <2> QED BY <2>1 DEF Init, TypeOK, Content, Contents, Labels
<1>2. TypeOK /\ [Next]_vars => TypeOK'
  <2> SUFFICES ASSUME TypeOK, [Next]_vars PROVE TypeOK'
    OBVIOUS
  <2> USE DEF TypeOK, Content, Contents, Labels, Fallible, files, faults
  <2>1. CASE Disk /\ Witness
    <3>0. seen' \in [Readers -> SUBSET Contents]
      <4>1. Load(bin', bak') \in Contents
        BY DEF Load, Decodes
      <4> QED BY <2>1, <4>1 DEF Witness
    <3>1. CASE Persist
      BY <2>1, <3>0, <3>1 DEF Persist, Writer, BeginPersist, CreateTemp,
         WriteTemp, UnlinkBackup, StashPrimary, Publish, DropBackup
    <3>2. CASE Maintain
      BY <2>1, <3>0, <3>2 DEF Maintain, Writer, Invalidate, RemovePrimary,
         RemoveBackup, RemoveTemp, Compact, CompactBackup, CompactTemp
    <3>3. CASE Damage
      BY <2>1, <3>0, <3>3 DEF Damage
    <3>4. CASE \E at \in Fallible : Fails(at)
      BY <2>1, <3>0, <3>4 DEF Fails, Writer
    <3> QED BY <2>1, <3>1, <3>2, <3>3, <3>4 DEF Disk
  <2>2. ASSUME NEW r \in Readers, OpenPrimary(r) PROVE TypeOK'
    BY <2>2 DEF OpenPrimary, Load, Decodes
  <2>3. ASSUME NEW r \in Readers, OpenBackup(r) PROVE TypeOK'
    BY <2>3 DEF OpenBackup, Decodes
  <2>4. CASE Crash
    BY <2>4 DEF Crash, Load, Decodes
  <2>5. CASE UNCHANGED vars
    BY <2>5 DEF vars, readers
  <2> QED BY <2>1, <2>2, <2>3, <2>4, <2>5 DEF Next
<1> QED BY <1>1, <1>2, PTL DEF Spec

(* The writer's place in the protocol fixes where the catalog is, so no    *)
(* half-written catalog is ever the primary (persist_snapshot_with).       *)
LEMMA WriterCorrect == Spec => [](TypeOK /\ WriterInv)
<1>1. Init => WriterInv
  BY StoreAssumption DEF Init, WriterInv, PrimaryIsWhole
<1>2. TypeOK /\ WriterInv /\ [Next]_vars => WriterInv'
  <2> SUFFICES ASSUME TypeOK, WriterInv, [Next]_vars PROVE WriterInv'
    OBVIOUS
  <2> USE StoreAssumption DEF TypeOK, WriterInv, PrimaryIsWhole, Content, Contents,
          Labels, Fallible, files, faults
  <2>1. CASE Persist
    BY <2>1 DEF Persist, Writer, BeginPersist, CreateTemp,
       WriteTemp, UnlinkBackup, StashPrimary, Publish, DropBackup
  <2>2. CASE Maintain
    BY <2>2 DEF Maintain, Writer, Invalidate, RemovePrimary,
       RemoveBackup, RemoveTemp, Compact, CompactBackup, CompactTemp
  <2>3. CASE Damage
    BY <2>3 DEF Damage
  <2>4. CASE \E at \in Fallible : Fails(at)
    BY <2>4 DEF Fails, Writer
  <2>5. ASSUME NEW r \in Readers, OpenPrimary(r) \/ OpenBackup(r) PROVE WriterInv'
    BY <2>5 DEF OpenPrimary, OpenBackup
  <2>6. CASE Crash
    BY <2>6 DEF Crash
  <2>7. CASE UNCHANGED vars
    BY <2>7 DEF vars
  <2> QED BY <2>1, <2>2, <2>3, <2>4, <2>5, <2>6, <2>7 DEF Next, Disk
<1> QED BY <1>1, <1>2, TypeCorrect, PTL DEF Spec

(* No write exposes a half-written catalog. *)
THEOREM PrimaryAlwaysWhole == Spec => []PrimaryIsWhole
<1>1. WriterInv => PrimaryIsWhole
  BY DEF WriterInv
<1> QED BY <1>1, WriterCorrect, PTL

(* open() never returns a catalog older than the moment it was called. *)
THEOREM LoadsAreCurrent == Spec => []LoadIsCurrentOrEmpty
<1> DEFINE I == ReaderInv /\ LoadIsCurrentOrEmpty
<1>1. Init => I
  BY DEF Init, ReaderInv, LoadIsCurrentOrEmpty
<1>2. TypeOK /\ I /\ [Next]_vars => I'
  <2> SUFFICES ASSUME TypeOK, I, [Next]_vars PROVE I'
    OBVIOUS
  <2>1. CASE Disk /\ Witness
    <3>1. UNCHANGED <<rpc, loaded>>
      BY <2>1 DEF Disk, Persist, Maintain, Damage, Fails, Writer, BeginPersist,
         CreateTemp, WriteTemp, UnlinkBackup, StashPrimary, Publish, DropBackup,
         Invalidate, RemovePrimary, RemoveBackup, RemoveTemp, Compact,
         CompactBackup, CompactTemp
    <3>2. bak' \in {bin, bak, Absent}
      BY <2>1 DEF Disk, Persist, Maintain, Damage, Fails, Writer, BeginPersist,
         CreateTemp, WriteTemp, UnlinkBackup, StashPrimary, Publish, DropBackup,
         Invalidate, RemovePrimary, RemoveBackup, RemoveTemp, Compact,
         CompactBackup, CompactTemp, files
    <3>3. LoadIsCurrentOrEmpty'
      BY <2>1, <3>1 DEF Witness, LoadIsCurrentOrEmpty
    <3>4. ReaderInv'
      <4> SUFFICES ASSUME NEW r \in Readers, rpc'[r] = "backup",
                          NEW f \in {bin', bak'}, f \in Contents
                   PROVE  f \in seen'[r]
        BY DEF ReaderInv, Decodes
      <4>1. seen'[r] = seen[r] \cup {Load(bin', bak')}
        BY <2>1, <3>1 DEF Witness
      <4>2. CASE f = bin'
        BY <4>1, <4>2 DEF Load, Decodes
      <4>3. CASE f = bak'
        <5>1. Absent \notin Contents
          BY StoreAssumption DEF Contents
        <5> QED BY <3>1, <3>2, <4>1, <4>3, <5>1 DEF ReaderInv, Decodes
      <4> QED BY <4>2, <4>3
    <3> QED BY <3>3, <3>4
  <2>2. ASSUME NEW r \in Readers, OpenPrimary(r) PROVE I'
    BY <2>2 DEF OpenPrimary, ReaderInv, LoadIsCurrentOrEmpty, Load, Decodes, TypeOK, files
  <2>3. ASSUME NEW r \in Readers, OpenBackup(r) PROVE I'
    BY <2>3 DEF OpenBackup, ReaderInv, LoadIsCurrentOrEmpty, Decodes, TypeOK, files
  <2>4. CASE Crash
    BY <2>4 DEF Crash, ReaderInv, LoadIsCurrentOrEmpty
  <2>5. CASE UNCHANGED vars
    BY <2>5 DEF vars, readers, files, ReaderInv, LoadIsCurrentOrEmpty
  <2> QED BY <2>1, <2>2, <2>3, <2>4, <2>5 DEF Next
<1>3. I => LoadIsCurrentOrEmpty
  OBVIOUS
<1> QED BY <1>1, <1>2, <1>3, TypeCorrect, PTL DEF Spec

(* The three files implement the one-step register: the catalog a load     *)
(* returns changes only by the rename that installs the one being written, *)
(* whatever crashes and failing calls interrupt persist_snapshot_with.     *)
THEOREM StoreImplementsRegister == Spec => ImplementsRegister
<1>1. Init => Register!RInit
  BY StoreAssumption DEF Init, Register!RInit, Load, Decodes, Contents, Maintaining
<1>2. TypeOK /\ TypeOK' /\ WriterInv /\ [Next]_vars => [Register!RNext]_(Register!rvars)
  <2> SUFFICES ASSUME TypeOK, TypeOK', WriterInv, [Next]_vars
               PROVE  [Register!RNext]_(Register!rvars)
    OBVIOUS
  <2> DEFINE pend == IF pc \in {"create", "write", "unlink", "stash", "publish"}
                     THEN {writing} ELSE {}
             lose == damaged \/ Maintaining
             S == Load(bin, bak)
  <2>0. lose' \in BOOLEAN /\ S' \in Contents /\ S \in Contents
    BY DEF Load, Decodes, Contents, TypeOK
  <2>1. \/ UNCHANGED <<S, pend, lose>>
        \/ S' = S /\ pend' = {}
        \/ S' = S /\ \E v \in Contents : pend' = {v}
        \/ S' \in pend /\ pend' = {}
        \/ (lose \/ lose') /\ (pend' = {} \/ \E v \in Contents : pend' = {v})
    <3> USE StoreAssumption DEF Load, Decodes, files
    <3>1. CASE Persist
      <4> USE DEF Writer, TypeOK, WriterInv, PrimaryIsWhole, Content, Contents, Maintaining
      <4>1. CASE \E v \in Catalogs : BeginPersist(v)
        BY <4>1 DEF BeginPersist
      <4>2. CASE CreateTemp
        BY <4>2 DEF CreateTemp
      <4>3. CASE WriteTemp
        BY <4>3 DEF WriteTemp
      <4>4. CASE UnlinkBackup
        BY <4>4 DEF UnlinkBackup
      <4>5. CASE StashPrimary
        BY <4>5 DEF StashPrimary
      <4>6. CASE Publish
        BY <4>6 DEF Publish
      <4>7. CASE DropBackup
        BY <4>7 DEF DropBackup
      <4> QED BY <3>1, <4>1, <4>2, <4>3, <4>4, <4>5, <4>6, <4>7 DEF Persist
    <3>2. CASE Maintain
      BY <3>2 DEF Maintain, Maintaining, Writer, TypeOK, Invalidate, RemovePrimary,
         RemoveBackup, RemoveTemp, Compact, CompactBackup, CompactTemp
    <3>3. CASE Damage
      BY <3>3 DEF Damage, TypeOK
    <3>4. CASE \E at \in Fallible : Fails(at)
      BY <3>4 DEF Fails, Writer
    <3>5. ASSUME NEW r \in Readers, OpenPrimary(r) \/ OpenBackup(r)
          PROVE  UNCHANGED <<S, pend, lose>>
      BY <3>5 DEF OpenPrimary, OpenBackup, faults, Maintaining
    <3>6. CASE Crash
      BY <3>6 DEF Crash
    <3>7. CASE UNCHANGED vars
      BY <3>7 DEF vars, faults, Maintaining
    <3> QED BY <3>1, <3>2, <3>3, <3>4, <3>5, <3>6, <3>7 DEF Next, Disk
  <2> QED
    BY <2>0, <2>1 DEF Register!RNext, Register!rvars, Register!Begin,
       Register!Commit, Register!End, Register!GiveUp, Maintaining
<1> QED BY <1>1, <1>2, WriterCorrect, PTL DEF Spec, ImplementsRegister, Register!RSpec
=============================================================================
