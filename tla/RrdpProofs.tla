---------------------------- MODULE RrdpProofs ----------------------------
(***************************************************************************)
(* Proofs about the publication server and its RRDP clients, for every set *)
(* of clients, URIs and objects and every bound.                           *)
(*                                                                         *)
(* About Pubd, for every expiration interval too: type correctness, that   *)
(* the files notify.xml names are always on disk, that notify.xml moves    *)
(* forward, that clients are isolated, that pubd implements Repository,    *)
(* what an answer without an error means, and, where COMMIT never fails,   *)
(* that the deltas notify.xml offers are consecutive.                      *)
(*                                                                         *)
(* About Rrdp, which adds relying parties to Pubd: whatever pubd rewrites, *)
(* removes, repeats or loses meanwhile, the relying party's snapshots and  *)
(* deltas lead to what pubd committed, and its copy is a Replica of pubd's *)
(* Repository.                                                             *)
(***************************************************************************)
EXTENDS Rrdp, FiniteSetTheorems, WellFoundedInduction, TLAPS

-----------------------------------------------------------------------------
(***************************************************************************)
(* Pubd.                                                                   *)
(***************************************************************************)
DeltaRow == [serial : Nat, expires : Nat, hash : Seq(PDU)]

LEMMA ConstantTypes ==
    /\ None \notin Client /\ None \notin Der
    /\ Interval \in Nat
    /\ Empty \in Content /\ Empty \in Owner
    /\ NoTx \in [content : Content, owner : Owner]
    /\ NoDelta \in DeltaRow
    /\ << >> \in Seq(PDU)
    /\ NoNotify \in [serial : Nat, snapshot : Content \cup {None},
                     deltas : SUBSET DeltaFile]
<1>1. None \notin Client /\ None \notin Der /\ Interval \in Nat
  BY ConstantsAssumption
<1>2. Empty \in Content /\ Empty \in Owner
  BY DEF Empty, Content, Owner
<1>3. NoTx \in [content : Content, owner : Owner]
  BY <1>2 DEF NoTx
<1>4. << >> \in Seq(PDU)
  OBVIOUS
<1>5. NoDelta \in DeltaRow
  BY <1>4 DEF NoDelta, DeltaRow
<1>6. NoNotify \in [serial : Nat, snapshot : Content \cup {None},
                    deltas : SUBSET DeltaFile]
  BY DEF NoNotify
<1> QED BY <1>1, <1>2, <1>3, <1>4, <1>5, <1>6

\* The delta that a PDU is added to is well typed.
LEMMA CurrentDeltaType ==
    ASSUME TypeOK
    PROVE  CurrentDelta \in DeltaRow
<1>1. mem + 1 \in Nat /\ now + Interval \in Nat
  BY ConstantTypes DEF TypeOK
<1>2. << >> \in Seq(PDU)
  OBVIOUS
<1> QED BY <1>1, <1>2 DEF CurrentDelta, TypeOK, DeltaRow

LEMMA FileOfType ==
    ASSUME NEW d \in DeltaRow
    PROVE  FileOf(d) \in DeltaFile /\ FileOf(d).serial = d.serial
BY DEF FileOf, DeltaFile, DeltaRow

\* Init establishes the types.
LEMMA TypeInit == Init => TypeOK
<1> SUFFICES ASSUME Init PROVE TypeOK
  OBVIOUS
<1> QED BY ConstantTypes DEF Init, TypeOK, PCs, DeltaRow

\* A PDU that is applied keeps the types.
LEMMA ApplyPDUType ==
    ASSUME TypeOK, NEW p \in PDU, NEW d \in Der \cup {None},
           NEW o \in Client \cup {None}, ApplyPDU(p, d, o)
    PROVE  TypeOK'
<1>1. p.uri \in URI
  BY DEF PDU
<1>2. tx' \in [content : Content, owner : Owner]
  BY <1>1 DEF ApplyPDU, TypeOK, Content, Owner
<1>3. delta' \in DeltaRow
  <2>1. CurrentDelta \in DeltaRow
    BY CurrentDeltaType
  <2>2. Append(CurrentDelta.hash, p) \in Seq(PDU)
    BY <2>1 DEF DeltaRow
  <2> QED BY <2>1, <2>2 DEF ApplyPDU, DeltaRow
<1> QED BY <1>2, <1>3 DEF ApplyPDU, TypeOK, DeltaRow, db, disk

\* Every step keeps the types.
LEMMA TypeNext == TypeOK /\ [Next]_vars => TypeOK'
<1> SUFFICES ASSUME TypeOK, [Next]_vars PROVE TypeOK'
  OBVIOUS
<1> USE ConstantTypes
<1>1. ASSUME NEW c \in Client, ClientQuery(c) PROVE TypeOK'
  BY <1>1 DEF ClientQuery, TypeOK, PCs, db, disk, DeltaRow
<1>2. ASSUME NEW u \in URI, NEW d \in Der, NEW h \in Der \cup {None},
             PublishPDU(u, d, h)
      PROVE  TypeOK'
  <2> DEFINE p == [tag |-> "publish", uri |-> u, der |-> d, hash |-> h]
  <2>1. p \in PDU
    BY DEF PDU
  <2>2. ApplyPDU(p, d, client) /\ client \in Client \cup {None}
    BY <1>2 DEF PublishPDU, TypeOK
  <2> QED BY <2>1, <2>2, ApplyPDUType
<1>3. ASSUME NEW u \in URI, NEW h \in Der, WithdrawPDU(u, h) PROVE TypeOK'
  <2> DEFINE p == [tag |-> "withdraw", uri |-> u, der |-> None, hash |-> h]
  <2>1. p \in PDU
    BY DEF PDU
  <2>2. ApplyPDU(p, None, None)
    BY <1>3 DEF WithdrawPDU
  <2> QED BY <2>1, <2>2, ApplyPDUType
<1>4. ASSUME Rollback PROVE TypeOK'
  BY <1>4 DEF Rollback, TypeOK, PCs, db, disk, DeltaRow
<1>5. CASE EndOfQuery
  BY <1>5 DEF EndOfQuery, TypeOK, PCs, db, disk
<1>6. CASE WriteDelta
  <2>1. FileOf(delta) \in DeltaFile
    BY FileOfType DEF TypeOK, DeltaRow
  <2> QED BY <1>6, <2>1 DEF WriteDelta, Rename, TypeOK, PCs, db, memory
<1>7. CASE SaveDelta
  BY <1>7 DEF SaveDelta, TypeOK, PCs, db, disk
<1>8. CASE Commit
  BY <1>8 DEF Commit, TypeOK, PCs, memory, disk
<1>9. CASE WriteSnapshot
  BY <1>9 DEF WriteSnapshot, Rename, TypeOK, PCs, db, memory, SnapFile
<1>10. CASE WriteNotify
  <2>1. {FileOf(d) : d \in deltas} \in SUBSET DeltaFile
    BY FileOfType DEF TypeOK, DeltaRow
  <2> QED BY <1>10, <2>1 DEF WriteNotify, TypeOK, PCs, db, memory
<1>11. CASE RemoveDelta
  BY <1>11 DEF RemoveDelta, TypeOK, db, memory
<1>12. CASE RemoveSnapshot
  BY <1>12 DEF RemoveSnapshot, TypeOK, db, memory
<1>13. CASE CleanupDone
  BY <1>13 DEF CleanupDone, TypeOK, PCs, db, disk
<1>14. CASE RsyncPDU
  <2>1. Head(todo) \in PDU /\ Tail(todo) \in Seq(PDU)
    BY <1>14 DEF RsyncPDU, TypeOK
  <2>2. Head(todo).uri \in URI /\ Head(todo).der \in Der \cup {None}
    BY <2>1 DEF PDU
  <2>3. rsync' \in Content
    BY <1>14, <2>2 DEF RsyncPDU, TypeOK, Content
  <2> QED BY <1>14, <2>1, <2>3 DEF RsyncPDU, TypeOK, db
<1>15. ASSUME NEW r \in {"ok", "http_error"}, Finish(r) PROVE TypeOK'
  BY <1>15 DEF Finish, TypeOK, PCs, db, disk, DeltaRow
<1>16. ASSUME NEW c \in Client, NEW uris \in SUBSET URI, SetClient(c, uris)
       PROVE  TypeOK'
  BY <1>16 DEF SetClient, TypeOK, memory, disk
<1>17. ASSUME NEW c \in Client, DestroyClient(c) PROVE TypeOK'
  BY <1>17 DEF DestroyClient, TypeOK, memory, disk, Content, Owner
<1>18. CASE Crash
  BY <1>18 DEF Crash, TypeOK, PCs, db, disk, DeltaRow
<1>19. CASE Restart
  BY <1>19 DEF Restart, TypeOK, PCs, db, disk
<1>20. CASE Tick
  BY <1>20 DEF Tick, TypeOK, db, memory, disk
<1>21. CASE UNCHANGED vars
  BY <1>21 DEF vars, TypeOK
<1> QED
  BY <1>1, <1>2, <1>3, <1>4, <1>5, <1>6, <1>7, <1>8, <1>9, <1>10, <1>11, <1>12,
     <1>13, <1>14, <1>15, <1>16, <1>17, <1>18, <1>19, <1>20, <1>21
  DEF Next, NextKept, NextReliable, Step, Environment, Failure, RefusePDU,
      ActivateError, CommitError, FileError, RsyncDone

\* Every reachable state of pubd is well typed.
THEOREM TypeCorrect == Spec => []TypeOK
BY TypeInit, TypeNext, PTL DEF Spec

-----------------------------------------------------------------------------
(***************************************************************************)
(* NotifyIntact.  FileInv is inductive relative to TypeOK.                 *)
(***************************************************************************)

LEMMA FileInit == Init => FileInv
BY DEF Init, FileInv, SerialsOrdered, FilesWritten, NotifyIntact, NoNotify, NoDelta

\* A step that touches neither the files, nor the serial numbers, nor the
\* tables, and leaves the handler idle or down.
LEMMA FileQuiet ==
    ASSUME TypeOK, FileInv,
           notify' = notify, deltaFiles' = deltaFiles, snapFiles' = snapFiles,
           serial' = serial, deltas' = deltas, pc' \in {"idle", "down"},
           pc' = "idle" => mem' = mem /\ pc # "down"
    PROVE  FileInv'
BY DEF FileInv, SerialsOrdered, FilesWritten, NotifyIntact

LEMMA FileApplyPDU ==
    ASSUME TypeOK, FileInv, NEW p, NEW d, NEW o, pc = "pdus", ApplyPDU(p, d, o)
    PROVE  FileInv'
<1>1. CurrentDelta.serial = mem + 1 /\ delta'.serial = mem + 1
  <2>1. CurrentDelta \in DeltaRow
    BY CurrentDeltaType
  <2>2. delta'.serial = CurrentDelta.serial
    BY <2>1 DEF ApplyPDU, DeltaRow
  <2>3. CurrentDelta.serial = mem + 1
    BY DEF CurrentDelta, FileInv, SerialsOrdered
  <2> QED BY <2>2, <2>3
<1>2. UNCHANGED <<notify, deltaFiles, snapFiles, serial, deltas, pc, mem, content>>
  BY DEF ApplyPDU, db, disk
<1> QED BY <1>1, <1>2 DEF FileInv, SerialsOrdered, FilesWritten, NotifyIntact

LEMMA FileWriteDelta ==
    ASSUME TypeOK, FileInv, WriteDelta
    PROVE  FileInv'
<1> USE DEF WriteDelta, FileInv, db, memory
<1>1. FileOf(delta) \in DeltaFile /\ FileOf(delta).serial = mem + 1
  BY FileOfType DEF TypeOK, DeltaRow, SerialsOrdered
<1>2. mem \in Nat /\ serial \in Nat /\ serial <= mem
  BY DEF TypeOK, SerialsOrdered
<1>3. ASSUME NEW f \in deltaFiles, f.serial <= serial PROVE f \in deltaFiles'
  BY <1>1, <1>2, <1>3 DEF TypeOK, DeltaFile, Rename
<1>4. FileOf(delta) \in deltaFiles'
  BY DEF Rename
<1>5. \A d \in deltas : FileOf(d) \in deltaFiles'
  <2> TAKE d \in deltas
  <2>1. FileOf(d) \in deltaFiles /\ d.serial <= serial
    BY DEF FilesWritten, SerialsOrdered
  <2>2. FileOf(d).serial = d.serial
    BY DEF FileOf
  <2> QED BY <2>1, <2>2, <1>3
<1>6. SerialsOrdered'
  BY DEF SerialsOrdered
<1>7. FilesWritten'
  <2>1. \A f, g \in deltaFiles' : f.serial = g.serial => f = g
    BY DEF FilesWritten, Rename
  <2> QED BY <2>1, <1>4, <1>5 DEF FilesWritten
<1>8. NotifyIntact'
  BY <1>3 DEF NotifyIntact, SerialsOrdered
<1> QED BY <1>6, <1>7, <1>8

LEMMA FileCommit ==
    ASSUME TypeOK, FileInv, Commit
    PROVE  FileInv'
<1> USE DEF Commit, FileInv, memory, disk
<1>1. mem \in Nat /\ serial \in Nat /\ serial < mem /\ delta.serial = mem
  BY DEF TypeOK, SerialsOrdered
<1>2. \A d \in deltas' : d \in deltas \/ d = delta
  OBVIOUS
<1>3. \A d \in deltas' : d.serial <= mem
  BY <1>1, <1>2 DEF SerialsOrdered, TypeOK
<1>4. \A d \in deltas' : FileOf(d) \in deltaFiles
  BY <1>2 DEF FilesWritten
<1>5. /\ notify.serial < mem /\ notify.serial <= mem
      /\ \A f \in notify.deltas : f.serial <= mem
  BY <1>1 DEF SerialsOrdered, TypeOK, DeltaFile
<1>6. SerialsOrdered'
  BY <1>1, <1>3, <1>5 DEF SerialsOrdered
<1>7. FilesWritten' /\ NotifyIntact'
  BY <1>4 DEF FilesWritten, NotifyIntact
<1> QED BY <1>6, <1>7

LEMMA FileWriteSnapshot ==
    ASSUME TypeOK, FileInv, WriteSnapshot
    PROVE  FileInv'
<1> USE DEF WriteSnapshot, FileInv, db, memory
<1>1. notify.serial # mem
  BY DEF SerialsOrdered, TypeOK
<1>2. [serial |-> mem, hash |-> content] \in snapFiles'
  BY DEF Rename
<1>3. NotifyIntact'
  BY <1>1 DEF NotifyIntact, Rename
<1> QED BY <1>2, <1>3 DEF SerialsOrdered, FilesWritten

LEMMA FileWriteNotify ==
    ASSUME TypeOK, FileInv, WriteNotify
    PROVE  FileInv'
<1> USE DEF WriteNotify, FileInv, db, memory
<1>1. /\ notify'.serial = mem /\ notify'.snapshot = content
      /\ notify'.deltas = {FileOf(d) : d \in deltas}
  OBVIOUS
<1>2. \A f \in notify'.deltas : f.serial <= serial /\ f \in deltaFiles
  BY <1>1 DEF SerialsOrdered, FilesWritten, FileOf
<1>3. serial = mem
  BY DEF SerialsOrdered
<1>4. SerialsOrdered'
  BY <1>1, <1>2, <1>3 DEF SerialsOrdered, TypeOK
<1>5. notify'.serial # 0
  BY <1>1, <1>3 DEF SerialsOrdered, TypeOK
<1>6. FilesWritten' /\ NotifyIntact'
  BY <1>1, <1>2, <1>5 DEF FilesWritten, NotifyIntact
<1> QED BY <1>4, <1>6

LEMMA FileRemoveDelta ==
    ASSUME TypeOK, FileInv, RemoveDelta
    PROVE  FileInv'
<1> USE DEF FileInv
<1>1. PICK f \in deltaFiles : ~Current(f) /\ deltaFiles' = deltaFiles \ {f}
  BY DEF RemoveDelta
<1>2. \A d \in deltas : FileOf(d) # f
  BY <1>1 DEF Current, FileOf
<1>3. /\ pc = "clean"
      /\ UNCHANGED <<pc, snapFiles, notify, serial, deltas, content, mem, delta>>
  BY DEF RemoveDelta, db, memory
<1>4. notify.deltas = {FileOf(d) : d \in deltas}
  BY <1>3 DEF FilesWritten
<1> QED BY <1>1, <1>2, <1>3, <1>4 DEF SerialsOrdered, FilesWritten, NotifyIntact

LEMMA FileRemoveSnapshot ==
    ASSUME TypeOK, FileInv, RemoveSnapshot
    PROVE  FileInv'
<1> USE DEF FileInv
<1>1. PICK f \in snapFiles : f.serial # mem /\ snapFiles' = snapFiles \ {f}
  BY DEF RemoveSnapshot, CurrentSnapshot
<1>2. /\ pc = "clean"
      /\ UNCHANGED <<pc, deltaFiles, notify, serial, deltas, content, mem, delta>>
  BY DEF RemoveSnapshot, db, memory
<1>3. notify.serial = mem
  BY <1>2 DEF FilesWritten
<1> QED BY <1>1, <1>2, <1>3 DEF SerialsOrdered, FilesWritten, NotifyIntact

LEMMA FileNext == TypeOK /\ FileInv /\ [Next]_vars => FileInv'
<1> SUFFICES ASSUME TypeOK, FileInv, [Next]_vars PROVE FileInv'
  OBVIOUS
<1>1. ASSUME NEW c \in Client, ClientQuery(c) PROVE FileInv'
  BY <1>1 DEF ClientQuery, db, disk, NoDelta,
              FileInv, SerialsOrdered, FilesWritten, NotifyIntact
<1>2. ASSUME NEW u, NEW d, NEW h, PublishPDU(u, d, h) PROVE FileInv'
  BY <1>2, FileApplyPDU DEF PublishPDU
<1>3. ASSUME NEW u, NEW h, WithdrawPDU(u, h) PROVE FileInv'
  BY <1>3, FileApplyPDU DEF WithdrawPDU
<1>4. ASSUME Rollback, pc # "down" PROVE FileInv'
  BY <1>4, FileQuiet DEF Rollback, db, disk
<1>5. CASE EndOfQuery
  BY <1>5 DEF EndOfQuery, db, disk,
              FileInv, SerialsOrdered, FilesWritten, NotifyIntact
<1>6. CASE WriteDelta
  BY <1>6, FileWriteDelta
<1>7. CASE SaveDelta
  BY <1>7 DEF SaveDelta, db, disk, TypeOK,
              FileInv, SerialsOrdered, FilesWritten, NotifyIntact
<1>8. CASE Commit
  BY <1>8, FileCommit
<1>9. CASE WriteSnapshot
  BY <1>9, FileWriteSnapshot
<1>10. CASE WriteNotify
  BY <1>10, FileWriteNotify
<1>11. CASE RemoveDelta
  BY <1>11, FileRemoveDelta
<1>12. CASE RemoveSnapshot
  BY <1>12, FileRemoveSnapshot
<1>13. CASE CleanupDone
  BY <1>13 DEF CleanupDone, db, disk,
               FileInv, SerialsOrdered, FilesWritten, NotifyIntact
<1>14. CASE RsyncPDU
  BY <1>14 DEF RsyncPDU, db, FileInv, SerialsOrdered, FilesWritten, NotifyIntact
<1>15. ASSUME NEW r, Finish(r), pc # "down" PROVE FileInv'
  BY <1>15, FileQuiet DEF Finish, db, disk
<1>16. ASSUME NEW c, NEW uris, SetClient(c, uris) PROVE FileInv'
  BY <1>16, FileQuiet DEF SetClient, memory, disk
<1>17. ASSUME NEW c, DestroyClient(c) PROVE FileInv'
  BY <1>17, FileQuiet DEF DestroyClient, memory, disk
<1>18. CASE Crash
  BY <1>18, FileQuiet DEF Crash, db, disk
<1>19. CASE Restart
  BY <1>19 DEF Restart, db, disk, TypeOK,
               FileInv, SerialsOrdered, FilesWritten, NotifyIntact
<1>20. CASE Tick
  BY <1>20 DEF Tick, db, memory, disk,
               FileInv, SerialsOrdered, FilesWritten, NotifyIntact
<1>21. CASE UNCHANGED vars
  BY <1>21 DEF vars, FileInv, SerialsOrdered, FilesWritten, NotifyIntact
<1> QED
  BY <1>1, <1>2, <1>3, <1>4, <1>5, <1>6, <1>7, <1>8, <1>9, <1>10, <1>11, <1>12,
     <1>13, <1>14, <1>15, <1>16, <1>17, <1>18, <1>19, <1>20, <1>21
  DEF Next, NextKept, NextReliable, Step, Environment, Failure, RefusePDU,
      ActivateError, CommitError, FileError, RsyncDone

\* FileInv holds in every reachable state of pubd.
THEOREM FileInvariant == Spec => []FileInv
<1>1. TypeOK /\ FileInv /\ [Next]_vars => FileInv'
  BY FileNext
<1> QED BY <1>1, FileInit, TypeCorrect, PTL DEF Spec

\* Whatever fails and wherever pubd is killed, the files that notify.xml names
\* are on disk with the hashes it gives.
THEOREM NotifyAlwaysIntact == Spec => []NotifyIntact
<1>1. FileInv => NotifyIntact
  BY DEF FileInv
<1> QED BY <1>1, FileInvariant, PTL

\* notify.xml only moves forward, and no serial number ever names two deltas.
THEOREM NotifyMovesForward == Spec => NotifyMonotone
<1>1. ASSUME TypeOK, FileInv, [Next]_vars, notify' # notify
      PROVE  /\ notify'.serial > notify.serial
             /\ \A f \in notify.deltas, g \in notify'.deltas :
                    f.serial = g.serial => f = g
  <2>1. WriteNotify
    BY <1>1 DEF Next, NextKept, NextReliable, Step, Environment, Failure, vars,
        db, memory, disk, ClientQuery, PublishPDU, WithdrawPDU, ApplyPDU, RefusePDU,
        Rollback, EndOfQuery, WriteDelta, SaveDelta, Commit, ActivateError,
        CommitError, WriteSnapshot, RemoveDelta, RemoveSnapshot, CleanupDone,
        RsyncPDU, Finish, RsyncDone, FileError, SetClient, DestroyClient, Crash,
        Restart, Tick
  <2>2. notify'.serial = mem /\ notify'.deltas = {FileOf(d) : d \in deltas}
    BY <2>1 DEF WriteNotify
  <2>3. notify.serial < mem /\ mem \in Nat /\ notify.serial \in Nat
    BY <1>1, <2>1 DEF WriteNotify, FileInv, SerialsOrdered, TypeOK
  <2>4. notify.deltas \subseteq deltaFiles /\ notify'.deltas \subseteq deltaFiles
    BY <1>1, <2>2 DEF FileInv, FilesWritten, NotifyIntact
  <2> QED BY <1>1, <2>2, <2>3, <2>4 DEF FileInv, FilesWritten
<1>2. TypeOK /\ FileInv /\ [Next]_vars
      => [/\ notify'.serial > notify.serial
          /\ \A f \in notify.deltas, g \in notify'.deltas :
                 f.serial = g.serial => f = g]_notify
  BY <1>1
<1> QED BY <1>2, TypeCorrect, FileInvariant, PTL DEF Spec, NotifyMonotone

-----------------------------------------------------------------------------
(***************************************************************************)
(* ClientIsolation.  TxTouchesOwn is inductive relative to TypeOK.                *)
(***************************************************************************)

LEMMA TxApplyPDU ==
    ASSUME TypeOK, TxTouchesOwn, NEW p \in PDU, NEW d, NEW o \in {client, None},
           pc = "pdus", p.uri \in base[client],
           tx.owner[p.uri] \in {client, None}, ApplyPDU(p, d, o)
    PROVE  TxTouchesOwn'
<1>1. UNCHANGED <<pc, client, base, content, owner>>
  BY DEF ApplyPDU, db
<1>2. p.uri \in URI
  BY DEF PDU
<1>3. ASSUME NEW u \in URI
      PROVE  \/ tx'.content[u] = content[u] /\ tx'.owner[u] = owner[u]
             \/ /\ u \in base[client]
                /\ {owner[u], tx'.owner[u]} \subseteq {client, None}
  <2>1. CASE u = p.uri
    <3>1. tx'.owner[u] = o
      BY <2>1, <1>2 DEF ApplyPDU, TypeOK, Owner
    <3>2. owner[u] \in {client, None}
      BY <2>1, <1>2 DEF TxTouchesOwn, InTransaction
    <3> QED BY <3>1, <3>2, <2>1
  <2>2. CASE u # p.uri
    <3>1. tx'.owner[u] = tx.owner[u] /\ tx'.content[u] = tx.content[u]
      BY <2>2 DEF ApplyPDU, TypeOK, Owner, Content
    <3> QED BY <3>1 DEF TxTouchesOwn, InTransaction
  <2> QED BY <2>1, <2>2
<1> QED BY <1>1, <1>3 DEF TxTouchesOwn, InTransaction

LEMMA TxNext == TypeOK /\ TxTouchesOwn /\ [Next]_vars => TxTouchesOwn'
<1> SUFFICES ASSUME TypeOK, TxTouchesOwn, [Next]_vars PROVE TxTouchesOwn'
  OBVIOUS
<1>1. ASSUME NEW c \in Client, ClientQuery(c) PROVE TxTouchesOwn'
  BY <1>1 DEF ClientQuery, db, TxTouchesOwn, InTransaction
<1>2. ASSUME NEW u \in URI, NEW d \in Der, NEW h \in Der \cup {None},
             PublishPDU(u, d, h)
      PROVE  TxTouchesOwn'
  <2> DEFINE p == [tag |-> "publish", uri |-> u, der |-> d, hash |-> h]
  <2>1. p \in PDU /\ p.uri = u
    BY DEF PDU
  <2>2. /\ pc = "pdus" /\ u \in base[client] /\ tx.owner[u] \in {client, None}
        /\ ApplyPDU(p, d, client)
    BY <1>2 DEF PublishPDU, check_allowed_uri, PublishAllowed
  <2> HIDE DEF p
  <2> QED BY <2>1, <2>2, TxApplyPDU
<1>3. ASSUME NEW u \in URI, NEW h \in Der, WithdrawPDU(u, h) PROVE TxTouchesOwn'
  <2> DEFINE p == [tag |-> "withdraw", uri |-> u, der |-> None, hash |-> h]
  <2>1. p \in PDU /\ p.uri = u
    BY DEF PDU
  <2>2. /\ pc = "pdus" /\ u \in base[client] /\ tx.owner[u] \in {client, None}
        /\ ApplyPDU(p, None, None)
    BY <1>3 DEF WithdrawPDU, check_allowed_uri, WithdrawAllowed
  <2> HIDE DEF p
  <2> QED BY <2>1, <2>2, TxApplyPDU
<1>4. ASSUME pc' \notin {"pdus", "activate", "save", "commit"} PROVE TxTouchesOwn'
  BY <1>4 DEF TxTouchesOwn, InTransaction
<1>5. ASSUME pc \in {"pdus", "activate", "save", "commit"},
             UNCHANGED <<base, content, owner, client, tx>>
      PROVE  TxTouchesOwn'
  BY <1>5 DEF TxTouchesOwn, InTransaction
<1>6. CASE EndOfQuery
  BY <1>6, <1>4, <1>5 DEF EndOfQuery, db
<1>7. CASE WriteDelta \/ SaveDelta
  BY <1>7, <1>5 DEF WriteDelta, SaveDelta, db, memory
<1>8. CASE Commit \/ WriteSnapshot \/ WriteNotify \/ CleanupDone
  BY <1>8, <1>4 DEF Commit, WriteSnapshot, WriteNotify, CleanupDone
<1>9. CASE RemoveDelta \/ RemoveSnapshot \/ RsyncPDU
  BY <1>9, <1>4 DEF RemoveDelta, RemoveSnapshot, RsyncPDU
<1>10. ASSUME NEW r, Rollback \/ Finish(r) PROVE TxTouchesOwn'
  BY <1>10, <1>4 DEF Rollback, Finish
<1>11. ASSUME NEW c, NEW uris, SetClient(c, uris) \/ DestroyClient(c) PROVE TxTouchesOwn'
  BY <1>11, <1>4 DEF SetClient, DestroyClient
<1>12. CASE Crash \/ Restart
  BY <1>12, <1>4 DEF Crash, Restart
<1>13. CASE Tick \/ UNCHANGED vars
  BY <1>13, <1>4, <1>5 DEF Tick, vars, db, memory
<1> QED
  BY <1>1, <1>2, <1>3, <1>6, <1>7, <1>8, <1>9, <1>10, <1>11, <1>12, <1>13
  DEF Next, NextKept, NextReliable, Step, Environment, Failure, RefusePDU,
      ActivateError, CommitError, FileError, RsyncDone

\* The unique constraints survive one more object that is nowhere else.
LEMMA WholeApplyPDU ==
    ASSUME TypeOK, TablesWhole, NEW p \in PDU, NEW d, NEW o,
           pc = "pdus", d = None <=> o = None,
           d # None => \A v \in URI \ {p.uri} : tx.content[v] # d,
           ApplyPDU(p, d, o)
    PROVE  TablesWhole'
<1>1. UNCHANGED <<pc, client, content, owner>>
  BY DEF ApplyPDU, db
<1>2. /\ tx'.content = [tx.content EXCEPT ![p.uri] = d]
      /\ tx'.owner = [tx.owner EXCEPT ![p.uri] = o]
  BY DEF ApplyPDU
<1>3. tx.content \in Content /\ tx.owner \in Owner
  BY DEF TypeOK
<1>4. \A u \in URI :
          /\ tx'.content[u] = IF u = p.uri THEN d ELSE tx.content[u]
          /\ tx'.owner[u] = IF u = p.uri THEN o ELSE tx.owner[u]
  BY <1>2, <1>3 DEF Content, Owner
<1>5. client \in Client /\ R!Whole(tx.content, tx.owner)
  BY DEF TablesWhole, InTransaction
<1>6. R!Whole(tx'.content, tx'.owner)
  BY <1>4, <1>5 DEF R!Whole
<1> QED BY <1>1, <1>5, <1>6 DEF TablesWhole

LEMMA WholeNext == TypeOK /\ TablesWhole /\ [Next]_vars => TablesWhole'
<1> SUFFICES ASSUME TypeOK, TablesWhole, [Next]_vars PROVE TablesWhole'
  OBVIOUS
<1>1. ASSUME NEW c \in Client, ClientQuery(c) PROVE TablesWhole'
  BY <1>1 DEF ClientQuery, db, TablesWhole
<1>2. ASSUME NEW u \in URI, NEW d \in Der, NEW h \in Der \cup {None},
             PublishPDU(u, d, h)
      PROVE  TablesWhole'
  <2> DEFINE p == [tag |-> "publish", uri |-> u, der |-> d, hash |-> h]
  <2>1. p \in PDU /\ p.uri = u
    BY DEF PDU
  <2>2. /\ pc = "pdus" /\ ApplyPDU(p, d, client)
        /\ \A v \in URI \ {u} : tx.content[v] # d
    BY <1>2 DEF PublishPDU, PublishAllowed
  <2>3. d # None /\ client # None
    BY <2>2, ConstantsAssumption DEF TablesWhole, InTransaction
  <2> HIDE DEF p
  <2> QED BY <2>1, <2>2, <2>3, WholeApplyPDU
<1>3. ASSUME NEW u \in URI, NEW h \in Der, WithdrawPDU(u, h) PROVE TablesWhole'
  <2> DEFINE p == [tag |-> "withdraw", uri |-> u, der |-> None, hash |-> h]
  <2>1. p \in PDU
    BY DEF PDU
  <2>2. pc = "pdus" /\ ApplyPDU(p, None, None)
    BY <1>3 DEF WithdrawPDU
  <2> HIDE DEF p
  <2> QED BY <2>1, <2>2, WholeApplyPDU
<1>4. ASSUME UNCHANGED <<content, owner>>,
             pc' \in {"pdus", "activate", "save", "commit"}
                 => InTransaction /\ UNCHANGED <<client, tx>>
      PROVE  TablesWhole'
  BY <1>4 DEF TablesWhole, InTransaction
<1>5. CASE EndOfQuery
  BY <1>5, <1>4 DEF EndOfQuery, InTransaction, db
<1>6. CASE WriteDelta \/ SaveDelta
  BY <1>6, <1>4 DEF WriteDelta, SaveDelta, InTransaction, db, memory
<1>7. CASE Commit
  BY <1>7 DEF Commit, TablesWhole, InTransaction
<1>8. CASE WriteSnapshot \/ WriteNotify \/ CleanupDone
  BY <1>8, <1>4 DEF WriteSnapshot, WriteNotify, CleanupDone, db
<1>9. CASE RemoveDelta \/ RemoveSnapshot \/ RsyncPDU
  BY <1>9, <1>4 DEF RemoveDelta, RemoveSnapshot, RsyncPDU, db
<1>10. ASSUME NEW r, Rollback \/ Finish(r) PROVE TablesWhole'
  BY <1>10, <1>4 DEF Rollback, Finish, db
<1>11. ASSUME NEW c, NEW uris, SetClient(c, uris) PROVE TablesWhole'
  BY <1>11, <1>4 DEF SetClient
<1>12. ASSUME NEW c \in Client, DestroyClient(c) PROVE TablesWhole'
  <2>1. pc' = "idle"
    BY <1>12 DEF DestroyClient
  <2>2. \A u \in URI :
            /\ content'[u] = IF owner[u] = c THEN None ELSE content[u]
            /\ owner'[u] = IF owner[u] = c THEN None ELSE owner[u]
    BY <1>12 DEF DestroyClient
  <2>3. R!Whole(content', owner')
    BY <2>2 DEF TablesWhole, R!Whole
  <2> QED BY <2>1, <2>3 DEF TablesWhole, InTransaction
<1>13. CASE Crash \/ Restart
  BY <1>13, <1>4 DEF Crash, Restart, db
<1>14. CASE Tick \/ UNCHANGED vars
  BY <1>14, <1>4 DEF Tick, vars, db, memory, InTransaction
<1> QED
  BY <1>1, <1>2, <1>3, <1>5, <1>6, <1>7, <1>8, <1>9, <1>10, <1>11, <1>12, <1>13, <1>14
  DEF Next, NextKept, NextReliable, Step, Environment, Failure, RefusePDU,
      ActivateError, CommitError, FileError, RsyncDone

\* At every step of a query's transaction each URI is as the database has it, or
\* belongs to what the client may use and nobody else occupies; and no object is
\* published twice.
THEOREM TransactionInvariant == Spec => []TxInv
<1>1. Init => TxTouchesOwn
  BY DEF Init, TxTouchesOwn, InTransaction
<1>2. Init => TablesWhole
  BY DEF Init, Empty, TablesWhole, InTransaction, R!Whole
<1>3. TypeOK /\ TxInv /\ [Next]_vars => TxInv'
  BY TxNext, WholeNext DEF TxInv
<1> QED BY <1>1, <1>2, <1>3, TypeCorrect, PTL DEF Spec, TxInv

\* A query changes only URIs that its client may use and that no other client
\* occupies.
THEOREM ClientsAreIsolated == Spec => ClientIsolation
<1>1. ASSUME TxTouchesOwn, [Next]_vars, serial' # serial,
             NEW u \in URI, content'[u] # content[u]
      PROVE  u \in base[client] /\ {owner[u], owner'[u]} \subseteq {client, None}
  <2>1. Commit
    BY <1>1 DEF Next, NextKept, NextReliable, Step, Environment, Failure, vars,
        db, memory, disk, ClientQuery, PublishPDU, WithdrawPDU, ApplyPDU, RefusePDU,
        Rollback, EndOfQuery, WriteDelta, SaveDelta, WriteNotify, ActivateError,
        CommitError, WriteSnapshot, RemoveDelta, RemoveSnapshot, CleanupDone,
        RsyncPDU, Finish, RsyncDone, FileError, SetClient, DestroyClient, Crash,
        Restart, Tick
  <2> QED BY <1>1, <2>1 DEF Commit, TxTouchesOwn, InTransaction
<1>2. TxTouchesOwn /\ [Next]_vars
      => [serial' # serial =>
            \A u \in URI : content'[u] # content[u] =>
               /\ u \in base[client]
               /\ {owner[u], owner'[u]} \subseteq {client, None}]_vars
  BY <1>1
<1> QED BY <1>2, TransactionInvariant, PTL DEF Spec, TxInv, ClientIsolation

-----------------------------------------------------------------------------
(***************************************************************************)
(* The refinement: Commit is the client's update, WriteNotify announces    *)
(* it, the operator's commands are their own, and everything else stutters.*)
(***************************************************************************)

LEMMA UpdateStep ==
    ASSUME TypeOK, FileInv, TxInv, TablesWhole', Commit
    PROVE  client \in Client /\ R!Update(client)
<1>1. /\ content' = tx.content /\ owner' = tx.owner /\ serial' = mem
      /\ UNCHANGED <<base, notify>>
  BY DEF Commit, disk
<1>2. serial' > serial
  BY <1>1 DEF Commit, FileInv, SerialsOrdered, TypeOK
<1>3. client \in Client
  BY DEF Commit, TxInv, TablesWhole, InTransaction
<1>4. R!Whole(content', owner')
  BY DEF TablesWhole
<1>5. \A u \in URI :
          \/ content'[u] = content[u] /\ owner'[u] = owner[u]
          \/ u \in base[client] /\ {owner[u], owner'[u]} \subseteq {client, None}
  BY <1>1 DEF Commit, TxInv, TxTouchesOwn, InTransaction
<1> QED BY <1>1, <1>2, <1>3, <1>4, <1>5 DEF R!Update

LEMMA AnnounceStep ==
    ASSUME TypeOK, FileInv, WriteNotify
    PROVE  R!Announce
<1>1. serial = mem /\ notify.serial < serial /\ serial \in Nat /\ notify.serial \in Nat
  BY DEF WriteNotify, FileInv, SerialsOrdered, TypeOK
<1>2. /\ notify'.serial = mem /\ notify'.snapshot = content
      /\ UNCHANGED <<base, content, owner, serial>>
  BY DEF WriteNotify, db
<1> QED BY <1>1, <1>2 DEF R!Announce

LEMMA SetClientStep ==
    ASSUME TypeOK, NEW c \in Client, NEW uris, SetClient(c, uris)
    PROVE  R!SetBase(c)
<1>1. base' = [base EXCEPT ![c] = uris] /\ UNCHANGED <<content, owner, serial, notify>>
  BY DEF SetClient, disk
<1> QED BY <1>1 DEF R!SetBase, TypeOK

LEMMA DestroyClientStep ==
    ASSUME NEW c \in Client, DestroyClient(c)
    PROVE  R!Remove(c)
BY DEF DestroyClient, disk, R!Remove

\* Every step of pubd is a step of Repository or changes nothing there.
LEMMA RepositoryStep ==
    ASSUME TypeOK, FileInv, TxInv, TablesWhole', [Next]_vars
    PROVE  [R!Next]_(R!repository)
<1>1. CASE Commit
  BY <1>1, UpdateStep DEF R!Next
<1>2. CASE WriteNotify
  BY <1>2, AnnounceStep DEF R!Next
<1>3. ASSUME NEW c \in Client, NEW uris \in SUBSET URI, SetClient(c, uris)
      PROVE  R!Next
  BY <1>3, SetClientStep DEF R!Next
<1>4. ASSUME NEW c \in Client, DestroyClient(c) PROVE R!Next
  BY <1>4, DestroyClientStep DEF R!Next
<1>5. ASSUME UNCHANGED <<base, content, owner, serial, notify>>
      PROVE  UNCHANGED R!repository
  BY <1>5 DEF R!repository
<1>6. ASSUME NEW c, ClientQuery(c) PROVE UNCHANGED <<base, content, owner, serial, notify>>
  BY <1>6 DEF ClientQuery, db, disk
<1>7. ASSUME NEW u, NEW d, NEW h, PublishPDU(u, d, h) \/ WithdrawPDU(u, h)
      PROVE  UNCHANGED <<base, content, owner, serial, notify>>
  BY <1>7 DEF PublishPDU, WithdrawPDU, ApplyPDU, db, disk
<1>8. ASSUME NEW r, Rollback \/ Finish(r)
      PROVE  UNCHANGED <<base, content, owner, serial, notify>>
  BY <1>8 DEF Rollback, Finish, db, disk
<1>9. CASE EndOfQuery \/ WriteDelta \/ SaveDelta \/ CleanupDone
  <2> UNCHANGED <<base, content, owner, serial, notify>>
    BY <1>9 DEF EndOfQuery, WriteDelta, SaveDelta, CleanupDone, db, disk
  <2> QED BY <1>5
<1>10. CASE WriteSnapshot \/ RemoveDelta \/ RemoveSnapshot \/ RsyncPDU
  <2> UNCHANGED <<base, content, owner, serial, notify>>
    BY <1>10 DEF WriteSnapshot, RemoveDelta, RemoveSnapshot, RsyncPDU, db
  <2> QED BY <1>5
<1>11. CASE Crash \/ Restart \/ Tick \/ UNCHANGED vars
  <2> UNCHANGED <<base, content, owner, serial, notify>>
    BY <1>11 DEF Crash, Restart, Tick, vars, db, disk
  <2> QED BY <1>5
<1> QED
  BY <1>1, <1>2, <1>3, <1>4, <1>5, <1>6, <1>7, <1>8, <1>9, <1>10, <1>11
  DEF Next, NextKept, NextReliable, Step, Environment, Failure, RefusePDU,
      ActivateError, CommitError, FileError, RsyncDone

\* pubd implements Repository.
THEOREM PubdImplementsRepository == Spec => ImplementsRepository
<1>1. Init => R!Init
  BY DEF Init, Empty, NoNotify, R!Init
<1>2. TypeOK /\ FileInv /\ TxInv /\ TablesWhole' /\ [Next]_vars
      => [R!Next]_(R!repository)
  BY RepositoryStep
<1>3. TxInv => TablesWhole
  BY DEF TxInv
<1> QED
  BY <1>1, <1>2, <1>3, TypeCorrect, FileInvariant, TransactionInvariant, PTL
  DEF Spec, ImplementsRepository, R!Spec

-----------------------------------------------------------------------------
(***************************************************************************)
(* What an answer means.  AnnouncedInv and RsyncInv are inductive relative *)
(* to TypeOK and FileInv.                                                  *)
(***************************************************************************)

LEMMA AnnouncedNext == TypeOK /\ FileInv /\ AnnouncedInv /\ [Next]_vars => AnnouncedInv'
<1> SUFFICES ASSUME TypeOK, FileInv, AnnouncedInv, [Next]_vars PROVE AnnouncedInv'
  OBVIOUS
<1>1. ASSUME pc' \notin {"clean", "rsync"} PROVE AnnouncedInv'
  BY <1>1 DEF AnnouncedInv
<1>2. ASSUME pc \in {"clean", "rsync"}, UNCHANGED <<notify, serial, content, deltas>>
      PROVE  AnnouncedInv'
  BY <1>2 DEF AnnouncedInv
<1>3. CASE WriteNotify
  BY <1>3 DEF WriteNotify, db, memory, AnnouncedInv, FileInv, SerialsOrdered
<1>4. ASSUME NEW u, NEW d, NEW h, PublishPDU(u, d, h) \/ WithdrawPDU(u, h)
      PROVE  AnnouncedInv'
  BY <1>1, <1>4 DEF PublishPDU, WithdrawPDU, ApplyPDU
<1>5. ASSUME NEW r, Rollback \/ Finish(r) PROVE AnnouncedInv'
  BY <1>1, <1>5 DEF Rollback, Finish
<1>6. ASSUME NEW c, NEW uris,
             ClientQuery(c) \/ SetClient(c, uris) \/ DestroyClient(c)
      PROVE  AnnouncedInv'
  BY <1>1, <1>6 DEF ClientQuery, SetClient, DestroyClient
<1>7. CASE EndOfQuery \/ WriteDelta \/ SaveDelta \/ Commit \/ WriteSnapshot
  BY <1>1, <1>7 DEF EndOfQuery, WriteDelta, SaveDelta, Commit, WriteSnapshot
<1>8. CASE RemoveDelta \/ RemoveSnapshot \/ CleanupDone \/ RsyncPDU
  BY <1>2, <1>8 DEF RemoveDelta, RemoveSnapshot, CleanupDone, RsyncPDU, db, disk
<1>9. CASE Crash \/ Restart
  BY <1>1, <1>9 DEF Crash, Restart
<1>10. CASE Tick \/ UNCHANGED vars
  BY <1>1, <1>2, <1>10 DEF Tick, vars, db, disk
<1> QED
  BY <1>3, <1>4, <1>5, <1>6, <1>7, <1>8, <1>9, <1>10
  DEF Next, NextKept, NextReliable, Step, Environment, Failure, RefusePDU,
      ActivateError, CommitError, FileError, RsyncDone

\* The step that answers is the end of the rsync loop.
LEMMA AnswerIsRsyncDone ==
    ASSUME [Next]_vars, AnswersDelta
    PROVE  /\ pc = "rsync" /\ todo = << >>
           /\ UNCHANGED <<content, serial, deltas, notify, rsync>>
BY DEF AnswersDelta, Next, NextKept, NextReliable, Step, Environment, Failure, vars,
   db, memory, disk, ClientQuery, PublishPDU, WithdrawPDU, ApplyPDU, RefusePDU,
   Rollback, EndOfQuery, WriteDelta, SaveDelta, Commit, WriteNotify, ActivateError,
   CommitError, WriteSnapshot, RemoveDelta, RemoveSnapshot, CleanupDone,
   RsyncPDU, Finish, RsyncDone, FileError, SetClient, DestroyClient, Crash,
   Restart, Tick

\* When a query is answered without an error, notify.xml names the whole
\* repository and every delta that is still in the database.
THEOREM AnswersAreAnnounced == Spec => AnsweredMeansAnnounced
<1>1. Init => AnnouncedInv
  BY DEF Init, AnnouncedInv
<1>2. TypeOK /\ FileInv /\ AnnouncedInv /\ [Next]_vars
      => [AnswersDelta =>
            /\ notify'.serial = serial' /\ notify'.snapshot = content'
            /\ notify'.deltas = {FileOf(d) : d \in deltas'}]_vars
  <2> SUFFICES ASSUME AnnouncedInv, [Next]_vars, AnswersDelta
               PROVE  /\ notify'.serial = serial' /\ notify'.snapshot = content'
                      /\ notify'.deltas = {FileOf(d) : d \in deltas'}
    OBVIOUS
  <2> QED BY AnswerIsRsyncDone DEF AnnouncedInv
<1> QED
  BY <1>1, <1>2, AnnouncedNext, TypeCorrect, FileInvariant, PTL
  DEF Spec, AnsweredMeansAnnounced

\* One PDU more, and what it says is what its URI now has.
LEMMA LastSaysAppend ==
    ASSUME NEW xml \in Seq(PDU), NEW objs \in Content, NEW p \in PDU,
           LastSays(xml, objs)
    PROVE  LastSays(Append(xml, p), [objs EXCEPT ![p.uri] = p.der])
<1> DEFINE longer == Append(xml, p)
           after == [objs EXCEPT ![p.uri] = p.der]
           n == Len(xml)
<1>1. /\ n \in Nat /\ DOMAIN xml = 1 .. n /\ DOMAIN longer = 1 .. n + 1
      /\ longer[n + 1] = p /\ \A i \in 1 .. n : longer[i] = xml[i]
  OBVIOUS
<1>2. \A i \in 1 .. n : xml[i].uri \in URI
  <2>1. \A i \in 1 .. n : xml[i] \in PDU
    OBVIOUS
  <2> QED BY <2>1 DEF PDU
<1>3. p.uri \in URI
  BY DEF PDU
<1>4. after[p.uri] = p.der /\ \A u \in URI : u # p.uri => after[u] = objs[u]
  BY <1>3 DEF Content
<1> HIDE DEF longer, after, n
<1>5. ASSUME NEW i \in DOMAIN longer,
             \A j \in DOMAIN longer : i < j => longer[j].uri # longer[i].uri
      PROVE  after[longer[i].uri] = longer[i].der
  <2>1. CASE i = n + 1
    BY <2>1, <1>1, <1>4
  <2>2. CASE i # n + 1
    <3>1. i \in 1 .. n /\ longer[i] = xml[i]
      BY <2>2, <1>1
    <3>2. xml[i].uri # p.uri
      BY <3>1, <1>1, <1>5
    <3>3. \A j \in DOMAIN xml : i < j => xml[j].uri # xml[i].uri
      BY <3>1, <1>1, <1>5
    <3>4. objs[xml[i].uri] = xml[i].der
      BY <3>1, <3>3, <1>1 DEF LastSays
    <3> QED BY <3>1, <3>2, <3>4, <1>2, <1>4
  <2> QED BY <2>1, <2>2
<1> QED BY <1>5 DEF LastSays, longer, after

\* Whoever starts with the first PDU is as well off without it.
LEMMA LastSaysTail ==
    ASSUME NEW xml \in Seq(PDU), xml # << >>, NEW objs, LastSays(xml, objs)
    PROVE  LastSays(Tail(xml), objs)
<1> DEFINE rest == Tail(xml)
           n == Len(xml)
<1>1. /\ n \in Nat \ {0} /\ DOMAIN xml = 1 .. n /\ DOMAIN rest = 1 .. n - 1
      /\ \A i \in 1 .. n - 1 : rest[i] = xml[i + 1]
  OBVIOUS
<1> HIDE DEF rest, n
<1>2. ASSUME NEW i \in DOMAIN rest,
             \A j \in DOMAIN rest : i < j => rest[j].uri # rest[i].uri
      PROVE  objs[rest[i].uri] = rest[i].der
  <2>1. i + 1 \in DOMAIN xml /\ rest[i] = xml[i + 1]
    BY <1>1
  <2>2. ASSUME NEW j \in DOMAIN xml, i + 1 < j PROVE xml[j].uri # xml[i + 1].uri
    <3>1. j - 1 \in DOMAIN rest /\ i < j - 1 /\ (j - 1) + 1 = j
      BY <2>2, <1>1
    <3>2. rest[j - 1] = xml[j]
      BY <3>1, <1>1
    <3> QED BY <3>1, <3>2, <2>1, <1>2
  <2> QED BY <2>1, <2>2 DEF LastSays
<1> QED BY <1>2 DEF LastSays, rest

\* Applying the first PDU settles its URI, or a later one will.
LEMMA RsyncStep ==
    ASSUME TypeOK, RsyncInv, RsyncPDU
    PROVE  RsyncInv'
<1> DEFINE n == Len(todo)
           p == Head(todo)
<1>1. /\ pc = "rsync" /\ pc' = "rsync" /\ todo # << >>
      /\ rsync' = [rsync EXCEPT ![p.uri] = p.der]
      /\ todo' = Tail(todo) /\ UNCHANGED <<content, delta>>
  BY DEF RsyncPDU, db
<1>2. todo \in Seq(PDU) /\ rsync \in Content
  BY DEF TypeOK
<1>3. /\ n \in Nat \ {0} /\ DOMAIN todo = 1 .. n /\ DOMAIN todo' = 1 .. n - 1
      /\ \A i \in 1 .. n - 1 : todo'[i] = todo[i + 1]
      /\ todo[1] = p /\ p \in PDU
  BY <1>1, <1>2
<1> HIDE DEF n, p
<1>4. p.uri \in URI
  BY <1>3 DEF PDU
<1>5. rsync'[p.uri] = p.der /\ \A u \in URI : u # p.uri => rsync'[u] = rsync[u]
  BY <1>1, <1>2, <1>4 DEF Content
<1>6. LastSays(todo', content')
  BY <1>1, <1>2, LastSaysTail DEF RsyncInv
<1>7. LastSays(delta'.hash, content')
  BY <1>1 DEF RsyncInv
<1>8. ASSUME NEW u \in URI, \/ rsync[u] = content[u]
                            \/ \E j \in DOMAIN todo : todo[j].uri = u
      PROVE  rsync'[u] = content'[u] \/ \E j \in DOMAIN todo' : todo'[j].uri = u
  <2> SUFFICES ASSUME \A j \in DOMAIN todo' : todo'[j].uri # u
               PROVE  rsync'[u] = content'[u]
    OBVIOUS
  <2>1. ASSUME NEW j \in DOMAIN todo, j # 1 PROVE todo[j].uri # u
    <3>1. j - 1 \in DOMAIN todo' /\ (j - 1) + 1 = j
      BY <2>1, <1>3
    <3> QED BY <3>1, <1>3
  <2>2. CASE u = p.uri
    <3>1. 1 \in DOMAIN todo /\ \A j \in DOMAIN todo : 1 < j => todo[j].uri # todo[1].uri
      BY <2>1, <2>2, <1>3
    <3>2. content[p.uri] = p.der
      BY <3>1, <1>1, <1>3 DEF RsyncInv, LastSays
    <3> QED BY <3>2, <2>2, <1>1, <1>5
  <2>3. CASE u # p.uri
    <3>1. \A j \in DOMAIN todo : todo[j].uri # u
      BY <2>1, <2>3, <1>3
    <3> QED BY <3>1, <2>3, <1>1, <1>5, <1>8
  <2> QED BY <2>2, <2>3
<1>9. \A i \in DOMAIN delta.hash : delta.hash[i].uri \in URI
  <2>1. delta.hash \in Seq(PDU)
    BY DEF TypeOK
  <2>2. \A i \in DOMAIN delta.hash : delta.hash[i] \in PDU
    BY <2>1
  <2> QED BY <2>2 DEF PDU
<1>10. ASSUME NEW i \in DOMAIN delta'.hash
       PROVE  LET u == delta'.hash[i].uri
              IN  rsync'[u] = content'[u] \/ \E j \in DOMAIN todo' : todo'[j].uri = u
  <2>1. i \in DOMAIN delta.hash
    BY <1>1
  <2> QED BY <2>1, <1>1, <1>8, <1>9 DEF RsyncInv
<1> QED BY <1>1, <1>6, <1>7, <1>10 DEF RsyncInv, InTransaction

LEMMA RsyncApplyPDU ==
    ASSUME TypeOK, RsyncInv, NEW p \in PDU, NEW o, pc = "pdus", ApplyPDU(p, p.der, o)
    PROVE  RsyncInv'
<1>1. tx.content \in Content /\ CurrentDelta \in DeltaRow /\ mem \in Nat
  BY CurrentDeltaType DEF TypeOK
<1>2. CurrentDelta.hash = delta.hash /\ CurrentDelta.serial # 0
  BY DEF CurrentDelta, RsyncInv, InTransaction, TypeOK
<1>3. /\ delta'.hash = Append(CurrentDelta.hash, p)
      /\ delta'.serial = CurrentDelta.serial
      /\ tx'.content = [tx.content EXCEPT ![p.uri] = p.der]
      /\ pc' = pc
  BY <1>1 DEF ApplyPDU, DeltaRow
<1>4. delta.hash \in Seq(PDU) /\ LastSays(delta.hash, tx.content)
  BY DEF TypeOK, RsyncInv, InTransaction
<1>5. LastSays(delta'.hash, tx'.content)
  BY <1>1, <1>2, <1>3, <1>4, LastSaysAppend
<1> QED BY <1>2, <1>3, <1>5 DEF RsyncInv, InTransaction

LEMMA RsyncNext == TypeOK /\ FileInv /\ RsyncInv /\ [Next]_vars => RsyncInv'
<1> SUFFICES ASSUME TypeOK, FileInv, RsyncInv, [Next]_vars PROVE RsyncInv'
  OBVIOUS
<1>1. ASSUME pc' \in {"idle", "down"} PROVE RsyncInv'
  BY <1>1 DEF RsyncInv, InTransaction
<1>2. ASSUME NEW c \in Client, ClientQuery(c) PROVE RsyncInv'
  BY <1>2 DEF ClientQuery, NoDelta, RsyncInv, InTransaction, LastSays
<1>3. ASSUME NEW u \in URI, NEW d \in Der, NEW h \in Der \cup {None},
             PublishPDU(u, d, h)
      PROVE  RsyncInv'
  <2> DEFINE p == [tag |-> "publish", uri |-> u, der |-> d, hash |-> h]
  <2>1. p \in PDU /\ p.der = d
    BY DEF PDU
  <2>2. pc = "pdus" /\ ApplyPDU(p, d, client)
    BY <1>3 DEF PublishPDU
  <2> HIDE DEF p
  <2> QED BY <2>1, <2>2, RsyncApplyPDU
<1>4. ASSUME NEW u \in URI, NEW h \in Der, WithdrawPDU(u, h) PROVE RsyncInv'
  <2> DEFINE p == [tag |-> "withdraw", uri |-> u, der |-> None, hash |-> h]
  <2>1. p \in PDU /\ p.der = None
    BY DEF PDU
  <2>2. pc = "pdus" /\ ApplyPDU(p, None, None)
    BY <1>4 DEF WithdrawPDU
  <2> HIDE DEF p
  <2> QED BY <2>1, <2>2, RsyncApplyPDU
<1>5. CASE EndOfQuery
  BY <1>5 DEF EndOfQuery, RsyncInv, InTransaction
<1>6. CASE WriteDelta \/ SaveDelta
  BY <1>6 DEF WriteDelta, SaveDelta, memory, RsyncInv, InTransaction
<1>7. CASE Commit
  BY <1>7 DEF Commit, memory, RsyncInv, InTransaction
<1>8. CASE WriteSnapshot \/ WriteNotify \/ RemoveDelta \/ RemoveSnapshot
  BY <1>8 DEF WriteSnapshot, WriteNotify, RemoveDelta, RemoveSnapshot, db, memory,
              RsyncInv, InTransaction
<1>9. CASE CleanupDone
  <2>1. /\ pc = "clean" /\ pc' = "rsync" /\ todo' = delta.hash
        /\ UNCHANGED <<content, delta, rsync>>
    BY <1>9 DEF CleanupDone, db, disk
  <2> QED BY <2>1 DEF RsyncInv, InTransaction
<1>10. CASE RsyncPDU
  BY <1>10, RsyncStep
<1>11. ASSUME NEW r, Rollback \/ Finish(r) PROVE RsyncInv'
  BY <1>1, <1>11 DEF Rollback, Finish
<1>12. ASSUME NEW c, NEW uris, SetClient(c, uris) \/ DestroyClient(c) PROVE RsyncInv'
  BY <1>1, <1>12 DEF SetClient, DestroyClient
<1>13. CASE Crash \/ Restart
  BY <1>1, <1>13 DEF Crash, Restart
<1>14. CASE Tick \/ UNCHANGED vars
  BY <1>14 DEF Tick, vars, db, memory, disk, RsyncInv, InTransaction
<1> QED
  BY <1>2, <1>3, <1>4, <1>5, <1>6, <1>7, <1>8, <1>9, <1>10, <1>11, <1>12, <1>13, <1>14
  DEF Next, NextKept, NextReliable, Step, Environment, Failure, RefusePDU,
      ActivateError, CommitError, FileError, RsyncDone

\* When a query is answered without an error, the rsync tree has what the
\* database has at every URI the query touched.
THEOREM AnswersAreInRsync == Spec => RsyncAgrees
<1>1. Init => RsyncInv
  BY DEF Init, RsyncInv, InTransaction
<1>2. RsyncInv /\ [Next]_vars
      => [AnswersDelta =>
            \A i \in DOMAIN delta.hash :
                LET u == delta.hash[i].uri IN rsync'[u] = content'[u]]_vars
  <2> SUFFICES ASSUME RsyncInv, [Next]_vars, AnswersDelta,
                      NEW i \in DOMAIN delta.hash
               PROVE  rsync'[delta.hash[i].uri] = content'[delta.hash[i].uri]
    OBVIOUS
  <2>1. pc = "rsync" /\ todo = << >> /\ UNCHANGED <<content, rsync>>
    BY AnswerIsRsyncDone
  <2>2. DOMAIN todo = {}
    BY <2>1
  <2> QED BY <2>1, <2>2 DEF RsyncInv
<1> QED
  BY <1>1, <1>2, RsyncNext, TypeCorrect, FileInvariant, PTL DEF Spec, RsyncAgrees

-----------------------------------------------------------------------------
(***************************************************************************)
(* NotifyContiguous, where COMMIT never fails and no client is destroyed.  *)
(* ContiguousInv is inductive relative to TypeOK and FileInv.              *)
(***************************************************************************)

\* Numbers that reach the end of an interval, once begun, are an interval.
LEMMA UpClosed ==
    ASSUME NEW n \in Nat, NEW to \in Nat, NEW S \in SUBSET (n + 1 .. to),
           \A i \in S, j \in n + 1 .. to : i <= j => j \in S
    PROVE  \E m \in 0 .. to : S = m + 1 .. to
<1>1. CASE S = {}
  <2>1. to \in 0 .. to /\ S = to + 1 .. to
    BY <1>1
  <2> QED BY <2>1
<1>2. CASE S # {}
  <2>1. IsWellFoundedOn(OpToRel(<, Nat), Nat)
    BY NatLessThanWellFounded
  <2>2. S \subseteq Nat
    OBVIOUS
  <2>3. PICK x \in S : \A y \in S : ~ (<<y, x>> \in OpToRel(<, Nat))
    BY <1>2, <2>1, <2>2, WFMin
  <2>4. ASSUME NEW y \in S PROVE x <= y
    <3>1. <<y, x>> \notin OpToRel(<, Nat) /\ x \in Nat /\ y \in Nat
      BY <2>2, <2>3
    <3> QED BY <3>1 DEF OpToRel
  <2>5. S = (x - 1) + 1 .. to
    <3>1. x \in n + 1 .. to /\ (x - 1) + 1 = x
      OBVIOUS
    <3>2. S \subseteq x .. to
      BY <2>4
    <3>3. x .. to \subseteq S
      <4> SUFFICES ASSUME NEW j \in x .. to PROVE j \in S
        OBVIOUS
      <4>1. j \in n + 1 .. to /\ x <= j
        BY <3>1
      <4> QED BY <4>1
    <3> QED BY <3>1, <3>2, <3>3
  <2>6. x - 1 \in 0 .. to
    OBVIOUS
  <2> QED BY <2>5, <2>6
<1> QED BY <1>1, <1>2

\* What the transaction commits is still contiguous: expire_deltas() drops the
\* oldest deltas, never one from the middle.
LEMMA CommitContiguous ==
    ASSUME TypeOK, FileInv, ContiguousInv, Commit
    PROVE  \E n \in 0 .. serial' : UpTo(n, serial', deltas')
<1> DEFINE S == {d.serial : d \in deltas'}
<1>1. /\ serial \in Nat /\ mem = serial + 1 /\ serial' = serial + 1
      /\ delta.serial = serial + 1
      /\ \A d \in deltas : d.serial \in Nat /\ d.serial <= serial
  BY DEF Commit, ContiguousInv, FileInv, SerialsOrdered, TypeOK
<1>2. deltas' = {d \in deltas \cup {delta} : ~(d.expires < now)}
  BY DEF Commit
<1>3. now \in Nat /\ \A d \in deltas \cup {delta} : d.expires \in Nat
  BY DEF TypeOK
<1>4. \A d \in deltas, e \in deltas \cup {delta} :
          d.serial <= e.serial => d.expires <= e.expires
  BY <1>1 DEF Commit, ContiguousInv, InTransaction
<1>5. PICK n \in 0 .. serial : UpTo(n, serial, deltas)
  BY DEF ContiguousInv
<1>6. {d.serial : d \in deltas \cup {delta}} = n + 1 .. serial + 1
  <2>1. {d.serial : d \in deltas \cup {delta}}
           = {d.serial : d \in deltas} \cup {serial + 1}
    BY <1>1
  <2>2. {d.serial : d \in deltas} = n + 1 .. serial
    BY <1>5 DEF UpTo
  <2> QED BY <1>1, <2>1, <2>2
<1>7. S \in SUBSET (n + 1 .. serial + 1)
  BY <1>2, <1>6
<1>8. ASSUME NEW i \in S, NEW j \in n + 1 .. serial + 1, i <= j PROVE j \in S
  <2>1. PICK d \in deltas' : d.serial = i
    OBVIOUS
  <2>2. PICK e \in deltas \cup {delta} : e.serial = j
    BY <1>6
  <2>3. CASE d \in deltas
    <3>1. d.expires <= e.expires
      BY <1>4, <1>8, <2>1, <2>2, <2>3
    <3>2. e \in deltas'
      BY <3>1, <1>2, <1>3, <2>1
    <3> QED BY <3>2, <2>2
  <2>4. CASE d = delta
    <3>1. j = i
      BY <1>1, <1>8, <2>1, <2>4
    <3> QED BY <3>1
  <2> QED BY <1>2, <2>1, <2>3, <2>4
<1> HIDE DEF S
<1>9. n \in Nat /\ serial + 1 \in Nat
  BY <1>1
<1>10. PICK m \in 0 .. serial + 1 : S = m + 1 .. serial + 1
  BY <1>7, <1>8, <1>9, UpClosed
<1> QED BY <1>1, <1>10 DEF UpTo, S

LEMMA ContiguousCommit ==
    ASSUME TypeOK, FileInv, ContiguousInv, Commit
    PROVE  ContiguousInv'
<1>1. /\ pc = "commit" /\ pc' = "snapshot" /\ serial' = mem
      /\ deltas' \subseteq deltas \cup {delta}
      /\ UNCHANGED <<mem, now, delta, notify>>
  BY DEF Commit, memory, disk
<1>2. /\ serial \in Nat /\ mem \in Nat /\ serial < mem /\ delta.serial = mem
      /\ delta.expires \in Nat
      /\ \A d \in deltas : d.serial \in Nat /\ d.serial <= serial /\ d.expires \in Nat
  BY <1>1 DEF FileInv, SerialsOrdered, TypeOK
<1>3. \A d \in deltas' : d.expires <= now + Interval
  BY <1>1 DEF ContiguousInv
<1>4. \A d, e \in deltas' : d.serial <= e.serial => d.expires <= e.expires
  BY <1>1, <1>2 DEF ContiguousInv, InTransaction
<1>5. \E n \in 0 .. serial' : UpTo(n, serial', deltas')
  BY CommitContiguous
<1> QED BY <1>1, <1>3, <1>4, <1>5 DEF ContiguousInv, InTransaction

LEMMA ContiguousApplyPDU ==
    ASSUME TypeOK, ContiguousInv, NEW p, NEW d, NEW o, pc = "pdus", ApplyPDU(p, d, o)
    PROVE  ContiguousInv'
<1>1. CurrentDelta \in DeltaRow
  BY CurrentDeltaType
<1>2. /\ delta'.serial = CurrentDelta.serial /\ delta'.expires = CurrentDelta.expires
      /\ UNCHANGED <<pc, mem, serial, now, deltas, notify>>
  BY <1>1 DEF ApplyPDU, DeltaRow, db, disk
<1>3. /\ CurrentDelta.expires <= now + Interval
      /\ \A e \in deltas : e.expires <= CurrentDelta.expires
  BY ConstantTypes DEF CurrentDelta, ContiguousInv, InTransaction, TypeOK
<1> QED BY <1>2, <1>3 DEF ContiguousInv, InTransaction

LEMMA ContiguousWriteNotify ==
    ASSUME TypeOK, FileInv, ContiguousInv, WriteNotify
    PROVE  ContiguousInv'
<1>1. /\ pc = "notify" /\ pc' = "clean" /\ serial = mem
      /\ notify'.serial = mem
      /\ notify'.deltas = {FileOf(d) : d \in deltas}
      /\ UNCHANGED <<serial, deltas, mem, delta, now>>
  BY DEF WriteNotify, db, memory, FileInv, SerialsOrdered
<1>2. {f.serial : f \in notify'.deltas} = {d.serial : d \in deltas}
  <2>1. \A d \in deltas : FileOf(d).serial = d.serial
    BY DEF FileOf
  <2> QED BY <1>1, <2>1
<1>3. \E n \in 0 .. notify'.serial : UpTo(n, notify'.serial, notify'.deltas)
  BY <1>1, <1>2 DEF ContiguousInv, UpTo
<1> QED BY <1>1, <1>3 DEF ContiguousInv, InTransaction

LEMMA ContiguousNext ==
    TypeOK /\ FileInv /\ ContiguousInv /\ [NextReliable]_vars => ContiguousInv'
<1> SUFFICES ASSUME TypeOK, FileInv, ContiguousInv, [NextReliable]_vars
             PROVE  ContiguousInv'
  OBVIOUS
<1>1. ASSUME UNCHANGED <<serial, deltas, notify, now>>,
             pc' = "commit" => mem' = serial + 1,
             pc' \notin {"commit", "down"} => mem' = serial,
             delta' = delta \/ delta' = NoDelta,
             pc' \in {"pdus", "activate", "save", "commit"} /\ delta'.serial # 0
                 => InTransaction /\ delta' = delta
      PROVE  ContiguousInv'
  BY <1>1, ConstantTypes DEF ContiguousInv, InTransaction, NoDelta, TypeOK
<1>2. ASSUME NEW c, ClientQuery(c) PROVE ContiguousInv'
  BY <1>1, <1>2 DEF ClientQuery, db, disk, NoDelta, ContiguousInv
<1>3. ASSUME NEW u, NEW d, NEW h, PublishPDU(u, d, h) PROVE ContiguousInv'
  BY <1>3, ContiguousApplyPDU DEF PublishPDU
<1>4. ASSUME NEW u, NEW h, WithdrawPDU(u, h) PROVE ContiguousInv'
  BY <1>4, ContiguousApplyPDU DEF WithdrawPDU
<1>5. ASSUME Rollback, pc \notin {"commit", "down"} PROVE ContiguousInv'
  BY <1>1, <1>5 DEF Rollback, db, disk, ContiguousInv
<1>6. CASE EndOfQuery
  BY <1>1, <1>6 DEF EndOfQuery, db, disk, ContiguousInv, InTransaction
<1>7. CASE WriteDelta
  BY <1>1, <1>7 DEF WriteDelta, db, memory, ContiguousInv, InTransaction
<1>8. CASE SaveDelta
  BY <1>1, <1>8 DEF SaveDelta, db, disk, ContiguousInv, InTransaction
<1>9. CASE Commit
  BY <1>9, ContiguousCommit
<1>10. CASE WriteNotify
  BY <1>10, ContiguousWriteNotify
<1>11. CASE WriteSnapshot \/ RemoveDelta \/ RemoveSnapshot \/ RsyncPDU \/ CleanupDone
  BY <1>1, <1>11 DEF WriteSnapshot, RemoveDelta, RemoveSnapshot, RsyncPDU,
     CleanupDone, db, memory, disk, ContiguousInv
<1>12. ASSUME NEW r, Finish(r), pc \notin {"commit", "down"} PROVE ContiguousInv'
  BY <1>1, <1>12 DEF Finish, db, disk, ContiguousInv
<1>13. ASSUME NEW c, NEW uris, SetClient(c, uris) PROVE ContiguousInv'
  BY <1>1, <1>13 DEF SetClient, memory, disk, ContiguousInv
<1>14. CASE Crash
  BY <1>1, <1>14 DEF Crash, db, disk
<1>15. CASE Restart
  BY <1>1, <1>15 DEF Restart, db, disk
<1>16. CASE Tick
  <2>1. now \in Nat /\ Interval \in Nat /\ now' = now + 1
        /\ UNCHANGED <<pc, mem, serial, delta, deltas, notify>>
    BY <1>16, ConstantTypes DEF Tick, db, memory, disk, TypeOK
  <2>2. delta.expires \in Nat /\ \A d \in deltas : d.expires \in Nat
    BY DEF TypeOK
  <2> QED BY <2>1, <2>2 DEF ContiguousInv, InTransaction
<1>17. CASE UNCHANGED vars
  BY <1>17 DEF vars, ContiguousInv, InTransaction
<1> QED
  BY <1>2, <1>3, <1>4, <1>5, <1>6, <1>7, <1>8, <1>9, <1>10, <1>11, <1>12, <1>13,
     <1>14, <1>15, <1>16, <1>17
  DEF NextReliable, Step, Environment, Failure, RefusePDU, ActivateError,
      FileError, RsyncDone

\* The deltas that notify.xml offers are consecutive and end at its serial
\* number, where COMMIT never fails and no client is destroyed.
THEOREM NotifyStaysContiguous == SpecReliable => []NotifyContiguous
<1>1. Init => ContiguousInv
  <2> SUFFICES ASSUME Init PROVE ContiguousInv
    OBVIOUS
  <2>1. 0 \in 0 .. 0 /\ UpTo(0, 0, {})
    BY DEF UpTo
  <2> QED BY <2>1, ConstantTypes DEF Init, ContiguousInv, NoDelta, NoNotify, InTransaction
<1>2. ASSUME TypeOK, ContiguousInv PROVE NotifyContiguous
  <2> DEFINE offered == {f.serial : f \in notify.deltas}
  <2>1. PICK n \in 0 .. notify.serial : offered = n + 1 .. notify.serial
    BY <1>2 DEF ContiguousInv, UpTo
  <2>2. notify.serial \in Nat
    BY <1>2 DEF TypeOK
  <2> HIDE DEF offered
  <2>3. Cardinality(offered) = notify.serial - n
    <3>1. n + 1 \in Int /\ notify.serial \in Int
      BY <2>2
    <3>2. Cardinality(n + 1 .. notify.serial)
             = IF n + 1 > notify.serial THEN 0 ELSE notify.serial - (n + 1) + 1
      BY <3>1, FS_Interval
    <3> QED BY <2>1, <2>2, <3>2
  <2>4. offered = (notify.serial - Cardinality(offered) + 1) .. notify.serial
    BY <2>1, <2>2, <2>3
  <2> QED BY <2>4 DEF NotifyContiguous, offered
<1>3. NextReliable => Next
  BY DEF Next, NextKept
<1>4. SpecReliable => Spec
  BY <1>3, PTL DEF SpecReliable, Spec
<1> QED
  BY <1>1, <1>2, <1>4, ContiguousNext, TypeCorrect, FileInvariant, PTL DEF SpecReliable

-----------------------------------------------------------------------------
(***************************************************************************)
(* Rrdp.                                                                   *)
(***************************************************************************)

(***************************************************************************)
(* ApplyDelta applies its elements one after the other.                    *)
(***************************************************************************)

Elements == INSTANCE FoldLemmas WITH op <- ApplyElement

LEMMA ApplyDeltaFolds == \A objs, xml : ApplyDelta(objs, xml) = Elements!Fold(objs, xml)
BY DEF ApplyDelta, Elements!Fold, FoldLeft, Elements!FoldLeft, MapThenFoldSet,
       Elements!MapThenFoldSet, Max, Elements!Max

\* An empty delta changes nothing.
LEMMA ApplyNothing == \A objs : ApplyDelta(objs, << >>) = objs
BY ApplyDeltaFolds, Elements!FoldEmpty

\* A delta with one more element is the delta and then the element.
LEMMA ApplyOneMore ==
    ASSUME NEW S, NEW xml \in Seq(S), NEW p \in S, NEW objs
    PROVE  ApplyDelta(objs, Append(xml, p)) = ApplyElement(ApplyDelta(objs, xml), p)
BY ApplyDeltaFolds, Elements!FoldAppend

\* A delta leaves objects that were there or that it publishes, unless it fails.
LEMMA ApplyDeltaBound ==
    ASSUME NEW xml \in Seq(PDU), NEW objs
    PROVE  ApplyDelta(objs, xml) \subseteq objs \cup {p.der : p \in Range(xml)} \cup {None}
<1> DEFINE all == objs \cup {p.der : p \in Range(xml)} \cup {None}
<1>1. \A i \in DOMAIN xml : xml[i].der \in all
  BY DEF Range
<1>2. objs \in SUBSET all /\ None \in all
  OBVIOUS
<1> HIDE DEF all
<1>3. \A x \in SUBSET all, i \in DOMAIN xml : ApplyElement(x, xml[i]) \in SUBSET all
  BY <1>1, <1>2 DEF ApplyElement
<1>4. ApplyDelta(objs, xml) \in SUBSET all
  BY <1>2, <1>3, ApplyDeltaFolds, Elements!FoldInvariant
<1> QED BY <1>4 DEF all

-----------------------------------------------------------------------------
(***************************************************************************)
(* The transaction: the delta being built leads to what it will commit.    *)
(***************************************************************************)

LEMMA ObjectsInDef ==
    ASSUME NEW c \in Content
    PROVE  ObjectsIn(c) = {c[u] : u \in URI} \ {None} /\ ObjectsIn(c) \subseteq Der
BY DEF ObjectsIn, Range, Content

\* One PDU, in the delta and in the table.
LEMMA ApplyPDULeads ==
    ASSUME NEW c \in Content, NEW u \in URI, NEW p \in PDU, p.uri = u,
           p.hash = c[u],
           p.tag = "withdraw" => p.der = None /\ p.hash # None,
           p.tag = "publish" => p.der # None,
           \A v, w \in URI : c[v] = c[w] /\ c[v] # None => v = w
    PROVE  ApplyElement(ObjectsIn(c), p) = ObjectsIn([c EXCEPT ![u] = p.der])
<1> DEFINE new == [c EXCEPT ![u] = p.der]
<1>1. p.der \in Der \cup {None} /\ p.tag \in {"publish", "withdraw"}
  BY DEF PDU
<1>2. new \in Content
  BY <1>1 DEF Content
<1>3. \A v \in URI : new[v] = IF v = u THEN p.der ELSE c[v]
  BY DEF Content
<1> HIDE DEF new
<1>4. ObjectsIn(new) = {new[v] : v \in URI} \ {None}
  BY <1>2, ObjectsInDef
<1>5. ObjectsIn(c) = {c[v] : v \in URI} \ {None}
  BY ObjectsInDef
<1>6. p.hash # None => p.hash \in ObjectsIn(c)
  BY <1>5
<1>7. None \notin ObjectsIn(c)
  BY <1>5
<1>8. ASSUME NEW d
      PROVE  d \in ObjectsIn(new) <=>
                d # None /\ (d = p.der \/ (d \in ObjectsIn(c) /\ d # p.hash))
  <2>1. ASSUME d \in ObjectsIn(new)
        PROVE  d # None /\ (d = p.der \/ (d \in ObjectsIn(c) /\ d # p.hash))
    <3>1. PICK v \in URI : d = new[v] /\ d # None
      BY <2>1, <1>4
    <3> QED BY <3>1, <1>3, <1>5
  <2>2. ASSUME d # None, d = p.der
        PROVE  d \in ObjectsIn(new)
    BY <2>2, <1>3, <1>4
  <2>3. ASSUME d # None, d \in ObjectsIn(c), d # p.hash
        PROVE  d \in ObjectsIn(new)
    BY <2>3, <1>3, <1>4, <1>5
  <2> QED BY <2>1, <2>2, <2>3
<1>9. CASE p.tag = "publish"
  BY <1>6, <1>7, <1>8, <1>9 DEF ApplyElement, new
<1>10. CASE p.tag = "withdraw"
  BY <1>6, <1>7, <1>8, <1>10 DEF ApplyElement, new
<1> QED BY <1>1, <1>9, <1>10

\* A PDU of the handler's loop keeps TxLeads.
LEMMA TxLeadsPDU ==
    ASSUME TypeOK, FileInv, TxInv, TxLeads, NEW p \in PDU, NEW o, pc = "pdus",
           ApplyPDU(p, p.der, o), HashNamesObject,
           p.tag = "withdraw" => p.der = None /\ p.hash # None,
           p.tag = "publish" => p.der # None
    PROVE  TxLeads'
<1>1. /\ CurrentDelta \in DeltaRow /\ CurrentDelta.serial = mem + 1 /\ mem \in Nat
      /\ delta \in DeltaRow /\ tx.content \in Content
  BY CurrentDeltaType DEF CurrentDelta, FileInv, SerialsOrdered, TypeOK, DeltaRow
<1>2. ApplyDelta(ObjectsIn(content), CurrentDelta.hash) = ObjectsIn(tx.content)
  BY ApplyNothing DEF CurrentDelta, TxLeads, InTransaction
<1>3. CurrentDelta.hash = delta.hash
  BY DEF CurrentDelta, TxLeads, InTransaction
<1>4. /\ delta'.hash = Append(delta.hash, p) /\ delta'.serial = mem + 1
      /\ tx'.content = [tx.content EXCEPT ![p.uri] = p.der]
      /\ UNCHANGED <<pc, content>>
  BY <1>1, <1>3 DEF ApplyPDU, db, DeltaRow
<1>5. delta.hash \in Seq(PDU)
  BY <1>1 DEF DeltaRow
<1>6. Len(delta'.hash) > Len(delta.hash) /\ Last(delta'.hash) = p
  BY <1>4, <1>5 DEF Last
<1>7. p.uri \in URI /\ p.hash = tx.content[p.uri]
  BY <1>6 DEF HashNamesObject, PDU
<1>8. \A v, w \in URI : tx.content[v] = tx.content[w] /\ tx.content[v] # None => v = w
  BY DEF TxInv, TablesWhole, InTransaction, R!Whole
<1>9. ApplyElement(ObjectsIn(tx.content), p) = ObjectsIn(tx'.content)
  BY <1>1, <1>4, <1>7, <1>8, ApplyPDULeads
<1>10. ApplyDelta(ObjectsIn(content), delta'.hash) = ObjectsIn(tx'.content)
  BY <1>2, <1>3, <1>4, <1>5, <1>9, ApplyOneMore
<1> QED BY <1>1, <1>4, <1>10 DEF TxLeads

LEMMA TxLeadsNext ==
    ASSUME TypeOK, FileInv, TxInv, TxLeads, [NextKept /\ HashNamesObject]_vars
    PROVE  TxLeads'
<1>1. ASSUME NEW c \in Client, ClientQuery(c) PROVE TxLeads'
  <2>1. tx'.content = content /\ content' = content /\ delta'.hash = << >>
    BY <1>1 DEF ClientQuery, NoDelta, db
  <2> QED BY <2>1, ApplyNothing DEF TxLeads
<1>2. ASSUME NEW u \in URI, NEW d \in Der, NEW h \in Der \cup {None},
             PublishPDU(u, d, h), HashNamesObject
      PROVE  TxLeads'
  <2> DEFINE p == [tag |-> "publish", uri |-> u, der |-> d, hash |-> h]
  <2>1. p \in PDU /\ p.tag = "publish" /\ p.der = d /\ d # None
    BY ConstantTypes DEF PDU
  <2>2. pc = "pdus" /\ ApplyPDU(p, d, client)
    BY <1>2 DEF PublishPDU
  <2> HIDE DEF p
  <2> QED BY <1>2, <2>1, <2>2, TxLeadsPDU
<1>3. ASSUME NEW u \in URI, NEW h \in Der, WithdrawPDU(u, h), HashNamesObject
      PROVE  TxLeads'
  <2> DEFINE p == [tag |-> "withdraw", uri |-> u, der |-> None, hash |-> h]
  <2>1. p \in PDU /\ p.tag = "withdraw" /\ p.der = None /\ p.hash # None
    BY ConstantTypes DEF PDU
  <2>2. pc = "pdus" /\ ApplyPDU(p, None, None)
    BY <1>3 DEF WithdrawPDU
  <2> HIDE DEF p
  <2> QED BY <1>3, <2>1, <2>2, TxLeadsPDU
<1>4. ASSUME pc' \notin {"pdus", "activate", "save", "commit"} PROVE TxLeads'
  BY <1>4 DEF TxLeads, InTransaction
<1>5. ASSUME pc \in {"pdus", "activate", "save", "commit"},
             UNCHANGED <<content, tx, delta>>
      PROVE  TxLeads'
  BY <1>5 DEF TxLeads, InTransaction
<1>6. CASE EndOfQuery
  BY <1>6, <1>4, <1>5 DEF EndOfQuery, db
<1>7. CASE WriteDelta \/ SaveDelta
  BY <1>7, <1>5 DEF WriteDelta, SaveDelta, db, memory
<1>8. CASE Commit \/ WriteSnapshot \/ WriteNotify \/ CleanupDone
  BY <1>8, <1>4 DEF Commit, WriteSnapshot, WriteNotify, CleanupDone
<1>9. CASE RemoveDelta \/ RemoveSnapshot \/ RsyncPDU
  BY <1>9, <1>4 DEF RemoveDelta, RemoveSnapshot, RsyncPDU
<1>10. ASSUME NEW r, Rollback \/ Finish(r) PROVE TxLeads'
  BY <1>10, <1>4 DEF Rollback, Finish
<1>11. ASSUME NEW c, NEW uris, SetClient(c, uris) PROVE TxLeads'
  BY <1>11, <1>4 DEF SetClient
<1>12. CASE Crash \/ Restart
  BY <1>12, <1>4 DEF Crash, Restart
<1>13. CASE Tick \/ UNCHANGED vars
  BY <1>13, <1>4, <1>5 DEF Tick, vars, db, memory
<1> QED
  BY <1>1, <1>2, <1>3, <1>6, <1>7, <1>8, <1>9, <1>10, <1>11, <1>12, <1>13
  DEF NextKept, NextReliable, Step, Environment, Failure, RefusePDU,
      ActivateError, CommitError, FileError, RsyncDone

-----------------------------------------------------------------------------
(***************************************************************************)
(* A step of pubd.  Only Commit and WriteNotify change anything that the   *)
(* relying party's invariant is about.                                     *)
(***************************************************************************)

LEMMA PubdStepCases ==
    ASSUME [NextKept]_vars
    PROVE  \/ Commit \/ WriteNotify
           \/ UNCHANGED <<content, serial, deltas, notify>>
BY DEF NextKept, NextReliable, Step, Environment, Failure, vars, db, memory, disk,
    ClientQuery, PublishPDU, WithdrawPDU, ApplyPDU, RefusePDU, Rollback,
    EndOfQuery, WriteDelta, SaveDelta, ActivateError, CommitError, WriteSnapshot,
    RemoveDelta, RemoveSnapshot, CleanupDone, RsyncPDU, Finish, RsyncDone,
    FileError, SetClient, Crash, Restart, Tick

\* The model's bound on serial numbers is respected.
LEMMA MemBoundedNext ==
    ASSUME TypeOK, MemBounded, [NextKept]_vars
    PROVE  MemBounded'
<1> USE DEF MemBounded
<1>1. MaxSerial \in Nat
  BY ConstantsAssumption
<1>2. ASSUME UNCHANGED <<mem, serial>>, pc' \in {"pdus", "activate", "save"} =>
                 pc \in {"pdus", "activate", "save"}
      PROVE  MemBounded'
  BY <1>2
<1>3. ASSUME NEW c, ClientQuery(c) PROVE MemBounded'
  BY <1>3 DEF ClientQuery, db
<1>4. ASSUME NEW u, NEW d, NEW h, PublishPDU(u, d, h) \/ WithdrawPDU(u, h)
      PROVE  MemBounded'
  BY <1>4, <1>2 DEF PublishPDU, WithdrawPDU, ApplyPDU, db
<1>5. CASE EndOfQuery \/ WriteDelta
  BY <1>5, <1>2 DEF EndOfQuery, WriteDelta, db, memory
<1>6. CASE SaveDelta
  BY <1>6, <1>1 DEF SaveDelta, db, TypeOK
<1>7. CASE Commit
  BY <1>7 DEF Commit, memory
<1>8. CASE WriteSnapshot \/ WriteNotify \/ CleanupDone
  BY <1>8, <1>2 DEF WriteSnapshot, WriteNotify, CleanupDone, db, memory
<1>9. CASE RemoveDelta \/ RemoveSnapshot \/ RsyncPDU
  BY <1>9, <1>2 DEF RemoveDelta, RemoveSnapshot, RsyncPDU, db, memory
<1>10. ASSUME NEW r, Rollback \/ Finish(r) PROVE MemBounded'
  BY <1>10, <1>2 DEF Rollback, Finish, db
<1>11. ASSUME NEW c, NEW uris, SetClient(c, uris) PROVE MemBounded'
  BY <1>11, <1>2 DEF SetClient, memory
<1>12. CASE Crash
  BY <1>12, <1>1 DEF Crash, db
<1>13. CASE Restart
  BY <1>13 DEF Restart, db
<1>14. CASE Tick \/ UNCHANGED vars
  BY <1>14, <1>2 DEF Tick, vars, db, memory
<1> QED
  BY <1>3, <1>4, <1>5, <1>6, <1>7, <1>8, <1>9, <1>10, <1>11, <1>12, <1>13, <1>14
  DEF NextKept, NextReliable, Step, Environment, Failure, RefusePDU,
      ActivateError, CommitError, FileError, RsyncDone

\* The type of what DeltasLead speaks of.
LEMMA KnownType ==
    ASSUME TypeOK, RpTypeOK, MemBounded, DeltasLead
    PROVE  /\ Known \subseteq 0 .. MaxSerial /\ Offered \subseteq DeltaFile
           /\ serial \in Nat /\ MaxSerial \in Nat
<1>1. serial \in Nat /\ MaxSerial \in Nat
  BY ConstantsAssumption DEF TypeOK
<1>2. Offered \subseteq DeltaFile
  BY FileOfType DEF Offered, TypeOK, RpTypeOK, DeltaRow
<1>3. Known \subseteq Nat
  BY <1>1, <1>2 DEF Known, TypeOK, RpTypeOK, Snap, DeltaFile
<1>4. \A n \in Known : n <= MaxSerial
  BY <1>1, <1>3 DEF DeltasLead, MemBounded
<1> QED BY <1>1, <1>2, <1>3, <1>4

\* The part of RpInv that a step of pubd might disturb through its tables.
TablesInv == HistoryKept /\ DeltasLead /\ RowsAscend /\ FetchInv /\ RpInSync

LEMMA QuietStep ==
    ASSUME TablesInv, UNCHANGED <<content, serial, deltas, notify, hist, rpVars>>
    PROVE  TablesInv'
BY DEF TablesInv, HistoryKept, DeltasLead, RowsAscend, FetchInv, RpInSync, RpTypeOK,
       rpVars, Known, Offered, Selected, latest, IsLatest

LEMMA CommitStep ==
    ASSUME TypeOK, FileInv, MemBounded, TxLeads, TablesInv, TypeOK', PubdStep(Commit)
    PROVE  TablesInv'
<1> USE DEF TablesInv
<1>1. /\ content' = tx.content /\ serial' = mem /\ serial < mem
      /\ delta.serial = mem /\ UNCHANGED <<notify, rpVars>>
      /\ \A d \in deltas' : d \in deltas \/ d = delta
  BY DEF PubdStep, Commit, FileInv, SerialsOrdered, disk
<1>2. /\ serial \in Nat /\ mem \in Nat /\ MaxSerial \in Nat /\ mem <= MaxSerial
      /\ Known \subseteq 0 .. MaxSerial /\ Offered \subseteq DeltaFile
      /\ \A n \in Known : n <= serial
      /\ serial \in Known /\ \A f \in Offered : f.serial \in Known
  BY KnownType DEF RpInSync, TypeOK, MemBounded, DeltasLead, Known
<1>3. hist' = [hist EXCEPT ![mem] = tx.content]
  BY <1>1, <1>2 DEF PubdStep
<1>4. hist \in [0 .. MaxSerial -> Content] /\ tx.content \in Content
  BY DEF RpInSync, RpTypeOK, TypeOK
<1>5. hist'[mem] = tx.content /\ \A n \in Known : hist'[n] = hist[n]
  BY <1>1, <1>2, <1>3, <1>4
<1>6. /\ rows' = rows /\ note' = note /\ part' = part /\ store' = store
      /\ rpc' = rpc /\ outcome' = outcome
  BY <1>1 DEF rpVars
<1>7. Offered' \subseteq Offered \cup {FileOf(delta)}
  BY <1>1, <1>6 DEF Offered
<1>8. FileOf(delta).serial = mem /\ FileOf(delta).hash = delta.hash
  BY <1>1 DEF FileOf
<1>9. Known' \subseteq Known \cup {mem}
  <2>1. {f.serial : f \in Offered'} \subseteq Known \cup {mem}
    BY <1>7, <1>8 DEF Known
  <2>2. {note.serial, notify.serial} \cup {r.serial : r \in rows} \subseteq Known
    BY DEF Known
  <2> QED BY <2>1, <2>2, <1>1, <1>6 DEF Known
<1>10. HistoryKept'
  <2>1. \A v \in {notify, note} : v.serial \in Known
    BY DEF Known
  <2> QED BY <1>1, <1>5, <1>6, <2>1 DEF HistoryKept
<1>11. DeltasLead'
  <2>1. \A n \in Known' : n <= serial'
    BY <1>1, <1>2, <1>9
  <2>2. ASSUME NEW f \in Offered', NEW n \in Known', n + 1 = f.serial
        PROVE  ApplyDelta(ObjectsIn(hist'[n]), f.hash) = ObjectsIn(hist'[f.serial])
    <3>1. CASE f \in Offered
      <4>1. f.serial \in Known /\ n \in Known
        BY <3>1, <2>2, <1>1, <1>2, <1>9
      <4> QED BY <3>1, <4>1, <2>2, <1>5 DEF DeltasLead
    <3>2. CASE f = FileOf(delta)
      <4>1. n \in Known /\ n + 1 = mem
        BY <3>2, <2>2, <1>2, <1>8, <1>9
      <4>2. n = serial
        BY <4>1, <1>1, <1>2
      <4>3. hist'[n] = content
        BY <4>1, <4>2, <1>5 DEF HistoryKept
      <4>4. ApplyDelta(ObjectsIn(content), delta.hash) = ObjectsIn(tx.content)
        BY DEF TxLeads, InTransaction, PubdStep, Commit
      <4> QED BY <3>2, <4>3, <4>4, <1>5, <1>8
    <3> QED BY <3>1, <3>2, <2>2, <1>7
  <2> QED BY <2>1, <2>2 DEF DeltasLead
<1>12. FetchInv'
  BY <1>1, <1>6 DEF FetchInv, Selected, latest, IsLatest
<1>13. RpInSync'
  <2>1. \A r \in rows : r.serial \in Known
    BY DEF Known
  <2>2. hist' \in [0 .. MaxSerial -> Content]
    BY <1>3, <1>4
  <2> QED BY <2>1, <2>2, <1>5, <1>6 DEF RpInSync, RpTypeOK
<1>14. RowsAscend'
  BY <1>6 DEF RowsAscend
<1> QED BY <1>10, <1>11, <1>12, <1>13, <1>14

LEMMA WriteNotifyStep ==
    ASSUME TypeOK, FileInv, TablesInv, TypeOK', PubdStep(WriteNotify)
    PROVE  TablesInv'
<1> USE DEF TablesInv
<1>1. /\ notify' = [serial |-> mem, snapshot |-> content,
                    deltas |-> {FileOf(d) : d \in deltas}]
      /\ UNCHANGED <<content, serial, deltas>>
  BY DEF PubdStep, WriteNotify, db
<1>2. /\ hist' = hist /\ rows' = rows /\ note' = note /\ part' = part
      /\ store' = store /\ rpc' = rpc /\ outcome' = outcome
  BY <1>1 DEF PubdStep, rpVars
<1>3. /\ serial = mem /\ notify.serial < serial
      /\ serial \in Nat /\ notify.serial \in Nat
  BY DEF PubdStep, WriteNotify, FileInv, SerialsOrdered, TypeOK
<1>4. HistoryKept'
  BY <1>1, <1>2, <1>3 DEF HistoryKept
<1>5. Offered' \subseteq Offered
  BY <1>1, <1>2 DEF Offered
<1>6. Known' \subseteq Known
  BY <1>1, <1>2, <1>3, <1>5 DEF Known
<1>7. DeltasLead'
  BY <1>1, <1>2, <1>5, <1>6 DEF DeltasLead
<1>8. FetchInv'
  <2>1. /\ note.serial \in Nat /\ note'.serial <= notify'.serial
        /\ \A r \in rows' \cup {part'} : r.serial <= notify'.serial
    BY <1>1, <1>2, <1>3 DEF FetchInv, RpInSync, RpTypeOK, Snap
  <2> QED BY <1>2, <2>1 DEF FetchInv, Selected, latest, IsLatest
<1>9. RpInSync' /\ RowsAscend'
  BY <1>2 DEF RpInSync, RpTypeOK, RowsAscend
<1> QED BY <1>4, <1>7, <1>8, <1>9

\* Every step of pubd keeps RpInv.
LEMMA PubdKeepsRpInv ==
    ASSUME TypeOK, FileInv, TxInv, RpInv, TypeOK',
           PubdStep(NextKept) /\ HashNamesObject
    PROVE  RpInv'
<1>1. NextKept
  BY DEF PubdStep
<1>2. MemBounded'
  BY <1>1, MemBoundedNext DEF RpInv
<1>3. TxLeads'
  BY <1>1, TxLeadsNext DEF RpInv
<1>4. TablesInv
  BY DEF RpInv, TablesInv
<1>5. CASE Commit
  <2>1. PubdStep(Commit)
    BY <1>5 DEF PubdStep
  <2> QED BY <2>1, <1>2, <1>3, <1>4, CommitStep DEF RpInv, TablesInv
<1>6. CASE WriteNotify
  <2>1. PubdStep(WriteNotify)
    BY <1>6 DEF PubdStep
  <2> QED BY <2>1, <1>2, <1>3, <1>4, WriteNotifyStep DEF RpInv, TablesInv
<1>7. CASE UNCHANGED <<content, serial, deltas, notify>>
  <2>1. hist' = hist /\ UNCHANGED rpVars
    BY <1>7 DEF PubdStep
  <2> QED BY <2>1, <1>2, <1>3, <1>4, <1>7, QuietStep DEF RpInv, TablesInv
<1> QED BY <1>1, <1>5, <1>6, <1>7, PubdStepCases

-----------------------------------------------------------------------------
(***************************************************************************)
(* A step of the relying party.  It leaves pubd and the history alone.     *)
(***************************************************************************)

\* A step that takes its notification and the serial numbers of its rows from
\* what is known already.
LEMMA RpFrame ==
    ASSUME TypeOK, RpInv, UNCHANGED <<vars, hist>>,
           note' \in {note, notify, NoNotify}, \A r \in rows' : r.serial \in Known
    PROVE  MemBounded' /\ TxLeads' /\ HistoryKept' /\ DeltasLead'
<1>1. UNCHANGED <<content, serial, deltas, mem, pc, tx, delta, notify>>
  BY DEF vars
<1>2. MemBounded' /\ TxLeads'
  BY <1>1 DEF RpInv, MemBounded, TxLeads, InTransaction
<1>3. HistoryKept'
  BY <1>1 DEF RpInv, HistoryKept, NoNotify
<1>4. Offered' \subseteq Offered
  BY <1>1 DEF Offered, NoNotify
<1>5. Known' \subseteq Known
  <2>1. {f.serial : f \in Offered'} \subseteq Known
    BY <1>4 DEF Known
  <2>2. note'.serial \in Known
    BY DEF Known, NoNotify
  <2>3. {0, notify.serial, serial} \subseteq Known
    BY DEF Known
  <2> QED BY <1>1, <2>1, <2>2, <2>3 DEF Known
<1>6. DeltasLead'
  BY <1>1, <1>4, <1>5 DEF RpInv, DeltasLead
<1> QED BY <1>2, <1>3, <1>6

\* The row that no other was retrieved after.
LEMMA LatestIs ==
    \A set \in SUBSET Snap : \A x \in set :
        (\A s \in set : s = x \/ s.retrieved < x.retrieved)
            => (CHOOSE r \in set : \A s \in set : s.retrieved <= r.retrieved) = x
<1> SUFFICES ASSUME NEW set \in SUBSET Snap, NEW x \in set,
                    \A s \in set : s = x \/ s.retrieved < x.retrieved
             PROVE  (CHOOSE r \in set : \A s \in set : s.retrieved <= r.retrieved) = x
  OBVIOUS
<1> DEFINE Best(r) == \A s \in set : s.retrieved <= r.retrieved
<1>1. \A s \in set : s.retrieved \in Nat
  BY DEF Snap
<1>2. \A r \in set : Best(r) <=> r = x
  BY <1>1
<1> HIDE DEF Best
<1>3. (CHOOSE r \in set : Best(r)) = x
  BY <1>2
<1> QED BY <1>3 DEF Best

\* There is a latest row, and it has the highest serial number.
LEMMA LatestRow ==
    ASSUME TypeOK, RpInv, rows # {}
    PROVE  /\ latest \in rows
           /\ \A s \in rows : s = latest \/ (/\ s.retrieved < latest.retrieved
                                             /\ s.serial < latest.serial)
<1>1. rows \subseteq Snap /\ RowsAscend
  BY DEF RpInv, RpInSync, RpTypeOK
<1>2. \A r \in rows : r.serial \in Nat /\ r.retrieved \in Nat
  BY <1>1 DEF Snap
<1>3. notify.serial \in Nat /\ \A r \in rows : r.serial <= notify.serial
  BY DEF RpInv, FetchInv, TypeOK
<1> DEFINE T == {notify.serial - r.serial : r \in rows}
<1>4. T \subseteq Nat /\ T # {}
  BY <1>2, <1>3
<1>5. PICK x \in rows : \A s \in rows : s.serial <= x.serial
  <2>1. PICK t \in T : \A u \in T : ~(u < t)
    <3>1. IsWellFoundedOn(OpToRel(<, Nat), Nat)
      BY NatLessThanWellFounded
    <3> HIDE DEF T
    <3>2. PICK t \in T : \A u \in T : ~(<<u, t>> \in OpToRel(<, Nat))
      BY <1>4, <3>1, WFMin
    <3> QED BY <1>4, <3>2 DEF OpToRel
  <2>2. PICK x \in rows : t = notify.serial - x.serial
    BY <2>1
  <2>3. \A s \in rows : s.serial <= x.serial
    <3> TAKE s \in rows
    <3>1. notify.serial - s.serial \in T
      OBVIOUS
    <3> HIDE DEF T
    <3>2. ~(notify.serial - s.serial < notify.serial - x.serial)
      BY <2>1, <2>2, <3>1
    <3> QED BY <1>2, <1>3, <3>2
  <2> QED BY <2>3
<1>6. \A s \in rows : s = x \/ (s.retrieved < x.retrieved /\ s.serial < x.serial)
  <2> TAKE s \in rows
  <2>1. s.retrieved \in Nat /\ x.retrieved \in Nat /\ s.serial \in Nat /\ x.serial \in Nat
    BY <1>2, <1>5
  <2>2. x.retrieved <= s.retrieved => x = s \/ x.serial < s.serial
    BY <1>1, <1>5 DEF RowsAscend
  <2>3. s.retrieved <= x.retrieved => s = x \/ s.serial < x.serial
    BY <1>1, <1>5 DEF RowsAscend
  <2> QED BY <1>5, <2>1, <2>2, <2>3
<1>7. latest = x
  BY <1>1, <1>5, <1>6, LatestIs DEF latest, IsLatest
<1> QED BY <1>5, <1>6, <1>7

LEMMA RpTypes ==
    ASSUME TypeOK, RpInv
    PROVE  /\ rows \subseteq Snap /\ part \in Snap /\ Selected \in Snap /\ latest \in Snap
           /\ store \subseteq Der /\ Selected.objs \subseteq store
           /\ note \in [serial : Nat, snapshot : Content \cup {None},
                        deltas : SUBSET DeltaFile]
           /\ notify \in [serial : Nat, snapshot : Content \cup {None},
                          deltas : SUBSET DeltaFile]
           /\ NoNotify \in [serial : Nat, snapshot : Content \cup {None},
                            deltas : SUBSET DeltaFile]
           /\ NoRow \in Snap /\ 0 \in Known /\ \A r \in rows : r.serial \in Known
           /\ note.serial \in Known /\ \A f \in note.deltas : f.serial \in Known
           /\ MaxSerial \in Nat
           /\ hist \in [0 .. MaxSerial -> Content]
           /\ Known \subseteq 0 .. MaxSerial
<1>1. RpTypeOK
  BY DEF RpInv, RpInSync
<1>2. NoRow \in Snap
  BY DEF NoRow, Snap
<1>3. latest \in Snap /\ (rows # {} => latest \in rows)
  BY <1>1, <1>2, LatestRow DEF latest, RpTypeOK
<1>4. Selected \in Snap /\ Selected.objs \subseteq store
  BY <1>1, <1>3 DEF Selected, RpTypeOK
<1>5. Known \subseteq 0 .. MaxSerial
  BY <1>1, KnownType DEF RpInv
<1> QED BY <1>1, <1>2, <1>3, <1>4, <1>5, ConstantTypes, ConstantsAssumption
        DEF RpTypeOK, TypeOK, Known, Offered

\* A row that is complete is not NoRow.
LEMMA SelectedRow ==
    ASSUME TypeOK, RpInv
    PROVE  /\ rows # {} => Selected = latest /\ latest # NoRow
           /\ rows = {} => Selected = part
BY LatestRow DEF Selected, RpInv, RowsAscend, NoRow

LEMMA FetchFailsStep ==
    ASSUME TypeOK, RpInv, UNCHANGED <<vars, hist>>, FetchFails
    PROVE  RpInv'
<1> USE DEF FetchFails
<1>1. MemBounded' /\ TxLeads' /\ HistoryKept' /\ DeltasLead'
  BY RpTypes, RpFrame
<1>2. UNCHANGED <<notify, rows, part, store, hist>> /\ note' = NoNotify
  BY DEF vars
<1>3. FetchInv' /\ RowsAscend'
  BY <1>2, RpTypes DEF RpInv, FetchInv, RowsAscend, NoNotify
<1>4. RpInSync'
  BY <1>2, RpTypes DEF RpInv, RpInSync, RpTypeOK
<1> QED BY <1>1, <1>3, <1>4 DEF RpInv

LEMMA FetchNotificationStep ==
    ASSUME TypeOK, RpInv, UNCHANGED <<vars, hist>>, FetchNotification
    PROVE  RpInv'
<1> SUFFICES ASSUME ~FetchFails PROVE RpInv'
  BY FetchFailsStep
<1> DEFINE offered == {f.serial : f \in notify.deltas}
<1>1. /\ note' = notify /\ notify.serial # 0 /\ UNCHANGED <<rows, part, store, notify, hist>>
      /\ rpc' \in {"done", "snapshot", "deltas"}
      /\ rpc' = "done" => Selected # NoRow /\ Selected.serial = notify.serial
      /\ rpc' = "snapshot" => Selected = NoRow \/ Selected.serial # notify.serial
      /\ rpc' = "deltas" => /\ Selected # NoRow
                            /\ Selected.serial + 1 .. notify.serial \subseteq offered
  BY DEF FetchNotification, vars
<1>2. MemBounded' /\ TxLeads' /\ HistoryKept' /\ DeltasLead'
  BY <1>1, RpTypes, RpFrame
<1>3. /\ \A r \in rows \cup {part} : r.serial <= notify.serial /\ r.serial \in Nat
      /\ notify.serial \in Nat /\ Selected.serial <= notify.serial
  <2>1. \A r \in rows \cup {part} : r.serial <= notify.serial
    BY DEF RpInv, FetchInv
  <2>2. Selected \in rows \cup {part}
    BY LatestRow DEF Selected
  <2> QED BY <2>1, <2>2, RpTypes DEF Snap
<1>4. Selected' = Selected /\ latest' = latest
  BY <1>1 DEF Selected, latest, IsLatest
<1>5. rpc' = "snapshot" => \A r \in rows : r.serial < notify.serial
  <2> SUFFICES ASSUME rpc' = "snapshot", rows # {}
               PROVE  \A r \in rows : r.serial < notify.serial
    OBVIOUS
  <2>1. latest \in rows /\ latest.serial # notify.serial
    BY <1>1, LatestRow, SelectedRow
  <2>2. \A r \in rows : r = latest \/ r.serial < latest.serial
    BY LatestRow
  <2> QED BY <1>3, <2>1, <2>2
<1>6. rpc' = "done" /\ rows # {} => latest.serial = notify.serial
  BY <1>1, SelectedRow
<1>7. FetchInv'
  BY <1>1, <1>3, <1>4, <1>5, <1>6 DEF FetchInv
<1>8. RpInSync' /\ RowsAscend'
  BY <1>1, RpTypes DEF RpInv, RpInSync, RpTypeOK, RowsAscend
<1> QED BY <1>2, <1>7, <1>8 DEF RpInv

LEMMA FetchSnapshotStep ==
    ASSUME TypeOK, RpInv, UNCHANGED <<vars, hist>>, FetchSnapshot
    PROVE  RpInv'
<1> SUFFICES ASSUME ~FetchFails PROVE RpInv'
  BY FetchFailsStep
<1>1. /\ rpc = "snapshot" /\ rpc' = "load"
      /\ part' = [retrieved |-> 0, serial |-> note.serial, objs |-> {}]
      /\ UNCHANGED <<note, rows, store, outcome, notify, hist>>
  BY DEF FetchSnapshot, vars, NoRow
<1>2. MemBounded' /\ TxLeads' /\ HistoryKept' /\ DeltasLead'
  BY <1>1, RpTypes, RpFrame
<1>3. part' \in Snap
  BY <1>1, RpTypes DEF Snap
<1>4. FetchInv' /\ RowsAscend'
  BY <1>1 DEF RpInv, FetchInv, RowsAscend
<1>5. RpInSync'
  BY <1>1, <1>3 DEF RpInv, RpInSync, RpTypeOK
<1> QED BY <1>2, <1>4, <1>5 DEF RpInv

LEMMA LoadObjectsStep ==
    ASSUME TypeOK, RpInv, UNCHANGED <<vars, hist>>, LoadObjects
    PROVE  RpInv'
<1>1. /\ rpc = "load" /\ UNCHANGED <<rpc, note, rows, part, outcome, notify, hist>>
      /\ store \subseteq store'
      /\ \E d \in ObjectsIn(note.snapshot) : store' = store \cup {d}
  BY DEF LoadObjects, vars
<1>2. MemBounded' /\ TxLeads' /\ HistoryKept' /\ DeltasLead'
  BY <1>1, RpTypes, RpFrame
<1>3. note.snapshot \in Content
  <2>1. 1 <= note.serial
    BY <1>1 DEF RpInv, FetchInv
  <2>2. note.serial \in 0 .. MaxSerial
    BY RpTypes
  <2>3. note.snapshot = hist[note.serial]
    BY <2>1, <2>2 DEF RpInv, HistoryKept
  <2> QED BY <2>2, <2>3, RpTypes
<1>4. store' \subseteq Der
  BY <1>1, <1>3, ObjectsInDef, RpTypes
<1>5. FetchInv' /\ RowsAscend'
  BY <1>1 DEF RpInv, FetchInv, RowsAscend
<1>6. RpInSync'
  BY <1>1, <1>4 DEF RpInv, RpInSync, RpTypeOK
<1> QED BY <1>2, <1>5, <1>6 DEF RpInv

LEMMA LinkObjectsStep ==
    ASSUME TypeOK, RpInv, UNCHANGED <<vars, hist>>, LinkObjects
    PROVE  RpInv'
<1>1. /\ rpc = "load" /\ rpc' = "retrieved"
      /\ ObjectsIn(note.snapshot) \subseteq store
      /\ part' = [part EXCEPT !.objs = ObjectsIn(note.snapshot)]
      /\ UNCHANGED <<note, rows, store, outcome, notify, hist>>
  BY DEF LinkObjects, vars
<1>2. MemBounded' /\ TxLeads' /\ HistoryKept' /\ DeltasLead'
  BY <1>1, RpTypes, RpFrame
<1>3. part' = [retrieved |-> 0, serial |-> note.serial, objs |-> ObjectsIn(note.snapshot)]
  BY <1>1, RpTypes DEF RpInv, FetchInv, Snap
<1>4. part' \in Snap /\ part'.objs \subseteq store
  BY <1>1, <1>3, RpTypes DEF Snap
<1>5. FetchInv' /\ RowsAscend'
  BY <1>1, <1>3 DEF RpInv, FetchInv, RowsAscend
<1>6. RpInSync'
  BY <1>1, <1>4 DEF RpInv, RpInSync, RpTypeOK
<1> QED BY <1>2, <1>5, <1>6 DEF RpInv

\* A step that brings in a row: a committed state that has been announced and is
\* newer than all rows, besides them or in the place of the newest.
Brings(r) ==
    /\ r.serial \in Known /\ 1 <= r.serial /\ r.serial <= notify.serial
    /\ r.objs = ObjectsIn(hist[r.serial])
    /\ \A q \in rows : q.serial < r.serial
    /\ \/ rows' = rows \cup {r}
       \/ \E q \in rows : /\ rows' = (rows \ {q}) \cup {r}
                          /\ \A d \in rows : d = q \/ d.serial < q.serial

LEMMA CompleteSnapshotStep ==
    ASSUME TypeOK, RpInv, UNCHANGED <<vars, hist>>, CompleteSnapshot
    PROVE  RpInv' /\ \E r : Brings(r)
<1> DEFINE new == [part EXCEPT !.retrieved = latest.retrieved + 1]
<1>1. /\ rpc = "retrieved" /\ rpc' = "done"
      /\ rows' = rows \cup {new} /\ part' = NoRow
      /\ UNCHANGED <<note, store, notify, hist>>
  BY DEF CompleteSnapshot, vars
<1>2. /\ part = [retrieved |-> 0, serial |-> note.serial, objs |-> ObjectsIn(note.snapshot)]
      /\ \A r \in rows : r.serial < note.serial
      /\ note.serial <= notify.serial
  BY <1>1 DEF RpInv, FetchInv
<1>3. new = [retrieved |-> latest.retrieved + 1, serial |-> note.serial,
             objs |-> ObjectsIn(note.snapshot)]
  BY <1>2
<1>4. latest.retrieved \in Nat /\ note.serial \in Nat /\ notify.serial \in Nat
  BY RpTypes DEF Snap
<1>5. new \in Snap /\ new.objs \subseteq store
  <2>1. part \in Snap /\ part.objs \subseteq store
    BY DEF RpInv, RpInSync, RpTypeOK
  <2> QED BY <1>2, <1>3, <1>4, <2>1 DEF Snap
<1>6. new.retrieved = latest.retrieved + 1 /\ new.serial = note.serial
      /\ new.objs = ObjectsIn(note.snapshot)
  BY <1>3
<1> HIDE DEF new
<1>7. \A r \in rows : /\ r.retrieved < new.retrieved /\ r.serial < new.serial
                      /\ r.retrieved \in Nat /\ r.serial \in Nat /\ 1 <= r.retrieved
  <2> TAKE r \in rows
  <2>1. r = latest \/ r.retrieved < latest.retrieved
    BY LatestRow
  <2>2. r.retrieved \in Nat /\ r.serial \in Nat /\ 1 <= r.retrieved
    BY RpTypes DEF Snap, RpInv, RowsAscend
  <2> QED BY <1>2, <1>4, <1>6, <2>1, <2>2
<1>8. note.serial # 0
  BY <1>1 DEF RpInv, FetchInv
<1>9. note.snapshot = hist[note.serial]
  BY <1>8 DEF RpInv, HistoryKept
<1>10. MemBounded' /\ TxLeads' /\ HistoryKept' /\ DeltasLead'
  BY <1>1, <1>6, RpTypes, RpFrame
<1>11. RowsAscend'
  <2>1. new.retrieved \in Nat /\ new.serial \in Nat /\ 1 <= new.retrieved
    BY <1>4, <1>6
  <2>2. \A r \in rows' : 1 <= r.retrieved
    BY <1>1, <1>7, <2>1
  <2>3. \A r, s \in rows' : r.retrieved <= s.retrieved => r = s \/ r.serial < s.serial
    <3> TAKE r, s \in rows'
    <3>1. CASE r \in rows /\ s \in rows
      BY <3>1 DEF RpInv, RowsAscend
    <3>2. CASE r = new
      BY <1>1, <1>7, <2>1, <3>2
    <3>3. CASE r \in rows /\ s = new
      BY <1>7, <3>3
    <3> QED BY <1>1, <3>1, <3>2, <3>3
  <2> QED BY <2>2, <2>3 DEF RowsAscend
<1>12. rows' \subseteq Snap
  BY <1>1, <1>5, RpTypes
<1>13. latest' = new
  <2>1. new \in rows' /\ \A s \in rows' : s = new \/ s.retrieved < new.retrieved
    BY <1>1, <1>7
  <2> QED BY <1>12, <2>1, LatestIs DEF latest, IsLatest
<1>14. FetchInv'
  <2>1. \A r \in rows' \cup {part'} : r.serial <= notify'.serial
    BY <1>1, <1>2, <1>4, <1>6, <1>7 DEF NoRow
  <2> QED BY <1>1, <1>2, <1>6, <1>13, <2>1 DEF FetchInv
<1>15. RpInSync'
  <2>1. RpTypeOK'
    BY <1>1, <1>5, <1>12, RpTypes DEF RpInv, RpInSync, RpTypeOK, NoRow
  <2>2. \A r \in rows' : r.objs = ObjectsIn(hist'[r.serial])
    BY <1>1, <1>6, <1>9 DEF RpInv, RpInSync
  <2> QED BY <2>1, <2>2 DEF RpInSync
<1>16. Brings(new)
  BY <1>1, <1>2, <1>4, <1>6, <1>7, <1>8, <1>9, RpTypes DEF Brings
<1> QED BY <1>10, <1>11, <1>14, <1>15, <1>16 DEF RpInv

\* One delta, when it is not refused.
LEMMA ApplyNextDeltaStep ==
    ASSUME TypeOK, RpInv, UNCHANGED <<vars, hist>>, ApplyNextDelta
    PROVE  RpInv' /\ (rows' = rows \/ \E r : Brings(r))
<1> DEFINE next == Selected.serial + 1
           wanted == {f \in note.deltas : f.serial = next}
           file == CHOOSE f \in wanted : TRUE
           objs == ApplyDelta(Selected.objs, file.hash)
           new == [retrieved |-> Selected.retrieved, serial |-> next, objs |-> objs]
<1> SUFFICES ASSUME ~FetchFails PROVE RpInv' /\ (rows' = rows \/ \E r : Brings(r))
  BY FetchFailsStep DEF FetchFails
<1>1. /\ rpc = "deltas" /\ Selected.serial < note.serial /\ None \notin objs
      /\ IF rows # {} THEN rows' = (rows \ {Selected}) \cup {new} /\ part' = part
                      ELSE part' = new /\ rows' = rows
      /\ store' = store \cup ({p.der : p \in Range(file.hash)} \ {None})
      /\ UNCHANGED <<rpc, note, outcome, notify, hist>>
  BY DEF ApplyNextDelta, UpdateSelected, vars
<1>2. /\ Selected # NoRow /\ next <= note.serial /\ next \in Nat /\ 1 <= next
      /\ next .. note.serial \subseteq {f.serial : f \in note.deltas}
      /\ note.serial \in Nat /\ notify.serial \in Nat /\ note.serial <= notify.serial
  <2>1. /\ Selected # NoRow /\ note.serial <= notify.serial
        /\ Selected.serial + 1 .. note.serial \subseteq {f.serial : f \in note.deltas}
    <3>1. rpc = "deltas"
      BY DEF ApplyNextDelta
    <3> QED BY <3>1 DEF RpInv, FetchInv
  <2>2. Selected.serial \in Nat /\ note.serial \in Nat /\ notify.serial \in Nat
    BY RpTypes DEF Snap
  <2>3. next <= note.serial /\ next \in Nat /\ 1 <= next
    <3>1. Selected.serial < note.serial
      BY DEF ApplyNextDelta
    <3> QED BY <2>2, <3>1
  <2> QED BY <2>1, <2>2, <2>3
<1>3. file \in note.deltas /\ file.serial = next
  <2>1. \E f \in note.deltas : f.serial = next
    BY <1>2
  <2> QED BY <2>1
<1>4. file.hash \in Seq(PDU) /\ file \in Offered
  BY <1>3, RpTypes DEF DeltaFile, Offered
<1> HIDE DEF file
<1>5. objs \subseteq Selected.objs \cup {p.der : p \in Range(file.hash)} \cup {None}
  BY <1>4, ApplyDeltaBound
<1>6. {p.der : p \in Range(file.hash)} \ {None} \subseteq Der
  <2>1. \A p \in Range(file.hash) : p \in PDU
    BY <1>4 DEF Range
  <2> QED BY <2>1 DEF PDU
<1> HIDE DEF objs
<1>7. store' \subseteq Der /\ objs \subseteq store' /\ store \subseteq store'
  BY <1>1, <1>5, <1>6, RpTypes
<1>8. /\ new \in Snap /\ new.serial = next /\ new.objs = objs
      /\ new.retrieved = Selected.retrieved /\ new # NoRow
  <2>1. new = [retrieved |-> Selected.retrieved, serial |-> next, objs |-> objs]
    OBVIOUS
  <2>2. Selected.retrieved \in Nat
    BY RpTypes DEF Snap
  <2> HIDE DEF new, next
  <2> QED BY <1>2, <1>7, <2>1, <2>2 DEF Snap, NoRow
<1> HIDE DEF new
<1>9. next \in Known
  BY <1>3, RpTypes
<1>10. MemBounded' /\ TxLeads' /\ HistoryKept' /\ DeltasLead'
  <2>1. \A r \in rows' : r.serial \in Known
    BY <1>1, <1>8, <1>9, RpTypes
  <2> QED BY <1>1, <2>1, RpFrame
<1>11. next + 1 .. note.serial \subseteq {f.serial : f \in note.deltas}
  BY <1>2
<1>12. RpTypeOK'
  <2>1. rows' \subseteq Snap /\ part' \in Snap
    BY <1>1, <1>8, RpTypes
  <2>2. \A r \in rows' \cup {part'} : r \in rows \cup {part} \/ r = new
    BY <1>1
  <2>3. \A r \in rows \cup {part} : r.objs \subseteq store
    BY DEF RpInv, RpInSync, RpTypeOK
  <2>4. \A r \in rows' \cup {part'} : r.objs \subseteq store'
    BY <1>7, <1>8, <2>2, <2>3
  <2>5. UNCHANGED <<hist, rpc, note>>
    BY <1>1
  <2> QED BY <1>7, <2>1, <2>4, <2>5 DEF RpInv, RpInSync, RpTypeOK
<1>13. \A r \in rows' \cup {part'} : r.serial <= notify.serial
  <2>1. \A r \in rows \cup {part} : r.serial <= notify.serial
    BY DEF RpInv, FetchInv
  <2>2. new.serial <= notify.serial
    BY <1>2, <1>8
  <2> QED BY <1>1, <2>1, <2>2
<1>14. CASE rows = {}
  <2>1. rows' = {} /\ part' = new
    BY <1>1, <1>14
  <2>2. Selected' = new
    BY <2>1 DEF Selected
  <2>3. FetchInv'
    BY <1>1, <1>2, <1>8, <1>11, <1>13, <2>2 DEF FetchInv
  <2>4. RpInSync' /\ RowsAscend'
    BY <1>12, <2>1 DEF RpInSync, RowsAscend
  <2> QED BY <1>10, <1>14, <2>1, <2>3, <2>4 DEF RpInv
<1>15. CASE rows # {}
  <2>1. /\ Selected = latest /\ latest \in rows /\ part' = part
        /\ rows' = (rows \ {latest}) \cup {new}
    BY <1>1, <1>15, LatestRow, SelectedRow
  <2>2. \A s \in rows : s = latest \/ (s.retrieved < latest.retrieved
                                       /\ s.serial < latest.serial)
    BY <1>15, LatestRow
  <2>3. /\ new.retrieved = latest.retrieved /\ new.serial = latest.serial + 1
        /\ latest.serial \in Nat /\ latest.retrieved \in Nat /\ 1 <= latest.retrieved
    BY <1>8, <2>1, RpTypes DEF Snap, RpInv, RowsAscend
  <2>4. \A s \in rows : s.serial \in Nat /\ s.retrieved \in Nat /\ 1 <= s.retrieved
    BY RpTypes DEF Snap, RpInv, RowsAscend
  <2>5. \A s \in rows' : s = new \/ (/\ s \in rows
                                     /\ s.retrieved < new.retrieved
                                     /\ s.serial < new.serial)
    BY <2>1, <2>2, <2>3, <2>4
  <2>6. new.objs = ObjectsIn(hist[next])
    <3>1. latest.objs = ObjectsIn(hist[latest.serial])
      BY <2>1 DEF RpInv, RpInSync
    <3>2. latest.serial \in Known /\ latest.serial + 1 = file.serial
      BY <1>3, <2>1, RpTypes
    <3> QED BY <1>3, <1>4, <1>8, <2>1, <3>1, <3>2 DEF RpInv, DeltasLead, objs
  <2>7. RowsAscend'
    <3>1. \A r \in rows' : 1 <= r.retrieved /\ r.retrieved \in Nat /\ r.serial \in Nat
      BY <2>1, <2>3, <2>4
    <3>2. \A r, s \in rows' : r.retrieved <= s.retrieved => r = s \/ r.serial < s.serial
      <4> TAKE r, s \in rows'
      <4>1. CASE r = new
        BY <2>5, <3>1, <4>1
      <4>2. CASE s = new
        BY <2>5, <4>2
      <4>3. CASE r \in rows /\ s \in rows
        BY <4>3 DEF RpInv, RowsAscend
      <4> QED BY <2>5, <4>1, <4>2, <4>3
    <3> QED BY <3>1, <3>2 DEF RowsAscend
  <2>8. latest' = new
    <3>1. rows' \subseteq Snap
      BY <1>12 DEF RpTypeOK
    <3>2. new \in rows' /\ \A s \in rows' : s = new \/ s.retrieved < new.retrieved
      BY <2>1, <2>5
    <3> QED BY <3>1, <3>2, LatestIs DEF latest, IsLatest
  <2>9. Selected' = new
    BY <2>1, <2>8 DEF Selected
  <2>10. FetchInv'
    BY <1>1, <1>2, <1>8, <1>11, <1>13, <2>9 DEF FetchInv
  <2>11. RpInSync'
    BY <1>1, <1>8, <1>12, <2>5, <2>6 DEF RpInv, RpInSync
  <2>12. Brings(new)
    <3>1. \A q \in rows : q.serial < new.serial
      BY <2>2, <2>3, <2>4
    <3> QED BY <1>2, <1>8, <1>9, <2>1, <2>2, <2>6, <3>1 DEF Brings
  <2> QED BY <1>10, <2>7, <2>10, <2>11, <2>12 DEF RpInv
<1> QED BY <1>14, <1>15

LEMMA DeltasDoneStep ==
    ASSUME TypeOK, RpInv, UNCHANGED <<vars, hist>>, DeltasDone
    PROVE  RpInv'
<1>1. /\ rpc = "deltas" /\ Selected.serial = note.serial /\ rpc' = "done"
      /\ UNCHANGED <<note, rows, part, store, notify, hist>>
  BY DEF DeltasDone, vars
<1>2. MemBounded' /\ TxLeads' /\ HistoryKept' /\ DeltasLead'
  BY <1>1, RpTypes, RpFrame
<1>3. FetchInv' /\ RowsAscend'
  BY <1>1 DEF RpInv, FetchInv, RowsAscend, Selected, latest, IsLatest
<1>4. RpInSync'
  BY <1>1 DEF RpInv, RpInSync, RpTypeOK
<1> QED BY <1>2, <1>3, <1>4 DEF RpInv

LEMMA FinalCleanupStep ==
    ASSUME TypeOK, RpInv, UNCHANGED <<vars, hist>>, FinalCleanup
    PROVE  RpInv' /\ rows' \subseteq rows
<1>1. PICK valid \in SUBSET store :
          /\ rows' = {r \in rows : r.objs \cap valid # {}}
          /\ store' = valid \cup UNION {r.objs : r \in rows'}
  BY DEF FinalCleanup
<1>2. /\ rpc' = "off" /\ part' = NoRow /\ note' = NoNotify
      /\ UNCHANGED <<notify, hist>>
  BY DEF FinalCleanup, vars
<1>3. rows' \subseteq rows
  BY <1>1
<1>4. MemBounded' /\ TxLeads' /\ HistoryKept' /\ DeltasLead'
  BY <1>2, <1>3, RpTypes, RpFrame
<1>5. FetchInv'
  BY <1>2, <1>3, RpTypes DEF RpInv, FetchInv, NoRow, NoNotify
<1>6. RowsAscend'
  BY <1>3 DEF RpInv, RowsAscend
<1>7. \A r \in rows : r.objs \subseteq store
  BY DEF RpInv, RpInSync, RpTypeOK
<1>8. store' \subseteq Der /\ \A r \in rows' : r.objs \subseteq store'
  <2>1. UNION {r.objs : r \in rows'} \subseteq store
    BY <1>3, <1>7
  <2>2. \A r \in rows' : r.objs \subseteq UNION {q.objs : q \in rows'}
    OBVIOUS
  <2> QED BY <1>1, <2>1, <2>2, RpTypes
<1>9. RpInSync'
  BY <1>2, <1>3, <1>8, RpTypes DEF RpInv, RpInSync, RpTypeOK, NoRow
<1> QED BY <1>3, <1>4, <1>5, <1>6, <1>9 DEF RpInv

LEMMA KilledStep ==
    ASSUME TypeOK, RpInv, UNCHANGED <<vars, hist>>, Killed
    PROVE  RpInv'
<1>1. /\ rpc' = "off" /\ note' = NoNotify /\ part' \in {part, NoRow}
      /\ UNCHANGED <<rows, store, notify, hist>>
  BY DEF Killed, vars
<1>2. MemBounded' /\ TxLeads' /\ HistoryKept' /\ DeltasLead'
  BY <1>1, RpTypes, RpFrame
<1>3. FetchInv' /\ RowsAscend'
  BY <1>1, RpTypes DEF RpInv, FetchInv, RowsAscend, NoRow, NoNotify
<1>4. part' \in Snap /\ part'.objs \subseteq store /\ \A r \in rows : r.objs \subseteq store
  <2>1. \A r \in rows \cup {part} : r.objs \subseteq store
    BY DEF RpInv, RpInSync, RpTypeOK
  <2>2. NoRow.objs \subseteq store
    BY DEF NoRow
  <2> QED BY <1>1, <2>1, <2>2, RpTypes
<1>5. RpTypeOK'
  BY <1>1, <1>4, RpTypes DEF RpTypeOK
<1>6. RpInSync'
  BY <1>1, <1>5 DEF RpInv, RpInSync
<1> QED BY <1>2, <1>3, <1>6 DEF RpInv

LEMMA RpKeepsRpInv ==
    ASSUME TypeOK, RpInv, RpStep
    PROVE  RpInv'
<1>1. UNCHANGED <<vars, hist>>
  BY DEF RpStep
<1> QED
  BY <1>1, FetchNotificationStep, FetchSnapshotStep, LoadObjectsStep,
     LinkObjectsStep, CompleteSnapshotStep, ApplyNextDeltaStep, DeltasDoneStep,
     FinalCleanupStep, KilledStep
  DEF RpStep

-----------------------------------------------------------------------------
(***************************************************************************)
(* The theorems.                                                           *)
(***************************************************************************)

\* The relying party does not disturb pubd: its invariants hold here too.
LEMMA PubdInvariants == RrdpSpec => [](TypeOK /\ FileInv /\ TxInv)
<1>1. [RrdpNext]_allVars => [Next]_vars
  BY DEF RrdpNext, allVars, RpStep, PubdStep, Next
<1>2. RrdpSpec => Spec
  BY <1>1, PTL DEF RrdpSpec, Spec
<1> QED BY <1>2, TypeCorrect, FileInvariant, TransactionInvariant, PTL

LEMMA RpInvInit == Init /\ RpInit => RpInv
<1> SUFFICES ASSUME Init, RpInit PROVE RpInv
  OBVIOUS
<1> USE ConstantTypes, ConstantsAssumption DEF Init, RpInit
<1>1. MemBounded /\ TxLeads
  BY DEF MemBounded, TxLeads, InTransaction
<1>2. /\ hist \in [0 .. MaxSerial -> Content] /\ hist[serial] = content
      /\ NoRow \in Snap
  BY DEF NoRow, Snap
<1>3. HistoryKept
  BY <1>2 DEF HistoryKept, NoNotify
<1>4. Offered = {}
  BY DEF Offered, NoNotify
<1>5. DeltasLead
  BY <1>4 DEF DeltasLead, Known, NoRow, NoNotify
<1>6. FetchInv
  BY DEF FetchInv, NoRow, NoNotify
<1>7. RpInSync
  BY <1>2 DEF RpInSync, RpTypeOK, NoRow
<1>8. RowsAscend
  BY DEF RowsAscend
<1> QED BY <1>1, <1>3, <1>5, <1>6, <1>7, <1>8 DEF RpInv

LEMMA RpInvNext ==
    ASSUME TypeOK, FileInv, TxInv, RpInv, TypeOK', [RrdpNext]_allVars
    PROVE  RpInv'
<1>1. CASE RpStep
  BY <1>1, RpKeepsRpInv
<1>2. CASE PubdStep(NextKept) /\ HashNamesObject
  BY <1>2, PubdKeepsRpInv
<1>3. CASE UNCHANGED allVars
  <2>1. UNCHANGED vars /\ UNCHANGED <<hist, rpVars>>
    BY <1>3 DEF allVars
  <2>2. UNCHANGED <<content, serial, deltas, notify, mem, pc, tx, delta>>
    BY <2>1 DEF vars
  <2>3. TablesInv'
    BY <2>1, <2>2, QuietStep DEF RpInv, TablesInv
  <2> QED BY <2>2, <2>3 DEF RpInv, TablesInv, MemBounded, TxLeads, InTransaction
<1> QED BY <1>1, <1>2, <1>3 DEF RrdpNext

\* RpInv holds in every reachable state of pubd and the relying party.
THEOREM RpInvariant == RrdpSpec => []RpInv
<1>1. TypeOK /\ FileInv /\ TxInv /\ RpInv /\ TypeOK' /\ [RrdpNext]_allVars => RpInv'
  BY RpInvNext
<1> QED BY <1>1, RpInvInit, PubdInvariants, PTL DEF RrdpSpec

\* A relying party never holds, under a serial number, anything but what pubd
\* committed under that number.
THEOREM RelyingPartyInSync == RrdpSpec => []RpInSync
<1>1. RpInv => RpInSync
  BY DEF RpInv
<1> QED BY <1>1, RpInvariant, PTL

\* A fetch that ends well leaves every object of the repository in the store.
THEOREM SuccessIsComplete == RrdpSpec => []SuccessMeansComplete
<1>1. TypeOK /\ RpInv => SuccessMeansComplete
  <2> SUFFICES ASSUME TypeOK, RpInv, rpc = "done", outcome \in {"current", "loaded"},
                      rows # {}
               PROVE  ObjectsIn(hist[note.serial]) \subseteq store
    BY DEF SuccessMeansComplete
  <2>1. latest \in rows /\ latest.serial = note.serial
    BY LatestRow DEF RpInv, FetchInv
  <2>2. latest.objs = ObjectsIn(hist[note.serial]) /\ latest.objs \subseteq store
    BY <2>1 DEF RpInv, RpInSync, RpTypeOK
  <2> QED BY <2>2
<1> QED BY <1>1, RpInvariant, PubdInvariants, PTL

\* The relying party's complete snapshots are a Replica of the repository: only
\* final_cleanup takes it back, to an older snapshot that it has kept.
THEOREM RelyingPartyImplementsReplica == RrdpSpec => ImplementsReplica
<1> DEFINE copies == {[serial |-> r.serial, objs |-> r.objs] : r \in rows}
           copied == <<P!repository, hist, copies>>
<1>1. Init /\ RpInit => P!ReplicaInit
  BY ConstantsAssumption DEF Init, RpInit, Empty, NoNotify,
     P!ReplicaInit, P!Init
<1>2. ASSUME TypeOK, FileInv, TxInv, TablesWhole', RpInv, PubdStep(NextKept)
      PROVE  P!Publish \/ UNCHANGED copied
  <2>1. [R!Next]_(R!repository)
    BY <1>2, RepositoryStep DEF PubdStep, Next
  <2>2. P!Next \/ UNCHANGED P!repository
    BY <2>1 DEF R!Next, P!Next, R!Update, P!Update, R!Announce, P!Announce,
       R!SetBase, P!SetBase, R!Remove, P!Remove, R!Whole, P!Whole,
       R!repository, P!repository
  <2>3. UNCHANGED rows /\ hist' = IF serial' = serial THEN hist
                                 ELSE [hist EXCEPT ![serial'] = content']
    BY <1>2 DEF PubdStep, rpVars
  <2>4. UNCHANGED P!repository => serial' = serial
    BY DEF P!repository
  <2> QED BY <2>2, <2>3, <2>4 DEF P!Publish
<1>3. ASSUME TypeOK, RpInv, RpStep
      PROVE  P!Pull \/ P!Forget \/ UNCHANGED copied
  <2>1. UNCHANGED P!repository /\ UNCHANGED <<vars, hist>>
    BY <1>3 DEF RpStep, vars, P!repository
  <2>2. ASSUME NEW r, Brings(r)
        PROVE  P!Pull
    <3>1. /\ r.serial \in Nat /\ 1 <= r.serial /\ r.serial <= notify.serial
          /\ notify.serial \in Nat /\ hist[r.serial] \in Content
          /\ r.objs = ObjectsIn(hist[r.serial])
          /\ \A q \in rows : q.serial < r.serial
      BY <1>3, <2>2, RpTypes DEF Brings
    <3>2. [serial |-> r.serial, objs |-> r.objs] = P!CopyOf(r.serial)
      BY <3>1, ObjectsInDef DEF P!CopyOf
    <3>3. \A c \in copies : c.serial < r.serial
      BY <3>1
    <3>4. \/ copies' = copies \cup {P!CopyOf(r.serial)}
          \/ \E c \in copies :
                P!IsNewest(c) /\ copies' = (copies \ {c}) \cup {P!CopyOf(r.serial)}
      <4>1. CASE rows' = rows \cup {r}
        BY <3>2, <4>1
      <4>2. ASSUME NEW q \in rows, rows' = (rows \ {q}) \cup {r},
                   \A d \in rows : d = q \/ d.serial < q.serial
            PROVE  \E c \in copies :
                P!IsNewest(c) /\ copies' = (copies \ {c}) \cup {P!CopyOf(r.serial)}
        <5> DEFINE c == [serial |-> q.serial, objs |-> q.objs]
        <5>1. \A d \in rows : d.serial \in Nat
          BY <1>3, RpTypes DEF Snap
        <5>2. c \in copies /\ P!IsNewest(c)
          BY <4>2, <5>1 DEF P!IsNewest
        <5>3. \A d \in rows : d # q => [serial |-> d.serial, objs |-> d.objs] # c
          BY <4>2, <5>1
        <5>4. copies' = (copies \ {c}) \cup {[serial |-> r.serial, objs |-> r.objs]}
          BY <4>2, <5>3
        <5> QED BY <3>2, <5>2, <5>4
      <4> QED BY <2>2, <4>1, <4>2 DEF Brings
    <3> HIDE DEF copies
    <3>5. r.serial \in 1 .. notify.serial
      BY <3>1
    <3> QED BY <2>1, <3>3, <3>4, <3>5 DEF P!Pull, copies
  <2>3. CASE CompleteSnapshot
    BY <1>3, <2>1, <2>2, <2>3, CompleteSnapshotStep
  <2>4. CASE ApplyNextDelta
    BY <1>3, <2>1, <2>2, <2>4, ApplyNextDeltaStep
  <2>5. CASE FinalCleanup
    BY <1>3, <2>1, <2>5, FinalCleanupStep DEF P!Forget
  <2>6. CASE rows' = rows
    BY <2>1, <2>6
  <2> QED
    BY <1>3, <2>3, <2>4, <2>5, <2>6
    DEF RpStep, FetchNotification, FetchFails, FetchSnapshot, LoadObjects,
        LinkObjects, DeltasDone, Killed
<1>4. TxInv => TablesWhole
  BY DEF TxInv
<1>5. /\ TypeOK /\ FileInv /\ TxInv /\ TablesWhole' /\ RpInv
      /\ [RrdpNext]_allVars
      => [P!Publish \/ P!Pull \/ P!Forget]_copied
  <2>1. CASE UNCHANGED allVars
    BY <2>1 DEF allVars, vars, rpVars, P!repository
  <2> QED BY <1>2, <1>3, <2>1 DEF RrdpNext
<1> QED
  BY <1>1, <1>4, <1>5, PubdInvariants, RpInvariant, PTL
  DEF RrdpSpec, ImplementsReplica, P!ReplicaSpec

=============================================================================
