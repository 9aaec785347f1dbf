-------------------------- MODULE SuratStoreProofs --------------------------
(***************************************************************************)
(* Theorems about SuratStore, for every set of surat, numbers and          *)
(* transactions and every bound: unique numbers and a truthful log.        *)
(***************************************************************************)
EXTENDS SuratStore, TLAPS

\* What TxFits, LocksHold and ImagesFit say of one transaction.
Fits(m) == IF m.pc = "idle" THEN m = IdleTx
           ELSE m.surat \in Surat /\ (m.kind = "create" => m.nomor \in Nomor)

Imaged(m) ==
  m.pc \in {"lock", "index", "commit"} /\ ~m.stale
   /\ m.kind \notin {"create", "offline", "merge"} =>
    m.before = Snapshot(m.kind, surat[m.surat])

Sure(m) == Fits(m) /\ Imaged(m)

LEMMA IdleType == IdleTx \in TxRec
  BY DEF IdleTx, TxRec, NoRow, Row, Kind

LEMMA NoRowType == NoRow \in Row
  BY DEF NoRow, Row

LEMMA IdleSure == Sure(IdleTx)
  BY DEF Sure, Fits, Imaged, IdleTx

LEMMA SnapshotType ==
  ASSUME NEW k, NEW r \in Row
  PROVE  Snapshot(k, r) \in Row
  BY NoRowType DEF Snapshot

\* All of them are sure of themselves.
LEMMA AllSure ==
  ASSUME IInv, NEW u \in Tx
  PROVE  tx[u] \in TxRec /\ Sure(tx[u])
  BY DEF IInv, TypeOK, TxFits, ImagesFit, Sure, Fits, Imaged

\* What a transaction leaves behind depends on its request and its row.
LEMMA AfterSame ==
  ASSUME NEW u, tx'[u].kind = tx[u].kind, tx'[u].surat = tx[u].surat,
         tx'[u].nomor = tx[u].nomor, tx'[u].ver = tx[u].ver,
         surat'[tx[u].surat] = surat[tx[u].surat]
  PROVE  After(u)' = After(u)
  BY DEF After

LEMMA AfterType ==
  ASSUME IInv, NEW t \in Tx, tx[t].pc = "commit"
  PROVE  /\ After(t) \in Row
         /\ After(t).st # "none"
         /\ After(t).nomor \in Nomor
  <1>1. tx[t] \in TxRec /\ tx[t].surat \in Surat /\ surat[tx[t].surat] \in Row
    BY AllSure DEF Sure, Fits, IInv, TypeOK
  <1>2. Applies(tx[t].kind, surat[tx[t].surat])
    BY DEF IInv, LocksHold
  <1>3. surat[tx[t].surat].st # "none" => surat[tx[t].surat].nomor \in Nomor
    BY <1>1 DEF IInv, TxFits
  <1>4. tx[t].kind = "create" => tx[t].nomor \in Nomor
    BY AllSure DEF Sure, Fits
  <1>5. tx[t].kind # "create" => surat[tx[t].surat].nomor \in Nomor
    BY <1>1, <1>2, <1>3 DEF Applies, TxRec, Kind
  <1> DEFINE s == tx[t].surat
  <1>6. CASE tx[t].kind \in {"delete", "merge"}
    <2>1. After(t) = [surat[s] EXCEPT !.st = "deleted", !.ver = tx[t].ver]
      BY <1>6 DEF After
    <2> QED
      BY <1>1, <1>5, <1>6, <2>1 DEF Row, TxRec
  <1>7. CASE tx[t].kind = "restore"
    <2>1. After(t) = [surat[s] EXCEPT !.st = "live", !.ver = tx[t].ver]
      BY <1>7 DEF After
    <2> QED
      BY <1>1, <1>5, <1>7, <2>1 DEF Row, TxRec
  <1>8. CASE tx[t].kind \notin {"delete", "merge", "restore"}
    <2>1. After(t) = [st |-> "live", ver |-> tx[t].ver,
                      nomor |-> IF tx[t].nomor = None THEN surat[s].nomor ELSE tx[t].nomor]
      BY <1>8 DEF After
    <2>2. (IF tx[t].nomor = None THEN surat[s].nomor ELSE tx[t].nomor) \in Nomor
      BY <1>1, <1>4, <1>5, NullAssumption DEF TxRec
    <2> QED
      BY <1>1, <2>1, <2>2 DEF Row, TxRec
  <1> QED
    BY <1>6, <1>7, <1>8

-----------------------------------------------------------------------------
\* Steps that change one transaction and no row

\* What TurnsKnown says of a transaction depends on these.
SameTurn(m, n) ==
  m.ver = n.ver /\ m.surat = n.surat /\ m.late = n.late /\ m.stale = n.stale

\* A transaction that begins is later than the others, and one that goes on keeps its turn.
LEMMA TurnsStay ==
  ASSUME IInv, NEW t \in Tx, NEW m \in TxRec, tx' = [tx EXCEPT ![t] = m], log' = log,
         m.pc # "idle" => m.surat \in Surat,
         \/ m.pc = "idle" /\ begun' = begun
         \/ m.pc # "idle" /\ m.ver = begun + 1 /\ begun' = begun + 1
         \/ tx[t].pc # "idle" /\ SameTurn(m, tx[t]) /\ begun' = begun
  PROVE  TurnsKnown'
  <1>1. \A u \in Tx : tx'[u] = (IF u = t THEN m ELSE tx[u]) /\ tx[u] \in TxRec
    BY DEF IInv, TypeOK
  <1>2. TurnsKnown /\ begun \in Nat /\ begun' \in Nat /\ begun <= begun'
    BY DEF IInv, TypeOK
  <1>3. \A u \in Tx : tx[u].ver \in Nat
    BY <1>1 DEF TxRec
  <1>4. ASSUME NEW s \in Surat, NEW f \in log[s]
        PROVE  f.at \in Nat /\ f.at <= begun
    BY <1>2 DEF IInv, TypeOK, Entry, TurnsKnown
  <1>5. ASSUME NEW u \in Tx, tx'[u].pc # "idle"
        PROVE  /\ tx'[u].ver <= begun'
               /\ \A f \in log[tx'[u].surat] :
                    f.at # tx'[u].ver /\ (f.at > tx'[u].ver => tx'[u].late \/ tx'[u].stale)
    <2>1. CASE u # t
      BY <1>1, <1>2, <1>3, <1>5, <2>1 DEF TurnsKnown
    <2>2. CASE u = t /\ m.ver = begun + 1 /\ begun' = begun + 1
      BY <1>1, <1>2, <1>4, <1>5, <2>2
    <2>3. CASE u = t /\ tx[t].pc # "idle" /\ SameTurn(m, tx[t])
      BY <1>1, <1>2, <1>3, <2>3 DEF TurnsKnown, SameTurn
    <2> QED
      BY <1>1, <1>5, <2>1, <2>2, <2>3
  <1>6. ASSUME NEW u \in Tx, NEW v \in Tx, tx'[u].pc # "idle", tx'[v].pc # "idle",
               tx'[u].ver = tx'[v].ver
        PROVE  u = v
    BY <1>1, <1>2, <1>3, <1>6 DEF TurnsKnown, SameTurn
  <1>7. \A s \in Surat : \A f \in log[s] : f.at <= begun'
    BY <1>2, <1>4
  <1> QED
    BY <1>5, <1>6, <1>7 DEF TurnsKnown

\* It may begin, wait, or end.
LEMMA Moves ==
  ASSUME IInv, NEW t \in Tx, NEW m \in TxRec, Sure(m), m.pc \notin {"index", "commit"},
         tx' = [tx EXCEPT ![t] = m], UNCHANGED <<surat, log, silent>>,
         \/ m.pc = "idle" /\ begun' = begun
         \/ m.pc # "idle" /\ m.ver = begun + 1 /\ begun' = begun + 1
         \/ tx[t].pc # "idle" /\ SameTurn(m, tx[t]) /\ begun' = begun
  PROVE  IInv'
  <1>1. \A u \in Tx : tx'[u] = IF u = t THEN m ELSE tx[u]
    BY DEF IInv, TypeOK
  <1>2. TypeOK' /\ TurnsKnown'
    <2>1. begun' \in Nat /\ (m.pc # "idle" => m.surat \in Surat)
      BY DEF IInv, TypeOK, Sure, Fits
    <2> QED
      BY <2>1, TurnsStay DEF IInv, TypeOK
  <1>3. TxFits'
    BY <1>1 DEF IInv, TxFits, Sure, Fits
  <1>4. ImagesFit'
    BY <1>1 DEF IInv, ImagesFit, Sure, Imaged
  <1>5. LocksHold'
    BY <1>1 DEF IInv, LocksHold, Locked
  <1>6. \A u \in Tx : tx'[u].pc = "commit" => tx'[u] = tx[u] /\ u # t
    BY <1>1
  <1>7. ASSUME NEW u \in Tx, tx'[u].pc = "commit"
        PROVE  After(u)' = After(u)
    BY <1>6, <1>7, AfterSame
  <1>8. ASSUME NEW u \in Tx, tx'[u].pc = "commit", Indexed(u)'
        PROVE  Rivals(u)' = {} /\ ~Claimed(u)'
    <2>1. Indexed(u)
      BY <1>6, <1>7, <1>8 DEF Indexed, Holds
    <2>2. Rivals(u) = {} /\ ~Claimed(u)
      BY <1>6, <1>8, <2>1 DEF IInv, NumbersClaimed
    <2>3. Rivals(u)' = {}
      BY <1>6, <1>7, <1>8, <2>2 DEF Rivals, Holds
    <2>4. ~Claimed(u)'
      BY <1>6, <1>7, <1>8, <2>2 DEF Claimed, Holds
    <2> QED
      BY <2>3, <2>4
  <1>9. NumbersClaimed'
    BY <1>8 DEF NumbersClaimed
  <1>10. NomorUnique' /\ LogReadsOn' /\ LastEntryIsTrue'
    BY DEF IInv, NomorUnique, LogReadsOn, LastEntryIsTrue
  <1> QED
    BY <1>2, <1>3, <1>4, <1>5, <1>9, <1>10 DEF IInv

LEMMA StepBegin ==
  ASSUME IInv, NEW t \in Tx, NEW k \in Kind, NEW s \in Surat, NEW n \in Nomor \cup {None},
         k = "create" => n \in Nomor, Begin(t, k, s, n)
  PROVE  IInv'
  <1> DEFINE m == [pc |-> IF k \in {"create", "offline", "merge"} THEN "lock" ELSE "read",
                   kind |-> k, surat |-> s, nomor |-> n, ver |-> begun + 1,
                   before |-> NoRow, late |-> FALSE, stale |-> FALSE]
  <1>1. m \in TxRec
    BY NoRowType DEF IInv, TypeOK, TxRec
  <1>2. Sure(m)
    BY DEF Sure, Fits, Imaged
  <1>3. m.pc \notin {"index", "commit"}
    OBVIOUS
  <1>4. /\ tx' = [tx EXCEPT ![t] = m] /\ UNCHANGED <<surat, log, silent>>
        /\ m.pc # "idle" /\ m.ver = begun + 1 /\ begun' = begun + 1
    BY DEF Begin
  <1> HIDE DEF m
  <1> QED
    BY <1>1, <1>2, <1>3, <1>4, Moves

LEMMA StepBeginOne ==
  ASSUME IInv, NEW t \in Tx, BeginOne(t)
  PROVE  IInv'
  <1>1. \E s \in Surat, k \in Kind, n \in Nomor \cup {None} :
          (k = "create" => n \in Nomor) /\ Begin(t, k, s, n)
    BY DEF BeginOne, BeginCreate, BeginUpdate, BeginDelete, BeginRestore, BeginOffline,
           BeginMerge, Kind
  <1> QED
    BY <1>1, StepBegin

LEMMA StepReadBefore ==
  ASSUME IInv, NEW t \in Tx, ReadBefore(t)
  PROVE  IInv'
  <1> DEFINE b == Snapshot(tx[t].kind, surat[tx[t].surat])
             m == [tx[t] EXCEPT !.pc = "lock", !.before = b]
  <1>1. tx[t] \in TxRec /\ tx[t].pc = "read" /\ Sure(tx[t])
    BY AllSure DEF ReadBefore
  <1>2. b \in Row
    BY <1>1, SnapshotType DEF Sure, Fits, IInv, TypeOK
  <1>3. tx' = [tx EXCEPT ![t] = m] /\ UNCHANGED <<surat, log, silent>> /\ begun' = begun
    BY DEF ReadBefore
  <1>4. /\ m \in TxRec /\ m.pc = "lock" /\ m.before = b /\ m.kind = tx[t].kind
        /\ m.surat = tx[t].surat /\ m.nomor = tx[t].nomor /\ SameTurn(m, tx[t])
    <2> HIDE DEF b
    <2> QED
      BY <1>1, <1>2 DEF TxRec, SameTurn
  <1>5. Sure(m)
    <2>1. Fits(m)
      BY <1>1, <1>4 DEF Sure, Fits
    <2>2. m.before = Snapshot(m.kind, surat[m.surat])
      BY <1>4
    <2> HIDE DEF m
    <2>3. Imaged(m)
      BY <2>2 DEF Imaged
    <2> QED
      BY <2>1, <2>3 DEF Sure
  <1> HIDE DEF m
  <1> QED
    BY <1>1, <1>3, <1>4, <1>5, Moves

LEMMA StepEnd ==
  ASSUME IInv, NEW t \in Tx, NotFound(t) \/ Conflict(t) \/ Rollback(t)
  PROVE  IInv'
  <1>1. tx' = [tx EXCEPT ![t] = IdleTx] /\ UNCHANGED <<surat, log, silent, begun>>
    BY DEF NotFound, Conflict, Rollback, End
  <1>2. IdleTx.pc = "idle"
    BY DEF IdleTx
  <1> QED
    BY <1>1, <1>2, IdleType, IdleSure, Moves

\* A step of t that only moves it on.
LEMMA Advance ==
  ASSUME IInv, NEW t \in Tx, NEW p \in {"index", "commit"}, tx[t].pc \in {"lock", "index"},
         tx' = [tx EXCEPT ![t].pc = p], UNCHANGED <<surat, log, silent, begun>>
  PROVE  /\ TypeOK' /\ TxFits' /\ ImagesFit' /\ TurnsKnown'
         /\ NomorUnique' /\ LogReadsOn' /\ LastEntryIsTrue'
         /\ tx'[t].pc = p
         /\ \A u \in Tx : /\ u # t => tx'[u] = tx[u]
                          /\ tx'[u].kind = tx[u].kind /\ tx'[u].surat = tx[u].surat
                          /\ After(u)' = After(u)
  <1>1. tx[t] \in TxRec /\ Sure(tx[t])
    BY AllSure
  <1> DEFINE m == [tx[t] EXCEPT !.pc = p]
  <1>2. /\ m \in TxRec /\ m.pc = p /\ m.kind = tx[t].kind /\ m.surat = tx[t].surat
        /\ m.nomor = tx[t].nomor /\ m.ver = tx[t].ver /\ m.before = tx[t].before
        /\ m.late = tx[t].late /\ m.stale = tx[t].stale
    BY <1>1 DEF TxRec
  <1>3. tx' = [tx EXCEPT ![t] = m]
    OBVIOUS
  <1> HIDE DEF m
  <1>4. \A u \in Tx : tx'[u] = IF u = t THEN m ELSE tx[u]
    BY <1>3 DEF IInv, TypeOK
  <1>5. TypeOK' /\ TurnsKnown'
    <2>1. m.surat \in Surat /\ tx[t].pc # "idle" /\ SameTurn(m, tx[t])
      BY <1>1, <1>2 DEF Sure, Fits, SameTurn
    <2> QED
      BY <1>2, <1>3, <2>1, TurnsStay DEF IInv, TypeOK
  <1>6. TxFits'
    BY <1>1, <1>2, <1>4 DEF IInv, TxFits, Sure, Fits
  <1>7. tx[t].pc \in {"lock", "index", "commit"}
    OBVIOUS
  <1>8. Imaged(m)
    BY <1>1, <1>2, <1>7 DEF Sure, Imaged
  <1>9. ImagesFit'
    BY <1>4, <1>8 DEF IInv, ImagesFit, Imaged
  <1>10. NomorUnique' /\ LogReadsOn' /\ LastEntryIsTrue'
    BY DEF IInv, NomorUnique, LogReadsOn, LastEntryIsTrue
  <1>11. \A u \in Tx : /\ tx'[u].kind = tx[u].kind /\ tx'[u].surat = tx[u].surat
                       /\ tx'[u].nomor = tx[u].nomor /\ tx'[u].ver = tx[u].ver
    BY <1>2, <1>4
  <1>12. \A u \in Tx : After(u)' = After(u)
    BY <1>11, AfterSame
  <1> QED
    BY <1>2, <1>4, <1>5, <1>6, <1>9, <1>10, <1>11, <1>12

LEMMA StepLockRow ==
  ASSUME IInv, NEW t \in Tx, LockRow(t)
  PROVE  IInv'
  <1>1. /\ tx[t].pc = "lock" /\ ~Locked(tx[t].surat, t)
        /\ Applies(tx[t].kind, surat[tx[t].surat])
        /\ tx' = [tx EXCEPT ![t].pc = "index"] /\ UNCHANGED <<surat, log, silent, begun>>
    BY DEF LockRow
  <1>2. /\ TypeOK' /\ TxFits' /\ ImagesFit' /\ TurnsKnown'
        /\ NomorUnique' /\ LogReadsOn' /\ LastEntryIsTrue'
        /\ tx'[t].pc = "index"
        /\ \A u \in Tx : /\ u # t => tx'[u] = tx[u]
                         /\ tx'[u].kind = tx[u].kind /\ tx'[u].surat = tx[u].surat
                         /\ After(u)' = After(u)
    BY <1>1, Advance
  <1>3. ASSUME NEW u \in Tx, tx'[u].pc \in {"index", "commit"}
        PROVE  ~Locked(tx[u].surat, u)' /\ Applies(tx[u].kind, surat[tx[u].surat])
    BY <1>1, <1>2, <1>3 DEF IInv, LocksHold, Locked
  <1>4. LocksHold'
    BY <1>1, <1>2, <1>3 DEF LocksHold, Applies, Locked
  <1>5. \A u \in Tx : tx'[u].pc = "commit" => tx[u].pc = "commit"
    BY <1>2
  <1>6. ASSUME NEW u \in Tx, tx'[u].pc = "commit", Indexed(u)'
        PROVE  Rivals(u)' = {} /\ ~Claimed(u)'
    <2>1. Rivals(u) = {} /\ ~Claimed(u)
      BY <1>2, <1>5, <1>6 DEF IInv, NumbersClaimed, Indexed, Holds
    <2> QED
      BY <1>1, <1>2, <1>5, <1>6, <2>1 DEF Rivals, Claimed, Holds
  <1>7. NumbersClaimed'
    BY <1>6 DEF NumbersClaimed
  <1> QED
    BY <1>2, <1>4, <1>7 DEF IInv

LEMMA StepEnterIndex ==
  ASSUME IInv, NEW t \in Tx, EnterIndex(t)
  PROVE  IInv'
  <1>1. /\ tx[t].pc = "index" /\ (Indexed(t) => Rivals(t) = {} /\ ~Claimed(t))
        /\ tx' = [tx EXCEPT ![t].pc = "commit"] /\ UNCHANGED <<surat, log, silent, begun>>
    BY DEF EnterIndex
  <1>2. /\ TypeOK' /\ TxFits' /\ ImagesFit' /\ TurnsKnown'
        /\ NomorUnique' /\ LogReadsOn' /\ LastEntryIsTrue'
        /\ tx'[t].pc = "commit"
        /\ \A u \in Tx : /\ u # t => tx'[u] = tx[u]
                         /\ tx'[u].kind = tx[u].kind /\ tx'[u].surat = tx[u].surat
                         /\ After(u)' = After(u)
    BY <1>1, Advance
  <1>3. ASSUME NEW u \in Tx, tx'[u].pc \in {"index", "commit"}
        PROVE  ~Locked(tx[u].surat, u)' /\ Applies(tx[u].kind, surat[tx[u].surat])
    BY <1>1, <1>2, <1>3 DEF IInv, LocksHold, Locked
  <1>4. LocksHold'
    BY <1>1, <1>2, <1>3 DEF LocksHold, Applies, Locked
  <1>5. \A u \in Tx : tx'[u].pc = "commit" => u = t \/ tx[u].pc = "commit"
    BY <1>2
  <1>6. ASSUME NEW u \in Tx, tx'[u].pc = "commit", Indexed(u)'
        PROVE  Rivals(u)' = {} /\ ~Claimed(u)'
    <2>1. Indexed(u)
      BY <1>1, <1>2, <1>6 DEF Indexed, Holds
    <2>2. Rivals(u) = {} /\ ~Claimed(u)
      BY <1>1, <1>5, <1>6, <2>1 DEF IInv, NumbersClaimed
    <2>3. Rivals(u)' = {}
      BY <1>1, <1>2, <1>6, <2>2 DEF Rivals, Holds
    <2>4. ASSUME NEW v \in Tx \ {u}, tx'[v].pc = "commit", tx[v].surat # tx[u].surat,
                 Holds(tx[v].surat, After(v), After(u).nomor)
          PROVE  FALSE
      <3>1. CASE v = t
        <4>1. Indexed(t)
          BY <2>4, <3>1 DEF Indexed, Holds
        <4>2. tx[u].pc = "commit" /\ Holds(tx[u].surat, After(u), After(t).nomor)
          BY <1>5, <1>6, <2>1, <2>4, <3>1 DEF Indexed, Holds
        <4>3. u \in Tx \ {t} /\ tx[u].surat # tx[t].surat
          BY <2>4, <3>1
        <4> QED
          BY <1>1, <4>1, <4>2, <4>3 DEF Claimed
      <3>2. CASE v # t
        BY <1>5, <2>2, <2>4, <3>2 DEF Claimed
      <3> QED
        BY <3>1, <3>2
    <2>5. ~Claimed(u)'
      BY <1>1, <1>2, <2>4 DEF Claimed, Holds
    <2> QED
      BY <2>3, <2>5
  <1>7. NumbersClaimed'
    BY <1>6 DEF NumbersClaimed
  <1> QED
    BY <1>2, <1>4, <1>7 DEF IInv

-----------------------------------------------------------------------------
\* Commit

\* What the commit of t changes: one row, its log, and the images that others have
\* read of it.
LEMMA CommitFacts ==
  ASSUME IInv, NEW t \in Tx, Commit(t), NEW s, s = tx[t].surat
  PROVE  /\ tx[t].pc = "commit" /\ s \in Surat /\ begun' = begun
         /\ Applies(tx[t].kind, surat[s])
         /\ After(t) \in Row /\ After(t).st # "none" /\ After(t).nomor \in Nomor
         /\ \A o \in Surat : surat'[o] = IF o = s THEN After(t) ELSE surat[o]
         /\ surat' \in [Surat -> Row] /\ tx' \in [Tx -> TxRec]
         /\ tx'[t] = IdleTx
         /\ \A u \in Tx \ {t} : tx'[u] = Outdated(s)[u]
  <1>1. tx[t].pc = "commit" /\ surat' = [surat EXCEPT ![s] = After(t)] /\ begun' = begun
        /\ tx' = [Outdated(s) EXCEPT ![t] = IdleTx]
    BY DEF Commit
  <1>2. s \in Surat
    BY <1>1, AllSure DEF Sure, Fits
  <1>3. After(t) \in Row /\ After(t).st # "none" /\ After(t).nomor \in Nomor
    BY <1>1, AfterType
  <1>4. Applies(tx[t].kind, surat[s])
    BY <1>1 DEF IInv, LocksHold
  <1>5. /\ surat' \in [Surat -> Row]
        /\ \A o \in Surat : surat'[o] = IF o = s THEN After(t) ELSE surat[o]
    BY <1>1, <1>2, <1>3 DEF IInv, TypeOK
  <1>6. ASSUME NEW u \in Tx
        PROVE  Outdated(s)[u] \in TxRec
    <2> DEFINE l == tx[u].late \/ tx[u].pc = "read"
               o == tx[u].stale \/ tx[u].pc = "lock"
    <2>1. l \in BOOLEAN /\ o \in BOOLEAN /\ tx[u] \in TxRec
      BY DEF IInv, TypeOK, TxRec
    <2>2. Outdated(s)[u] = IF tx[u].surat # s THEN tx[u]
                           ELSE [tx[u] EXCEPT !.late = l, !.stale = o]
      BY DEF Outdated
    <2> HIDE DEF l, o
    <2> QED
      BY <2>1, <2>2 DEF TxRec
  <1>7. Outdated(s) \in [Tx -> TxRec]
    BY <1>6 DEF Outdated
  <1>8. tx' \in [Tx -> TxRec] /\ tx'[t] = IdleTx
    BY <1>1, <1>7, IdleType
  <1>9. \A u \in Tx \ {t} : tx'[u] = Outdated(s)[u]
    BY <1>1, <1>7
  <1> QED
    BY <1>1, <1>2, <1>3, <1>4, <1>5, <1>8, <1>9

\* The others go on as they were, but for the marks.
LEMMA CommitOthers ==
  ASSUME IInv, NEW t \in Tx, Commit(t), NEW u \in Tx \ {t}
  PROVE  /\ tx'[u].pc = tx[u].pc /\ tx'[u].kind = tx[u].kind /\ tx'[u].surat = tx[u].surat
         /\ tx'[u].nomor = tx[u].nomor /\ tx'[u].ver = tx[u].ver
         /\ tx'[u].before = tx[u].before
         /\ tx'[u].late = (tx[u].late \/ (tx[u].pc = "read" /\ tx[u].surat = tx[t].surat))
         /\ tx'[u].stale = (tx[u].stale \/ (tx[u].pc = "lock" /\ tx[u].surat = tx[t].surat))
         /\ tx[u].pc = "idle" => tx'[u] = tx[u]
  <1>1. tx[u] \in TxRec /\ Sure(tx[u]) /\ tx[t].surat \in Surat
    BY AllSure, CommitFacts
  <1>2. tx[u].late \in BOOLEAN /\ tx[u].stale \in BOOLEAN
    BY <1>1 DEF TxRec
  <1>3. CASE tx[u].surat = tx[t].surat
    <2> DEFINE l == tx[u].late \/ tx[u].pc = "read"
               o == tx[u].stale \/ tx[u].pc = "lock"
    <2>1. tx'[u] = [tx[u] EXCEPT !.late = l, !.stale = o]
      <3>1. tx'[u] = Outdated(tx[t].surat)[u]
        BY CommitFacts
      <3> QED
        BY <1>3, <3>1 DEF Outdated
    <2>2. tx[u].pc # "idle"
      BY <1>1, <1>3, NullAssumption DEF Sure, Fits, IdleTx
    <2>3. l = (tx[u].late \/ (tx[u].pc = "read" /\ tx[u].surat = tx[t].surat))
          /\ o = (tx[u].stale \/ (tx[u].pc = "lock" /\ tx[u].surat = tx[t].surat))
      BY <1>3
    <2> HIDE DEF l, o
    <2> QED
      BY <1>1, <2>1, <2>2, <2>3 DEF TxRec
  <1>4. CASE tx[u].surat # tx[t].surat
    <2>1. tx'[u] = tx[u]
      <3>1. tx'[u] = Outdated(tx[t].surat)[u]
        BY CommitFacts
      <3> QED
        BY <1>4, <3>1 DEF Outdated
    <2> QED
      BY <1>2, <1>4, <2>1
  <1> QED
    BY <1>3, <1>4

\* The entry is about the row that was there, unless its image was outdated.
LEMMA EntryFacts ==
  ASSUME IInv, NEW t \in Tx, Commit(t), tx[t].kind \in Audited, NEW s, s = tx[t].surat
  PROVE  /\ NewEntry(t) \in Entry
         /\ NewEntry(t).act = tx[t].kind /\ NewEntry(t).at = tx[t].ver
         /\ NewEntry(t).late = tx[t].late /\ NewEntry(t).silent = (s \in silent)
         /\ NewEntry(t).before = tx[t].before /\ NewEntry(t).stale = tx[t].stale
         /\ tx[t].kind # "delete" => NewEntry(t).after = After(t)
         /\ tx[t].kind # "create" /\ ~tx[t].stale => tx[t].before = surat[s]
  <1>1. /\ tx[t] \in TxRec /\ tx[t].pc = "commit"
        /\ After(t) \in Row /\ Applies(tx[t].kind, surat[s])
    BY CommitFacts, AllSure
  <1> DEFINE a == IF tx[t].kind = "delete" THEN NoRow ELSE After(t)
  <1>2. a \in Row
    BY <1>1, NoRowType
  <1>3. NewEntry(t) = [act |-> tx[t].kind, at |-> tx[t].ver, before |-> tx[t].before,
                       after |-> a, late |-> tx[t].late, stale |-> tx[t].stale,
                       silent |-> tx[t].surat \in silent]
    BY DEF NewEntry
  <1>4. tx[t].kind # "delete" => a = After(t)
    OBVIOUS
  <1> HIDE DEF a
  <1>5. (tx[t].surat \in silent) \in BOOLEAN
    OBVIOUS
  <1>6. NewEntry(t) \in Entry
    BY <1>1, <1>2, <1>3, <1>5 DEF Entry, TxRec
  <1>7. ASSUME tx[t].kind # "create", ~tx[t].stale
        PROVE  tx[t].before = surat[s]
    BY <1>1, <1>7 DEF IInv, ImagesFit, Snapshot, Applies, Audited
  <1> QED
    BY <1>3, <1>4, <1>6, <1>7

\* The log of the committed surat, with the new entry of an audited kind.
LEMMA CommitLog ==
  ASSUME IInv, NEW t \in Tx, Commit(t), NEW s, s = tx[t].surat
  PROVE  /\ log' \in [Surat -> SUBSET Entry] /\ silent' \subseteq Surat
         /\ \A o \in Surat \ {s} : log'[o] = log[o] /\ (o \in silent' <=> o \in silent)
         /\ IF tx[t].kind \in Audited
            THEN log'[s] = log[s] \cup {NewEntry(t)} /\ s \notin silent'
            ELSE log'[s] = log[s] /\ s \in silent'
  <1>1. s \in Surat
    BY CommitFacts
  <1>2. CASE tx[t].kind \in Audited
    <2>1. log' = [log EXCEPT ![s] = log[s] \cup {NewEntry(t)}] /\ silent' = silent \ {s}
      BY <1>2 DEF Commit
    <2>2. NewEntry(t) \in Entry
      BY <1>2, EntryFacts
    <2>3. log[s] \cup {NewEntry(t)} \in SUBSET Entry
      BY <1>1, <2>2 DEF IInv, TypeOK
    <2> QED
      BY <1>1, <1>2, <2>1, <2>3 DEF IInv, TypeOK
  <1>3. CASE tx[t].kind \notin Audited
    <2>1. log' = log /\ silent' = silent \cup {s}
      BY <1>3 DEF Commit
    <2> QED
      BY <1>1, <1>3, <2>1 DEF IInv, TypeOK
  <1> QED
    BY <1>2, <1>3

LEMMA CommitKeepsUnique ==
  ASSUME IInv, NEW t \in Tx, Commit(t)
  PROVE  NomorUnique'
  <1> DEFINE s == tx[t].surat
  <1>1. /\ s \in Surat /\ tx[t].pc = "commit"
        /\ \A o \in Surat : surat'[o] = IF o = s THEN After(t) ELSE surat[o]
    BY CommitFacts
  <1> HIDE DEF s
  <1>2. ASSUME NEW o \in Keluar \ {s}, s \in Keluar, surat'[s].st = "live",
               surat'[o].st = "live", surat'[s].nomor = surat'[o].nomor
        PROVE  FALSE
    <2>1. /\ After(t).st = "live" /\ surat[o].st = "live" /\ After(t).nomor = surat[o].nomor
          /\ o \in Surat
      BY <1>1, <1>2, KeluarAssumption
    <2>2. Indexed(t) /\ o \in Rivals(t)
      BY <1>1, <1>2, <2>1 DEF Indexed, Holds, Rivals, s
    <2> QED
      BY <1>1, <2>2 DEF IInv, NumbersClaimed
  <1> QED
    BY <1>1, <1>2, KeluarAssumption DEF IInv, NomorUnique

LEMMA CommitKeepsTx ==
  ASSUME IInv, NEW t \in Tx, Commit(t)
  PROVE  TxFits' /\ LocksHold' /\ ImagesFit'
  <1> DEFINE s == tx[t].surat
  <1>1. /\ s \in Surat /\ tx[t].pc = "commit" /\ tx'[t] = IdleTx
        /\ After(t).st # "none" /\ After(t).nomor \in Nomor
        /\ \A o \in Surat : surat'[o] = IF o = s THEN After(t) ELSE surat[o]
    BY CommitFacts
  <1>2. ASSUME NEW u \in Tx, u # t
        PROVE  IF tx'[u].pc = "idle" THEN tx'[u] = IdleTx
               ELSE /\ tx'[u].surat \in Surat
                    /\ tx'[u].kind = "create" => tx'[u].nomor \in Nomor
    <2>0. u \in Tx \ {t}
      BY <1>2
    <2>2. /\ tx'[u].pc = tx[u].pc /\ tx'[u].kind = tx[u].kind /\ tx'[u].surat = tx[u].surat
          /\ tx'[u].nomor = tx[u].nomor
      BY <2>0, CommitOthers
    <2>1. tx[u].pc = "idle" => tx'[u] = tx[u]
      BY <2>0, CommitOthers
    <2> QED
      BY <2>1, <2>2, AllSure DEF Sure, Fits
  <1>3. /\ \A o \in Surat \ {s} : log'[o] = log[o] /\ (o \in silent' <=> o \in silent)
    BY CommitLog
  <1> HIDE DEF s
  <1>4. TxFits'
    <2>1. ASSUME NEW u \in Tx
          PROVE  IF tx'[u].pc = "idle" THEN tx'[u] = IdleTx
                 ELSE /\ tx'[u].surat \in Surat
                      /\ tx'[u].kind = "create" => tx'[u].nomor \in Nomor
      <3>1. CASE u = t
        BY <1>1, <3>1 DEF IdleTx
      <3>2. CASE u # t
        BY <1>2, <3>2
      <3> QED
        BY <3>1, <3>2
    <2>2. ASSUME NEW o \in Surat
          PROVE  /\ surat'[o].st = "none" => surat'[o] = NoRow /\ log'[o] = {} /\ o \notin silent'
                 /\ surat'[o].st # "none" => surat'[o].nomor \in Nomor
      BY <1>1, <1>3 DEF IInv, TxFits
    <2> QED
      BY <2>1, <2>2 DEF TxFits
  <1>5. \A u \in Tx : tx'[u].pc \in {"index", "commit"} =>
          u # t /\ tx[u].pc = tx'[u].pc /\ tx[u].surat = tx'[u].surat /\ tx[u].kind = tx'[u].kind
    BY <1>1, CommitOthers DEF IdleTx
  <1>6. \A u \in Tx \ {t} : tx[u].pc \in {"index", "commit"} => tx[u].surat # s
    BY <1>1 DEF IInv, LocksHold, Locked, s
  <1>7. LocksHold'
    <2>1. ASSUME NEW u \in Tx, tx'[u].pc \in {"index", "commit"}
          PROVE  ~Locked(tx[u].surat, u)' /\ Applies(tx'[u].kind, surat'[tx'[u].surat])
      <3>1. ~Locked(tx[u].surat, u) /\ Applies(tx[u].kind, surat[tx[u].surat])
        BY <1>5, <2>1 DEF IInv, LocksHold
      <3>2. surat'[tx[u].surat] = surat[tx[u].surat]
        BY <1>1, <1>5, <1>6, <2>1, AllSure DEF Sure, Fits
      <3>3. ~\E v \in Tx \ {u} : tx'[v].surat = tx[u].surat /\ tx'[v].pc \in {"index", "commit"}
        BY <1>5, <2>1, <3>1 DEF Locked
      <3> QED
        BY <1>5, <2>1, <3>1, <3>2, <3>3 DEF Locked
    <2> QED
      BY <1>5, <2>1 DEF LocksHold, Applies, Locked
  <1>8. ASSUME NEW u \in Tx, tx'[u].pc \in {"lock", "index", "commit"}, ~tx'[u].stale,
               tx'[u].kind \notin {"create", "offline", "merge"}
        PROVE  tx'[u].before = Snapshot(tx'[u].kind, surat'[tx'[u].surat])
    <2>1. u # t
      BY <1>1, <1>8 DEF IdleTx
    <2>2. /\ tx'[u].pc = tx[u].pc /\ tx'[u].kind = tx[u].kind /\ tx'[u].surat = tx[u].surat
          /\ tx'[u].before = tx[u].before
          /\ ~tx[u].stale /\ ~(tx[u].pc = "lock" /\ tx[u].surat = s)
      <3>1. u \in Tx \ {t}
        BY <2>1
      <3> QED
        BY <1>8, <3>1, CommitOthers DEF s
    <2>3. tx[u].surat \in Surat /\ tx[u].surat # s
      BY <1>6, <1>8, <2>1, <2>2, AllSure DEF Sure, Fits
    <2>4. surat'[tx[u].surat] = surat[tx[u].surat]
      BY <1>1, <2>3
    <2>5. tx[u].before = Snapshot(tx[u].kind, surat[tx[u].surat])
      BY <1>8, <2>2 DEF IInv, ImagesFit
    <2> QED
      BY <2>2, <2>4, <2>5
  <1>9. ImagesFit'
    BY <1>8 DEF ImagesFit, Snapshot
  <1> QED
    BY <1>4, <1>7, <1>9

LEMMA CommitKeepsClaims ==
  ASSUME IInv, NEW t \in Tx, Commit(t)
  PROVE  NumbersClaimed'
  <1> DEFINE s == tx[t].surat
  <1>1. /\ s \in Surat /\ tx[t].pc = "commit" /\ tx'[t] = IdleTx
        /\ \A o \in Surat : surat'[o] = IF o = s THEN After(t) ELSE surat[o]
    BY CommitFacts
  <1>2. \A u \in Tx : tx'[u].pc = "commit" =>
          /\ u # t /\ tx[u].pc = "commit" /\ tx[u].surat = tx'[u].surat
          /\ tx[u].kind = tx'[u].kind /\ tx[u].nomor = tx'[u].nomor /\ tx[u].ver = tx'[u].ver
    BY <1>1, CommitOthers DEF IdleTx
  <1>3. \A u \in Tx \ {t} : tx[u].pc = "commit" => tx[u].surat # s /\ tx[u].surat \in Surat
    BY <1>1, AllSure DEF IInv, LocksHold, Locked, Sure, Fits
  <1> HIDE DEF s
  <1>4. ASSUME NEW u \in Tx, tx'[u].pc = "commit"
        PROVE  After(u)' = After(u)
    <2>1. surat'[tx[u].surat] = surat[tx[u].surat]
      BY <1>1, <1>2, <1>3, <1>4
    <2> QED
      BY <1>2, <1>4, <2>1, AfterSame
  <1>5. ASSUME NEW u \in Tx, tx'[u].pc = "commit", Indexed(u)'
        PROVE  Rivals(u)' = {} /\ ~Claimed(u)'
    <2>1. u # t /\ tx[u].pc = "commit" /\ tx[u].surat # s /\ tx'[u].surat = tx[u].surat
          /\ After(u)' = After(u)
      BY <1>2, <1>3, <1>4, <1>5
    <2>2. Indexed(u)
      BY <1>5, <2>1 DEF Indexed, Holds
    <2>3. Rivals(u) = {} /\ ~Claimed(u)
      BY <2>1, <2>2 DEF IInv, NumbersClaimed
    <2>4. ~Holds(s, After(t), After(u).nomor)
      BY <1>1, <2>1, <2>3 DEF Claimed, s
    <2>5. \A o \in Surat \ {tx[u].surat} : ~Holds(o, surat'[o], After(u).nomor)
      BY <1>1, <2>3, <2>4 DEF Rivals
    <2>6. Rivals(u)' = {}
      BY <2>1, <2>5 DEF Rivals, Holds
    <2>7. ASSUME NEW v \in Tx \ {u}, tx'[v].pc = "commit", tx'[v].surat # tx'[u].surat
          PROVE  ~Holds(tx'[v].surat, After(v)', After(u)'.nomor)
      <3>1. v # t /\ tx[v].pc = "commit" /\ tx[v].surat = tx'[v].surat /\ After(v)' = After(v)
        BY <1>2, <1>4, <2>7
      <3> QED
        BY <2>1, <2>3, <2>7, <3>1 DEF Claimed
    <2>8. ~Claimed(u)'
      BY <2>7 DEF Claimed, Holds
    <2> QED
      BY <2>6, <2>8
  <1> QED
    BY <1>5 DEF NumbersClaimed

\* Whoever is open on the surat is marked, as the new entry may be later than it is.
LEMMA CommitKeepsTurns ==
  ASSUME IInv, NEW t \in Tx, Commit(t)
  PROVE  TurnsKnown'
  <1> DEFINE s == tx[t].surat
             e == NewEntry(t)
  <1>1. /\ s \in Surat /\ tx[t].pc = "commit" /\ tx'[t] = IdleTx /\ begun' = begun
        /\ tx[t] \in TxRec /\ TurnsKnown /\ begun \in Nat
    BY CommitFacts, AllSure DEF IInv, TypeOK
  <1>2. /\ \A o \in Surat \ {s} : log'[o] = log[o]
        /\ log'[s] = log[s] \/ (log'[s] = log[s] \cup {e} /\ e.at = tx[t].ver)
    BY CommitLog, EntryFacts
  <1> HIDE DEF s, e
  <1>3. ASSUME NEW u \in Tx, tx'[u].pc # "idle"
        PROVE  /\ u # t /\ tx[u].pc # "idle" /\ tx[u].pc = tx'[u].pc
               /\ tx'[u].ver = tx[u].ver /\ tx'[u].surat = tx[u].surat /\ tx[u].surat \in Surat
               /\ tx[u].late \/ tx[u].stale => tx'[u].late \/ tx'[u].stale
               /\ tx[u].surat = s => tx'[u].late \/ tx'[u].stale
    <2>1. u \in Tx \ {t}
      BY <1>1, <1>3 DEF IdleTx
    <2>2. /\ tx'[u].pc = tx[u].pc /\ tx'[u].ver = tx[u].ver /\ tx'[u].surat = tx[u].surat
          /\ tx'[u].late = (tx[u].late \/ (tx[u].pc = "read" /\ tx[u].surat = s))
          /\ tx'[u].stale = (tx[u].stale \/ (tx[u].pc = "lock" /\ tx[u].surat = s))
      BY <2>1, CommitOthers DEF s
    <2>3. tx[u].surat \in Surat /\ tx[u] \in TxRec
      BY <1>3, <2>1, <2>2, AllSure DEF Sure, Fits
    <2>4. tx[u].surat = s => tx[u].pc \notin {"index", "commit"}
      BY <1>1, <2>1 DEF IInv, LocksHold, Locked, s
    <2>5. tx[u].surat = s => tx[u].pc = "read" \/ tx[u].pc = "lock"
      BY <1>3, <2>2, <2>3, <2>4 DEF TxRec
    <2> QED
      BY <1>3, <2>1, <2>2, <2>3, <2>5
  <1>4. ASSUME NEW u \in Tx, tx'[u].pc # "idle", NEW f \in log'[tx'[u].surat]
        PROVE  f.at # tx'[u].ver /\ (f.at > tx'[u].ver => tx'[u].late \/ tx'[u].stale)
    <2>1. /\ u # t /\ tx[u].pc # "idle" /\ tx'[u].ver = tx[u].ver
          /\ tx'[u].surat = tx[u].surat /\ tx[u].surat \in Surat
          /\ tx[u].late \/ tx[u].stale => tx'[u].late \/ tx'[u].stale
          /\ tx[u].surat = s => tx'[u].late \/ tx'[u].stale
      BY <1>3, <1>4
    <2>2. f \in log[tx[u].surat] \/ (tx[u].surat = s /\ f.at = tx[t].ver)
      BY <1>2, <1>4, <2>1
    <2>3. CASE f \in log[tx[u].surat]
      BY <1>1, <2>1, <2>3 DEF TurnsKnown
    <2>4. CASE tx[u].surat = s /\ f.at = tx[t].ver
      BY <1>1, <2>1, <2>4 DEF TurnsKnown
    <2> QED
      BY <2>2, <2>3, <2>4
  <1>5. \A u \in Tx : tx'[u].pc # "idle" =>
          /\ tx'[u].ver <= begun'
          /\ \A v \in Tx : tx'[v].pc # "idle" /\ tx'[v].ver = tx'[u].ver => v = u
    BY <1>1, <1>3 DEF TurnsKnown
  <1>6. ASSUME NEW o \in Surat, NEW f \in log'[o]
        PROVE  f.at <= begun'
    <2>1. f \in log[o] \/ f.at = tx[t].ver
      BY <1>2, <1>6
    <2> QED
      BY <1>1, <2>1 DEF TurnsKnown
  <1> QED
    BY <1>4, <1>5, <1>6 DEF TurnsKnown

\* What LogReadsOn says of one entry, and LastEntryIsTrue of one surat.
Follows(e, es) ==
  \E d \in es : /\ Left(d, e.before)
                /\ d.at < e.at \/ e.late
                /\ \A f \in es : d.at < f.at /\ f.at < e.at => Overtaken(d) \/ Overtaken(f)

Newest(es, r) ==
  \E d \in es : Left(d, r) /\ \A f \in es : f.at <= d.at \/ Overtaken(d)

LEMMA CommitKeepsLog ==
  ASSUME IInv, NEW t \in Tx, Commit(t)
  PROVE  LogReadsOn' /\ LastEntryIsTrue'
  <1> DEFINE s == tx[t].surat
             e == NewEntry(t)
  <1>1. /\ s \in Surat /\ tx[t].pc = "commit" /\ Applies(tx[t].kind, surat[s])
        /\ tx[t] \in TxRec /\ surat[s] \in Row /\ tx[t].ver \in Nat
        /\ log \in [Surat -> SUBSET Entry]
        /\ \A o \in Surat : surat'[o] = IF o = s THEN After(t) ELSE surat[o]
    BY CommitFacts, AllSure DEF IInv, TypeOK, TxRec
  <1>2. /\ \A o \in Surat \ {s} : log'[o] = log[o] /\ (o \in silent' <=> o \in silent)
        /\ IF tx[t].kind \in Audited
           THEN log'[s] = log[s] \cup {e} /\ s \notin silent'
           ELSE log'[s] = log[s] /\ s \in silent'
    BY CommitLog
  <1>3. tx[t].kind \in Audited =>
          /\ e.act = tx[t].kind /\ e.at = tx[t].ver
          /\ e.late = tx[t].late /\ e.silent = (s \in silent)
          /\ e.before = tx[t].before /\ e.stale = tx[t].stale
          /\ tx[t].kind # "delete" => e.after = After(t)
          /\ tx[t].kind # "create" /\ ~tx[t].stale => tx[t].before = surat[s]
    BY EntryFacts
  <1>4. After(t).ver = tx[t].ver
        /\ (tx[t].kind = "delete" =>
              After(t) = [surat[s] EXCEPT !.st = "deleted", !.ver = tx[t].ver])
    BY <1>1 DEF After, Row, TxRec
  \* Entries of later transactions were committed first: t was overtaken.
  <1>5. \A f \in log[s] : /\ f.at \in Nat /\ f.at # tx[t].ver
                          /\ f.at > tx[t].ver => tx[t].late \/ tx[t].stale
    BY <1>1 DEF IInv, TurnsKnown, Entry
  <1> HIDE DEF s, e
  <1>6. ASSUME tx[t].kind \in Audited, e.act # "create", ~e.stale, ~e.silent
        PROVE  Follows(e, log'[s])
    <2>1. s \notin silent /\ e.before = surat[s] /\ surat[s].st # "none"
      BY <1>1, <1>3, <1>6 DEF Applies, TxRec, Kind, Audited
    <2>2. PICK d \in log[s] : Left(d, surat[s]) /\ \A f \in log[s] : f.at <= d.at \/ Overtaken(d)
      BY <1>1, <2>1 DEF IInv, LastEntryIsTrue, NoRow
    <2>3. d.at < e.at \/ e.late
      BY <1>1, <1>3, <1>5, <1>6, <2>2
    <2>4. ASSUME NEW f \in log'[s], d.at < f.at, f.at < e.at
          PROVE  Overtaken(d)
      <3>1. f \in log[s] /\ f.at \in Nat /\ d.at \in Nat
        BY <1>1, <1>2, <1>3, <1>5, <1>6, <2>2, <2>4
      <3> QED
        BY <2>2, <2>4, <3>1
    <2>5. d \in log'[s]
      BY <1>2, <1>6, <2>2
    <2> QED
      BY <2>1, <2>2, <2>3, <2>4, <2>5 DEF Follows
  <1>7. ASSUME NEW g \in log[s], g.act # "create", ~g.stale, ~g.silent
        PROVE  Follows(g, log'[s])
    <2>1. PICK d \in log[s] :
            /\ Left(d, g.before)
            /\ d.at < g.at \/ g.late
            /\ \A f \in log[s] : d.at < f.at /\ f.at < g.at => Overtaken(d) \/ Overtaken(f)
      BY <1>1, <1>7 DEF IInv, LogReadsOn
    <2>2. ASSUME NEW f \in log'[s], d.at < f.at, f.at < g.at
          PROVE  Overtaken(d) \/ Overtaken(f)
      <3>1. CASE f \in log[s]
        BY <2>1, <2>2, <3>1
      <3>2. CASE f \notin log[s]
        <4>1. f = e /\ tx[t].kind \in Audited
          BY <1>2, <2>2, <3>2
        <4>2. g.at > tx[t].ver
          BY <1>1, <1>3, <1>5, <2>2, <4>1
        <4> QED
          BY <1>3, <1>5, <4>1, <4>2 DEF Overtaken
      <3> QED
        BY <3>1, <3>2
    <2>3. d \in log'[s]
      BY <1>2, <2>1
    <2> QED
      BY <2>1, <2>2, <2>3 DEF Follows
  <1>8. LogReadsOn'
    <2>1. ASSUME NEW o \in Surat, NEW g \in log'[o], g.act # "create", ~g.stale, ~g.silent
          PROVE  Follows(g, log'[o])
      <3>1. CASE o = s /\ g \in log[s]
        BY <1>7, <2>1, <3>1
      <3>2. CASE o = s /\ g \notin log[s]
        BY <1>2, <1>6, <2>1, <3>2
      <3>3. CASE o # s
        BY <1>2, <2>1, <3>3 DEF IInv, LogReadsOn, Follows
      <3> QED
        BY <3>1, <3>2, <3>3
    <2> QED
      BY <2>1 DEF LogReadsOn, Follows, Left, Overtaken
  <1>9. ASSUME tx[t].kind \in Audited PROVE Left(e, After(t))
    <2>1. CASE tx[t].kind = "delete"
      <3>1. e.act = "delete" /\ (e.stale \/ e.before = surat[s])
        BY <1>3, <1>9, <2>1
      <3>2. After(t).st = "deleted" /\ After(t).ver = tx[t].ver
        BY <1>1, <1>4, <2>1 DEF Row, TxRec
      <3> QED
        BY <1>3, <1>4, <1>9, <2>1, <3>1, <3>2 DEF Left
    <2>2. CASE tx[t].kind # "delete"
      BY <1>3, <1>4, <1>9, <2>2 DEF Left
    <2> QED
      BY <2>1, <2>2
  <1>10. ASSUME NEW o \in Surat, o \notin silent'
         PROVE  IF log'[o] = {} THEN surat'[o] = NoRow ELSE Newest(log'[o], surat'[o])
    <2>1. CASE o = s
      <3>1. tx[t].kind \in Audited /\ log'[s] = log[s] \cup {e}
        BY <1>2, <1>10, <2>1
      <3>2. ASSUME NEW f \in log'[s] PROVE f.at <= e.at \/ Overtaken(e)
        BY <1>1, <1>3, <1>5, <3>1, <3>2 DEF Overtaken
      <3> QED
        BY <1>1, <1>9, <2>1, <3>1, <3>2 DEF Newest
    <2>2. CASE o # s
      <3>1. log'[o] = log[o] /\ surat'[o] = surat[o] /\ o \notin silent
        BY <1>1, <1>2, <1>10, <2>2
      <3> QED
        BY <3>1 DEF IInv, LastEntryIsTrue, Newest
    <2> QED
      BY <2>1, <2>2
  <1>11. LastEntryIsTrue'
    BY <1>10 DEF LastEntryIsTrue, Newest, Left, Overtaken
  <1> QED
    BY <1>8, <1>11

LEMMA StepCommit ==
  ASSUME IInv, NEW t \in Tx, Commit(t)
  PROVE  IInv'
  <1>1. TypeOK'
    BY CommitFacts, CommitLog DEF IInv, TypeOK
  <1> QED
    BY <1>1, CommitKeepsTx, CommitKeepsClaims, CommitKeepsUnique, CommitKeepsTurns,
       CommitKeepsLog DEF IInv

-----------------------------------------------------------------------------
\* The theorems

LEMMA Initial == Init => IInv
  <1> SUFFICES ASSUME Init PROVE IInv
    OBVIOUS
  <1>1. TypeOK
    BY IdleType, NoRowType DEF Init, TypeOK
  <1>2. TxFits
    BY DEF Init, TxFits, IdleTx, NoRow
  <1>3. LocksHold /\ NumbersClaimed /\ ImagesFit /\ TurnsKnown
    BY DEF Init, LocksHold, NumbersClaimed, ImagesFit, TurnsKnown, IdleTx
  <1>4. NomorUnique /\ LogReadsOn /\ LastEntryIsTrue
    BY KeluarAssumption DEF Init, NomorUnique, LogReadsOn, LastEntryIsTrue, NoRow
  <1> QED
    BY <1>1, <1>2, <1>3, <1>4 DEF IInv

LEMMA Stutter == IInv /\ UNCHANGED vars => IInv'
  <1> SUFFICES ASSUME IInv, UNCHANGED vars PROVE IInv'
    OBVIOUS
  <1>1. \A u \in Tx : After(u)' = After(u)
    BY AfterSame DEF vars
  <1>2. TypeOK' /\ TxFits' /\ LocksHold' /\ ImagesFit' /\ TurnsKnown'
    BY DEF vars, IInv, TypeOK, TxFits, LocksHold, Locked, ImagesFit, TurnsKnown
  <1>3. NumbersClaimed'
    BY <1>1 DEF vars, IInv, NumbersClaimed, Indexed, Rivals, Claimed, Holds
  <1>4. NomorUnique' /\ LogReadsOn' /\ LastEntryIsTrue'
    BY DEF vars, IInv, NomorUnique, LogReadsOn, LastEntryIsTrue
  <1> QED
    BY <1>2, <1>3, <1>4 DEF IInv

LEMMA Inductive == IInv /\ [Next]_vars => IInv'
  <1>1. ASSUME IInv, Next PROVE IInv'
    BY <1>1, StepBeginOne, StepReadBefore, StepLockRow, StepEnterIndex, StepEnd, StepCommit
       DEF Next, Proceed
  <1> QED
    BY <1>1, Stutter

\* Locks, numbers, images and entries of the transactions fit together at all times.
THEOREM Invariance == Spec => []IInv
  <1> QED
    BY Initial, Inductive, PTL DEF Spec

\* The partial unique index keeps the numbers of live outgoing surat apart, whichever
\* way a surat becomes live or gets its number.
THEOREM NumbersAreUnique == Spec => []NomorUnique
  <1>1. IInv => NomorUnique
    BY DEF IInv
  <1> QED
    BY <1>1, Invariance, PTL

\* Every entry begins where the one ended that wrote the row it found, and created_at
\* puts them in that order, but for what LogReadsOn names: images outdated under the
\* lock, changes without an entry, and transactions that overtook one another
\* (surat_write.go:83-87, 160-163, 198-201; audit_log, 0001_init.sql:245-257).
THEOREM LogIsAHistory == Spec => []LogReadsOn
  <1>1. IInv => LogReadsOn
    BY DEF IInv
  <1> QED
    BY <1>1, Invariance, PTL

\* The entry of a row's last change is in the log and agrees with the row, and is the
\* newest by created_at unless its transaction was overtaken: recordAudit shares the
\* transaction of its change (surat_write.go:227-238).
THEOREM LastEntryStays == Spec => []LastEntryIsTrue
  <1>1. IInv => LastEntryIsTrue
    BY DEF IInv
  <1> QED
    BY <1>1, Invariance, PTL
=============================================================================
