------------------------- MODULE RotationTxn_proofs -------------------------
(***************************************************************************)
(* Theorems about RotationTxn, for every supply of ids and every number of *)
(* transactions: row locks alone keep the tables in step, make the commits *)
(* those of the token family, and make a purge complete.  Which            *)
(* transaction of a deadlock is given up, and when, plays no part.         *)
(***************************************************************************)
EXTENDS RotationTxn, TLAPS, FiniteSetTheorems, WellFoundedInduction

(***************************************************************************)
(* The inductive invariant.                                                *)
(***************************************************************************)
Given(j) == \E s \in Sids : j \in used[s]

\* Sessions and tokens that are there were handed out, each token once.
HandedOut ==
  /\ \A s \in session : used[s] # {}
  /\ \A x \in refreshToken : x.jti \in used[x.sid]
  /\ \A r, s \in Sids : r # s => used[r] \cap used[s] = {}

Mints(t) == txn[t].at \in RotatePoints \cup {"login.commit"}

\* The ids that a transaction is about to insert are nobody else's.
MintsFresh(t) ==
  /\ Mints(t) =>
       /\ ~Given(txn[t].jti)
       /\ \A u \in Txns \ {t} : Mints(u) => txn[u].jti # txn[t].jti
  /\ txn[t].at = "login.commit" =>
       /\ used[txn[t].sid] = {}
       /\ \A u \in Txns \ {t} : txn[u].at = "login.commit" => txn[u].sid # txn[t].sid
  /\ txn[t].at \in RotatePoints => txn[t].old \in used[txn[t].sid]

\* A row that is locked is there, and is locked against the others.
LocksHold(t) ==
  /\ \A row \in LockedForUpdate(t) \cup LockedShared(t) : Exists(row)
  /\ \A u \in Txns \ {t} : /\ LockedForUpdate(t) \cap LockedForUpdate(u) = {}
                           /\ LockedForUpdate(t) \cap LockedShared(u) = {}
                           /\ LockedShared(t) \cap LockedForUpdate(u) = {}

\* What the three statements of a logout or a purge have come to: the second
\* will take the sessions of all tokens that are deleted, the third the tokens
\* of all sessions that are.
DeletesInStep(t) ==
  txn[t].at \in EndPoints =>
    /\ txn[t].want \subseteq IF txn[t].at = "sessions" THEN Sids ELSE Jtis
    /\ \A j \in Jtis : j \in txn[t].want => Given(j)
    /\ \A s \in txn[t].seen : used[s] # {}
    /\ txn[t].at = "sessions" =>
         /\ \A x \in refreshToken :
              x.jti \in txn[t].gone => x.sid \in txn[t].gone \cup txn[t].want
         /\ txn[t].seen \cap session \subseteq txn[t].gone \cup txn[t].want
    /\ txn[t].at = "cascade" =>
         /\ \A x \in refreshToken :
              x.sid \in txn[t].gone <=> x.jti \in txn[t].gone \cup txn[t].want
         /\ txn[t].seen \cap session \subseteq txn[t].gone

InHand(t) == MintsFresh(t) /\ LocksHold(t) /\ DeletesInStep(t)

TxnInv == TablesInStep /\ HandedOut /\ \A t \in Txns : InHand(t)

(***************************************************************************)
(* Types.                                                                  *)
(***************************************************************************)
LEMMA TxnShapes ==
  ASSUME NEW q \in Txn
  PROVE  /\ q.at = "login.commit" => q \in [at: {"login.commit"}, sid: Sids, jti: Jtis]
         /\ q.at \in RotatePoints =>
              q \in [at: RotatePoints, old: Jtis, sid: Sids, jti: Jtis]
         /\ q.at \in EndPoints =>
              q \in [at: EndPoints, want: SUBSET Row, gone: SUBSET Row,
                     seen: SUBSET Sids]
         /\ q.at \in {"idle", "login.commit"} \cup RotatePoints \cup EndPoints
BY DEF Txn, Idle, RotatePoints, EndPoints

LEMMA SomeOf ==
  ASSUME NEW ids, ids # {}
  PROVE  Some(ids) \in ids
BY DEF Some

LEMMA AwaitIs ==
  ASSUME TxnTypeOK, NEW t \in Txns, NEW q, Await(t, q)
  PROVE  txn'[t] = q /\ \A u \in Txns \ {t} : txn'[u] = txn[u]
BY DEF TxnTypeOK, Await

LEMMA AwaitType ==
  ASSUME TxnTypeOK, NEW t \in Txns, NEW q \in Txn, Await(t, q)
  PROVE  txn' \in [Txns -> Txn]
BY DEF TxnTypeOK, Await

LEMMA TypeStep ==
  ASSUME TxnTypeOK, [Next]_vars
  PROVE  TxnTypeOK'
<1> USE DEF TxnTypeOK
<1>1. Idle \in Txn  BY DEF Txn
<1>2. ASSUME NEW t \in Txns, LoginBegin(t)  PROVE TxnTypeOK'
  <2>1. Some(FreshSids) \in Sids /\ Some(FreshJtis) \in Jtis
    BY <1>2, SomeOf DEF LoginBegin, FreshSids, FreshJtis
  <2> QED  BY <1>2, <2>1, AwaitType DEF LoginBegin, tables, Txn
<1>3. ASSUME NEW t \in Txns, LoginCommit(t)  PROVE TxnTypeOK'
  <2>1. txn[t].sid \in Sids /\ txn[t].jti \in Jtis
    BY <1>3, TxnShapes DEF LoginCommit
  <2> QED  BY <1>1, <1>3, <2>1, AwaitType DEF LoginCommit, Finish
<1>4. ASSUME NEW t \in Txns, RotateBegin(t)  PROVE TxnTypeOK'
  <2>1. PICK x \in refreshToken :
          Await(t, [at |-> "rotate.delete", old |-> x.jti, sid |-> x.sid,
                    jti |-> Some(FreshJtis)])
    BY <1>4 DEF RotateBegin
  <2>2. Some(FreshJtis) \in Jtis /\ x.jti \in Jtis /\ x.sid \in Sids
    BY <1>4, SomeOf DEF RotateBegin, FreshJtis
  <2> QED  BY <1>4, <2>1, <2>2, AwaitType DEF RotateBegin, tables, Txn, RotatePoints
<1>5. ASSUME NEW t \in Txns, RotateDelete(t) \/ RotateCreate(t)  PROVE TxnTypeOK'
  <2>1. txn[t] \in [at: RotatePoints, old: Jtis, sid: Sids, jti: Jtis]
    BY <1>5, TxnShapes DEF RotateDelete, RotateCreate, RotatePoints
  <2>2. \A p \in RotatePoints : [txn[t] EXCEPT !.at = p] \in Txn  BY <2>1 DEF Txn
  <2> QED
    BY <1>1, <1>5, <2>2, AwaitType
       DEF RotateDelete, RotateCreate, Finish, tables, RotatePoints
<1>6. ASSUME NEW t \in Txns, RotateCommit(t)  PROVE TxnTypeOK'
  <2>1. txn[t].sid \in Sids /\ txn[t].jti \in Jtis
    BY <1>6, TxnShapes DEF RotateCommit, RotatePoints
  <2> QED  BY <1>1, <1>6, <2>1, AwaitType DEF RotateCommit, Finish
<1>7. ASSUME NEW t \in Txns, LogoutBegin(t) \/ PurgeBegin(t)  PROVE TxnTypeOK'
  <2>1. PICK rows \in SUBSET Visible : End(t, rows)
    BY <1>7 DEF LogoutBegin, PurgeBegin
  <2>2. rows \in SUBSET Row  BY DEF Visible, Row
  <2>3. [at |-> "tokens", want |-> rows, gone |-> {}, seen |-> session] \in Txn
    BY <2>2 DEF Txn, EndPoints
  <2> QED  BY <2>1, <2>3, AwaitType DEF End, tables
<1>8. ASSUME NEW t \in Txns, NEW row \in Row, DeleteRow(t, row)  PROVE TxnTypeOK'
  <2>1. txn[t] \in [at: EndPoints, want: SUBSET Row, gone: SUBSET Row,
                    seen: SUBSET Sids]
    BY <1>8, TxnShapes DEF DeleteRow
  <2>2. [txn[t] EXCEPT !.want = @ \ {row},
                       !.gone = IF StillThere(row) THEN @ \cup {row} ELSE @] \in Txn
    BY <2>1 DEF Txn
  <2> QED  BY <1>8, <2>2, AwaitType DEF DeleteRow, tables
<1>9. ASSUME NEW t \in Txns, DeleteSessions(t) \/ CascadeSessions(t)  PROVE TxnTypeOK'
  <2>1. txn[t] \in [at: EndPoints, want: SUBSET Row, gone: SUBSET Row,
                    seen: SUBSET Sids]
    BY <1>9, TxnShapes DEF DeleteSessions, CascadeSessions, EndPoints
  <2>2. session \in SUBSET Row /\ Orphans(t) \ txn[t].gone \in SUBSET Row
    BY DEF Row, Orphans
  <2>3. ASSUME NEW p \in EndPoints, NEW rows \in SUBSET Row
        PROVE  [txn[t] EXCEPT !.at = p, !.want = rows] \in Txn
    BY <2>1 DEF Txn
  <2> QED
    BY <1>9, <2>2, <2>3, AwaitType DEF DeleteSessions, CascadeSessions, EndPoints, tables
<1>10. ASSUME NEW t \in Txns, EndCommit(t)  PROVE TxnTypeOK'
  BY <1>1, <1>10, AwaitType DEF EndCommit, Finish
<1>11. ASSUME NEW t \in Txns, GiveUp(t)  PROVE TxnTypeOK'
  BY <1>1, <1>11, AwaitType DEF GiveUp, Rollback, Finish, tables
<1>12. CASE UNCHANGED vars  BY <1>12 DEF vars, tables
<1> QED
  BY <1>2, <1>3, <1>4, <1>5, <1>6, <1>7, <1>8, <1>9, <1>10, <1>11, <1>12
     DEF Next, Begin, Step, RotateRefuse

(***************************************************************************)
(* Statements: one transaction goes on, and nothing is committed.          *)
(***************************************************************************)
LEMMA QuietStep ==
  ASSUME TxnTypeOK, TxnInv, UNCHANGED tables,
         NEW t \in Txns, NEW q, Await(t, q), InHand(t)'
  PROVE  TxnInv'
<1>1. TablesInStep' /\ HandedOut'
  BY DEF tables, TxnInv, TablesInStep, HandedOut
<1>2. ASSUME NEW u \in Txns \ {t}  PROVE InHand(u)'
  <2>1. InHand(u)  BY <1>2 DEF TxnInv
  <2>2. txn'[u] = txn[u] /\ \A v \in Txns \ {t} : txn'[v] = txn[v]
    BY <1>2, AwaitIs
  <2>3. \A row : Exists(row)' <=> Exists(row)  BY DEF tables, Exists
  <2>4. \A j : Given(j)' <=> Given(j)  BY DEF tables, Given
  <2>5. MintsFresh(u)'
    BY <2>1, <2>2, <2>4 DEF InHand, MintsFresh, Mints, tables
  <2>6. LocksHold(u)'
    BY <2>1, <2>2, <2>3 DEF InHand, LocksHold, LockedForUpdate, LockedShared
  <2>7. DeletesInStep(u)'
    BY <2>1, <2>2, <2>4 DEF InHand, DeletesInStep, tables
  <2> QED  BY <2>5, <2>6, <2>7 DEF InHand
<1> QED  BY <1>1, <1>2 DEF TxnInv

\* A transaction that is over has nothing in hand.
LEMMA IdleInHand ==
  ASSUME TxnTypeOK, NEW t \in Txns, Finish(t)
  PROVE  InHand(t)'
<1>1. txn'[t] = Idle  BY AwaitIs DEF Finish
<1> QED
  BY <1>1 DEF Idle, InHand, MintsFresh, Mints, LocksHold, LockedForUpdate, LockedShared,
              DeletesInStep, RotatePoints, EndPoints

LEMMA RollbackStep ==
  ASSUME TxnTypeOK, TxnInv, NEW t \in Txns, Finish(t), UNCHANGED tables
  PROVE  TxnInv'
BY QuietStep, IdleInHand DEF Finish

LEMMA LoginBeginStep ==
  ASSUME TxnTypeOK, TxnInv, NEW t \in Txns, LoginBegin(t)
  PROVE  TxnInv'
<1> DEFINE q == [at |-> "login.commit", sid |-> Some(FreshSids), jti |-> Some(FreshJtis)]
<1>1. Await(t, q) /\ UNCHANGED tables  BY DEF LoginBegin
<1>2. q.sid \in FreshSids /\ q.jti \in FreshJtis  BY SomeOf DEF LoginBegin
<1>3. q.at = "login.commit"  OBVIOUS
<1> HIDE DEF q
<1>4. txn'[t] = q /\ \A u \in Txns \ {t} : txn'[u] = txn[u]  BY <1>1, AwaitIs
<1>5. MintsFresh(t)'
  BY <1>1, <1>2, <1>3, <1>4
     DEF MintsFresh, Mints, Given, FreshSids, FreshJtis, RotatePoints, tables
<1>6. LocksHold(t)' /\ DeletesInStep(t)'
  BY <1>3, <1>4
     DEF LocksHold, LockedForUpdate, LockedShared, DeletesInStep, RotatePoints, EndPoints
<1> QED  BY <1>1, <1>5, <1>6, QuietStep DEF InHand

LEMMA RotateBeginStep ==
  ASSUME TxnTypeOK, TxnInv, NEW t \in Txns, RotateBegin(t)
  PROVE  TxnInv'
<1>1. PICK x \in refreshToken :
        Await(t, [at |-> "rotate.delete", old |-> x.jti, sid |-> x.sid,
                  jti |-> Some(FreshJtis)])
  BY DEF RotateBegin
<1> DEFINE q == [at |-> "rotate.delete", old |-> x.jti, sid |-> x.sid,
                 jti |-> Some(FreshJtis)]
<1>2. Await(t, q) /\ UNCHANGED tables  BY <1>1 DEF RotateBegin
<1>3. q.jti \in FreshJtis  BY SomeOf DEF RotateBegin
<1>4. q.at = "rotate.delete" /\ q.old \in used[q.sid]
  BY DEF TxnInv, HandedOut
<1> HIDE DEF q
<1>5. txn'[t] = q /\ \A u \in Txns \ {t} : txn'[u] = txn[u]  BY <1>2, AwaitIs
<1>6. MintsFresh(t)'
  BY <1>2, <1>3, <1>4, <1>5 DEF MintsFresh, Mints, Given, FreshJtis, RotatePoints, tables
<1>7. LocksHold(t)' /\ DeletesInStep(t)'
  BY <1>4, <1>5
     DEF LocksHold, LockedForUpdate, LockedShared, DeletesInStep, RotatePoints, EndPoints
<1> QED  BY <1>2, <1>6, <1>7, QuietStep DEF InHand

\* The next statement of a rotation keeps the ids it has in hand.
LEMMA RotationGoesOn ==
  ASSUME TxnTypeOK, TxnInv, UNCHANGED tables, NEW t \in Txns,
         txn[t].at \in RotatePoints, NEW p \in RotatePoints,
         Await(t, [txn[t] EXCEPT !.at = p])
  PROVE  /\ MintsFresh(t)' /\ DeletesInStep(t)'
         /\ txn'[t].at = p /\ txn'[t].old = txn[t].old /\ txn'[t].sid = txn[t].sid
<1>1. txn'[t] = [txn[t] EXCEPT !.at = p] /\ \A u \in Txns \ {t} : txn'[u] = txn[u]
  BY AwaitIs
<1>2. txn[t] \in [at: RotatePoints, old: Jtis, sid: Sids, jti: Jtis]
  BY TxnShapes DEF TxnTypeOK
<1>3. /\ txn'[t].at = p /\ txn'[t].old = txn[t].old
      /\ txn'[t].sid = txn[t].sid /\ txn'[t].jti = txn[t].jti
  BY <1>1, <1>2
<1>4. MintsFresh(t)  BY DEF TxnInv, InHand
<1>5. MintsFresh(t)'
  BY <1>1, <1>3, <1>4 DEF MintsFresh, Mints, Given, RotatePoints, tables
<1>6. DeletesInStep(t)'  BY <1>3 DEF DeletesInStep, RotatePoints, EndPoints
<1> QED  BY <1>3, <1>5, <1>6

LEMMA RotateDeleteStep ==
  ASSUME TxnTypeOK, TxnInv, NEW t \in Txns, RotateDelete(t)
  PROVE  TxnInv'
<1>1. CASE ~StillThere(txn[t].old)  BY <1>1, RollbackStep DEF RotateDelete
<1>2. CASE StillThere(txn[t].old)
  <2> DEFINE q == [txn[t] EXCEPT !.at = "rotate.create"]
  <2>1. Await(t, q) /\ UNCHANGED tables /\ txn[t].at = "rotate.delete"
    BY <1>2 DEF RotateDelete
  <2>2. /\ MintsFresh(t)' /\ DeletesInStep(t)'
        /\ txn'[t].at = "rotate.create" /\ txn'[t].old = txn[t].old
    BY <2>1, RotationGoesOn DEF RotatePoints
  <2>3. \A u \in Txns \ {t} : txn'[u] = txn[u]  BY <2>1, AwaitIs
  <2>4. /\ LockedForUpdate(t)' = {txn[t].old} /\ LockedShared(t)' = {}
        /\ \A u \in Txns \ {t} : /\ LockedForUpdate(u)' = LockedForUpdate(u)
                                 /\ LockedShared(u)' = LockedShared(u)
    BY <2>2, <2>3 DEF LockedForUpdate, LockedShared, RotatePoints, EndPoints
  <2>5. \A row : Exists(row)' <=> Exists(row)  BY <2>1 DEF Exists, tables
  <2>6. \A u \in Txns \ {t} :
          txn[t].old \notin LockedForUpdate(u) \cup LockedShared(u)
    BY DEF RotateDelete, Deleters
  <2>7. LocksHold(t)'  BY <1>2, <2>4, <2>5, <2>6 DEF LocksHold, StillThere
  <2> QED  BY <2>1, <2>2, <2>7, QuietStep DEF InHand
<1> QED  BY <1>1, <1>2

LEMMA RotateCreateStep ==
  ASSUME TxnTypeOK, TxnInv, NEW t \in Txns, RotateCreate(t)
  PROVE  TxnInv'
<1>1. CASE ~Exists(txn[t].sid)  BY <1>1, RollbackStep DEF RotateCreate
<1>2. CASE Exists(txn[t].sid)
  <2> DEFINE q == [txn[t] EXCEPT !.at = "rotate.commit"]
  <2>1. Await(t, q) /\ UNCHANGED tables /\ txn[t].at = "rotate.create"
    BY <1>2 DEF RotateCreate
  <2>2. /\ MintsFresh(t)' /\ DeletesInStep(t)'
        /\ txn'[t].at = "rotate.commit" /\ txn'[t].old = txn[t].old
        /\ txn'[t].sid = txn[t].sid
    BY <2>1, RotationGoesOn DEF RotatePoints
  <2>3. \A u \in Txns \ {t} : txn'[u] = txn[u]  BY <2>1, AwaitIs
  <2>4. /\ LockedForUpdate(t)' = {txn[t].old} /\ LockedShared(t)' = {txn[t].sid}
        /\ LockedForUpdate(t) = {txn[t].old} /\ LockedShared(t) = {}
        /\ \A u \in Txns \ {t} : /\ LockedForUpdate(u)' = LockedForUpdate(u)
                                 /\ LockedShared(u)' = LockedShared(u)
    BY <2>1, <2>2, <2>3 DEF LockedForUpdate, LockedShared, RotatePoints, EndPoints
  <2>5. LocksHold(t)  BY DEF TxnInv, InHand
  <2>6. \A row : Exists(row)' <=> Exists(row)  BY <2>1 DEF Exists, tables
  <2>7. \A u \in Txns \ {t} : txn[t].sid \notin LockedForUpdate(u)
    BY DEF RotateCreate, Sharers
  <2>8. LocksHold(t)'  BY <1>2, <2>4, <2>5, <2>6, <2>7 DEF LocksHold
  <2> QED  BY <2>1, <2>2, <2>8, QuietStep DEF InHand
<1> QED  BY <1>1, <1>2

LEMMA EndBeginStep ==
  ASSUME TxnTypeOK, TxnInv, NEW t \in Txns, LogoutBegin(t) \/ PurgeBegin(t)
  PROVE  TxnInv'
<1>1. PICK rows \in SUBSET Visible : End(t, rows)
  BY DEF LogoutBegin, PurgeBegin
<1> DEFINE q == [at |-> "tokens", want |-> rows, gone |-> {}, seen |-> session]
<1>2. Await(t, q) /\ UNCHANGED tables  BY <1>1 DEF End
<1>3. txn'[t] = q  BY <1>2, AwaitIs
<1>4. \A j \in Visible : j \in Jtis /\ Given(j)
  BY DEF Visible, TxnTypeOK, TxnInv, HandedOut, Given
<1>5. DeletesInStep(t)'
  BY <1>2, <1>3, <1>4 DEF DeletesInStep, EndPoints, Given, tables, TxnInv, HandedOut
<1>6. MintsFresh(t)' /\ LocksHold(t)'
  BY <1>3 DEF MintsFresh, Mints, LocksHold, LockedForUpdate, LockedShared,
              RotatePoints, EndPoints
<1> QED  BY <1>2, <1>5, <1>6, QuietStep DEF InHand

LEMMA DeleteRowStep ==
  ASSUME TxnTypeOK, TxnInv, NEW t \in Txns, NEW row \in Row, DeleteRow(t, row)
  PROVE  TxnInv'
<1> DEFINE q == [txn[t] EXCEPT !.want = @ \ {row},
                               !.gone = IF StillThere(row) THEN @ \cup {row} ELSE @]
<1>1. txn[t] \in [at: EndPoints, want: SUBSET Row, gone: SUBSET Row, seen: SUBSET Sids]
  BY TxnShapes DEF DeleteRow, TxnTypeOK
<1>2. Await(t, q) /\ UNCHANGED tables /\ row \in txn[t].want  BY DEF DeleteRow
<1>3. /\ q.at = txn[t].at /\ q.at \in EndPoints /\ q.seen = txn[t].seen
      /\ q.want = txn[t].want \ {row}
      /\ q.gone = IF Exists(row) THEN txn[t].gone \cup {row} ELSE txn[t].gone
  BY <1>1 DEF StillThere
<1> HIDE DEF q
<1>4. txn'[t] = q /\ \A u \in Txns \ {t} : txn'[u] = txn[u]  BY <1>2, AwaitIs
<1>5. \A r : Exists(r)' <=> Exists(r)  BY <1>2 DEF Exists, tables
<1>6. LocksHold(t)'
  <2>1. LocksHold(t)  BY DEF TxnInv, InHand
  <2>2. \A u \in Txns \ {t} : row \notin LockedForUpdate(u) \cup LockedShared(u)
    BY DEF DeleteRow, Deleters
  <2>3. /\ LockedForUpdate(t) = txn[t].gone /\ LockedForUpdate(t)' = q.gone
        /\ LockedShared(t)' = {}
        /\ \A u \in Txns \ {t} : /\ LockedForUpdate(u)' = LockedForUpdate(u)
                                 /\ LockedShared(u)' = LockedShared(u)
    BY <1>3, <1>4 DEF LockedForUpdate, LockedShared, RotatePoints, EndPoints
  <2> QED  BY <1>3, <1>5, <2>1, <2>2, <2>3 DEF LocksHold
<1>7. DeletesInStep(t)'
  <2>1. DeletesInStep(t)  BY DEF TxnInv, InHand
  <2>2. \A x \in refreshToken : x.jti \in Jtis /\ x.sid \in session /\ x.sid \in Sids
    BY DEF TxnInv, TablesInStep, TxnTypeOK
  <2>3. Sids \cap Jtis = {}  BY RowsAssumption
  <2>4. /\ q.want \subseteq IF q.at = "sessions" THEN Sids ELSE Jtis
        /\ \A j \in Jtis : j \in q.want => Given(j)
        /\ \A s \in q.seen : used[s] # {}
    BY <1>3, <2>1 DEF DeletesInStep
  <2>5. CASE q.at = "sessions"
    <3>1. row \in Sids  BY <1>2, <1>3, <2>1, <2>5 DEF DeletesInStep
    <3>2. \A x \in refreshToken : x.jti \in q.gone => x.sid \in q.gone \cup q.want
      BY <1>3, <2>1, <2>2, <2>3, <2>5, <3>1 DEF DeletesInStep, Exists
    <3>3. q.seen \cap session \subseteq q.gone \cup q.want
      BY <1>3, <2>1, <2>5 DEF DeletesInStep, Exists
    <3> QED  BY <1>2, <1>4, <2>4, <2>5, <3>2, <3>3 DEF DeletesInStep, Given, tables
  <2>6. CASE q.at = "cascade"
    <3>1. row \in Jtis  BY <1>2, <1>3, <2>1, <2>6 DEF DeletesInStep
    <3>2. \A x \in refreshToken : x.sid \in q.gone <=> x.jti \in q.gone \cup q.want
      BY <1>2, <1>3, <2>1, <2>2, <2>3, <2>6, <3>1 DEF DeletesInStep, Exists
    <3>3. q.seen \cap session \subseteq q.gone
      BY <1>3, <2>1, <2>6 DEF DeletesInStep
    <3> QED  BY <1>2, <1>4, <2>4, <2>6, <3>2, <3>3 DEF DeletesInStep, Given, tables
  <2>7. CASE q.at \notin {"sessions", "cascade"}
    BY <1>2, <1>4, <2>4, <2>7 DEF DeletesInStep, Given, tables
  <2> QED  BY <2>5, <2>6, <2>7
<1>8. MintsFresh(t)'
  BY <1>3, <1>4 DEF MintsFresh, Mints, RotatePoints, EndPoints
<1> QED  BY <1>2, <1>6, <1>7, <1>8, QuietStep DEF InHand

\* The next statement of a logout or a purge keeps the rows that are deleted.
LEMMA EndGoesOn ==
  ASSUME TxnTypeOK, TxnInv, UNCHANGED tables, NEW t \in Txns,
         txn[t].at \in EndPoints, NEW p \in EndPoints, NEW rows,
         Await(t, [txn[t] EXCEPT !.at = p, !.want = rows])
  PROVE  /\ MintsFresh(t)' /\ LocksHold(t)'
         /\ txn'[t].at = p /\ txn'[t].want = rows
         /\ txn'[t].gone = txn[t].gone /\ txn'[t].seen = txn[t].seen
<1>1. /\ txn'[t] = [txn[t] EXCEPT !.at = p, !.want = rows]
      /\ \A u \in Txns \ {t} : txn'[u] = txn[u]
  BY AwaitIs
<1>2. txn[t] \in [at: EndPoints, want: SUBSET Row, gone: SUBSET Row, seen: SUBSET Sids]
  BY TxnShapes DEF TxnTypeOK
<1>3. /\ txn'[t].at = p /\ txn'[t].want = rows
      /\ txn'[t].gone = txn[t].gone /\ txn'[t].seen = txn[t].seen
  BY <1>1, <1>2
<1>4. MintsFresh(t)'  BY <1>3 DEF MintsFresh, Mints, RotatePoints, EndPoints
<1>5. /\ LockedForUpdate(t)' = LockedForUpdate(t) /\ LockedShared(t)' = LockedShared(t)
      /\ \A u \in Txns \ {t} : /\ LockedForUpdate(u)' = LockedForUpdate(u)
                               /\ LockedShared(u)' = LockedShared(u)
  BY <1>1, <1>3 DEF LockedForUpdate, LockedShared, RotatePoints, EndPoints
<1>6. \A row : Exists(row)' <=> Exists(row)  BY DEF Exists, tables
<1>7. LocksHold(t)'  BY <1>5, <1>6 DEF TxnInv, InHand, LocksHold
<1> QED  BY <1>3, <1>4, <1>7

LEMMA DeleteSessionsStep ==
  ASSUME TxnTypeOK, TxnInv, NEW t \in Txns, DeleteSessions(t)
  PROVE  TxnInv'
<1>1. /\ Await(t, [txn[t] EXCEPT !.at = "sessions", !.want = session])
      /\ UNCHANGED tables /\ txn[t].at = "tokens"
  BY DEF DeleteSessions
<1>2. /\ MintsFresh(t)' /\ LocksHold(t)'
      /\ txn'[t].at = "sessions" /\ txn'[t].want = session
      /\ txn'[t].gone = txn[t].gone /\ txn'[t].seen = txn[t].seen
  BY <1>1, EndGoesOn DEF EndPoints
<1>3. DeletesInStep(t)  BY DEF TxnInv, InHand
<1>4. session \subseteq Sids /\ Sids \cap Jtis = {}  BY RowsAssumption DEF TxnTypeOK
<1>5. \A x \in refreshToken : x.sid \in session  BY DEF TxnInv, TablesInStep
<1>6. DeletesInStep(t)'
  BY <1>1, <1>2, <1>3, <1>4, <1>5 DEF DeletesInStep, EndPoints, Given, tables
<1> QED  BY <1>1, <1>2, <1>6, QuietStep DEF InHand

LEMMA CascadeSessionsStep ==
  ASSUME TxnTypeOK, TxnInv, NEW t \in Txns, CascadeSessions(t)
  PROVE  TxnInv'
<1> DEFINE rows == Orphans(t) \ txn[t].gone
<1>1. /\ Await(t, [txn[t] EXCEPT !.at = "cascade", !.want = rows])
      /\ UNCHANGED tables /\ txn[t].at = "sessions" /\ txn[t].want = {}
  BY DEF CascadeSessions
<1>2. /\ MintsFresh(t)' /\ LocksHold(t)'
      /\ txn'[t].at = "cascade" /\ txn'[t].want = rows
      /\ txn'[t].gone = txn[t].gone /\ txn'[t].seen = txn[t].seen
  BY <1>1, EndGoesOn DEF EndPoints
<1>3. DeletesInStep(t)  BY DEF TxnInv, InHand
<1>4. \A x, y \in refreshToken : x.jti = y.jti => x = y
  BY DEF TxnInv, TablesInStep
<1>5. \A x \in refreshToken : x.jti \in Jtis /\ Given(x.jti)
  BY DEF TxnTypeOK, TxnInv, HandedOut, Given
<1>6. rows \subseteq Jtis /\ \A j \in rows : Given(j)  BY <1>5 DEF Orphans
<1>7. \A x \in refreshToken : x.sid \in txn[t].gone <=> x.jti \in txn[t].gone \cup rows
  BY <1>1, <1>3, <1>4 DEF DeletesInStep, Orphans, EndPoints
<1> HIDE DEF rows
<1>8. DeletesInStep(t)'
  BY <1>1, <1>2, <1>3, <1>6, <1>7 DEF DeletesInStep, EndPoints, Given, tables
<1> QED  BY <1>1, <1>2, <1>8, QuietStep DEF InHand

(***************************************************************************)
(* Commits: what they make of the tables leaves the others' work intact.   *)
(***************************************************************************)
\* Tables change by what the transaction has inserted and locked, no more.
CommitsOwn(t) ==
  /\ \A row : Exists(row) /\ row \notin LockedForUpdate(t) => Exists(row)'
  /\ \A s \in Sids : \A j \in used'[s] :
       j \in used[s] \/ (Mints(t) /\ s = txn[t].sid /\ j = txn[t].jti)
  /\ \A s \in Sids : used[s] \subseteq used'[s]
  /\ \A s \in session' :
       s \in session \/ (txn[t].at = "login.commit" /\ s = txn[t].sid)
  /\ \A x \in refreshToken' :
       x \in refreshToken \/ (Mints(t) /\ x.jti = txn[t].jti /\ x.sid = txn[t].sid)
  /\ txn[t].at \in {"login.commit", "rotate.commit", "cascade"}

LEMMA CommitInHand ==
  ASSUME TxnTypeOK, TxnInv, NEW t \in Txns, Finish(t), CommitsOwn(t), NEW u \in Txns
  PROVE  InHand(u)'
<1>1. CASE u = t  BY <1>1, IdleInHand
<1>2. CASE u # t
  <2>1. InHand(t) /\ InHand(u)  BY DEF TxnInv
  <2>2. /\ \A v \in Txns \ {t} : txn'[v] = txn[v]
        /\ txn'[t] = Idle /\ txn'[u] = txn[u]
    BY <1>2, AwaitIs DEF Finish
  <2>3. txn[u] \in Txn /\ txn[t] \in Txn  BY DEF TxnTypeOK
  <2>4. Mints(t) => /\ txn[t].sid \in Sids /\ txn[t].jti \in Jtis
                    /\ ~Given(txn[t].jti)
                    /\ txn[t].sid \in LockedShared(t) \/ used[txn[t].sid] = {}
    BY <2>1, <2>3, TxnShapes
       DEF Mints, InHand, MintsFresh, CommitsOwn, LockedShared, RotatePoints
  <2>5. \A j : Given(j)' => Given(j) \/ (Mints(t) /\ j = txn[t].jti)
    BY DEF Given, CommitsOwn
  <2>6. \A j : Given(j) => Given(j)'  BY DEF Given, CommitsOwn
  <2>7. MintsFresh(u)'
    <3>1. \A v \in Txns \ {t} : Mints(v)' <=> Mints(v)  BY <2>2 DEF Mints
    <3>2. ~Mints(t)'  BY <2>2 DEF Mints, Idle, RotatePoints
    <3>3. Mints(u) => ~Given(txn[u].jti)'
      BY <1>2, <2>1, <2>2, <2>5 DEF InHand, MintsFresh
    <3>4. txn[u].at = "login.commit" => used'[txn[u].sid] = {}
      <4>1. SUFFICES ASSUME txn[u].at = "login.commit", NEW j \in used'[txn[u].sid]
                     PROVE  FALSE
        OBVIOUS
      <4>2. txn[u].sid \in Sids /\ used[txn[u].sid] = {}
        BY <2>1, <2>3, <4>1, TxnShapes DEF InHand, MintsFresh
      <4>3. Mints(t) /\ txn[u].sid = txn[t].sid  BY <4>1, <4>2 DEF CommitsOwn
      <4>4. txn[t].at = "login.commit" => txn[u].sid # txn[t].sid
        BY <1>2, <2>1, <4>1 DEF InHand, MintsFresh
      <4>5. txn[t].at = "rotate.commit" => used[txn[t].sid] # {}
        BY <2>1 DEF InHand, MintsFresh, RotatePoints
      <4> QED  BY <4>2, <4>3, <4>4, <4>5 DEF CommitsOwn, Mints, RotatePoints
    <3>5. txn[u].at \in RotatePoints => txn[u].old \in used'[txn[u].sid]
      BY <2>1, <2>3, TxnShapes DEF InHand, MintsFresh, CommitsOwn
    <3> QED
      BY <1>2, <2>1, <2>2, <3>1, <3>2, <3>3, <3>4, <3>5 DEF InHand, MintsFresh, Mints, Idle
  <2>8. LocksHold(u)'
    <3>1. /\ LockedForUpdate(t)' = {} /\ LockedShared(t)' = {}
          /\ \A v \in Txns \ {t} : /\ LockedForUpdate(v)' = LockedForUpdate(v)
                                   /\ LockedShared(v)' = LockedShared(v)
      BY <2>2 DEF LockedForUpdate, LockedShared, Idle, RotatePoints, EndPoints
    <3>2. \A row \in LockedForUpdate(u) \cup LockedShared(u) :
            Exists(row) /\ row \notin LockedForUpdate(t)
      BY <1>2, <2>1 DEF InHand, LocksHold
    <3> QED  BY <1>2, <2>1, <3>1, <3>2 DEF InHand, LocksHold, CommitsOwn
  <2>9. DeletesInStep(u)'
    <3>1. SUFFICES ASSUME txn[u].at \in EndPoints  PROVE DeletesInStep(u)'
      BY <2>2 DEF DeletesInStep
    <3>2. txn[u] \in [at: EndPoints, want: SUBSET Row, gone: SUBSET Row,
                      seen: SUBSET Sids]
      BY <2>3, <3>1, TxnShapes
    <3>3. /\ \A row \in txn[u].gone : Exists(row)
          /\ txn[u].gone \cap LockedShared(t) = {}
      BY <1>2, <2>1, <3>1 DEF InHand, LocksHold, LockedForUpdate
    <3>4. \A j \in Jtis : Exists(j) => Given(j)
      BY RowsAssumption DEF Exists, Given, TxnTypeOK, TxnInv, HandedOut
    <3>5. \A s \in Sids : Exists(s) => used[s] # {}
      BY RowsAssumption DEF Exists, TxnTypeOK, TxnInv, HandedOut
    <3>6. Mints(t) => txn[t].sid \notin txn[u].gone /\ txn[t].jti \notin txn[u].gone
      BY <2>4, <3>3, <3>4, <3>5
    <3>7. DeletesInStep(u)  BY <2>1 DEF InHand
    <3>8. /\ txn[u].want \subseteq IF txn[u].at = "sessions" THEN Sids ELSE Jtis
          /\ \A j \in Jtis : j \in txn[u].want => Given(j) /\ Given(j)'
          /\ \A s \in txn[u].seen : used[s] # {} /\ used'[s] # {}
      BY <2>6, <3>1, <3>2, <3>7 DEF DeletesInStep, CommitsOwn
    <3>9. txn[u].seen \cap session' \subseteq session
      BY <2>1, <3>8 DEF CommitsOwn, InHand, MintsFresh
    <3>10. CASE txn[u].at = "sessions"
      <4>1. \A x \in refreshToken' :
              x.jti \in txn[u].gone => x.sid \in txn[u].gone \cup txn[u].want
        BY <3>1, <3>6, <3>7, <3>10 DEF DeletesInStep, CommitsOwn
      <4>2. txn[u].seen \cap session' \subseteq txn[u].gone \cup txn[u].want
        BY <3>1, <3>7, <3>9, <3>10 DEF DeletesInStep
      <4> QED  BY <2>2, <3>8, <3>10, <4>1, <4>2 DEF DeletesInStep
    <3>11. CASE txn[u].at = "cascade"
      <4>1. ASSUME NEW x \in refreshToken'
            PROVE  x.sid \in txn[u].gone <=> x.jti \in txn[u].gone \cup txn[u].want
        <5>1. CASE x \in refreshToken
          BY <3>1, <3>7, <3>11, <5>1 DEF DeletesInStep
        <5>2. CASE Mints(t) /\ x.jti = txn[t].jti /\ x.sid = txn[t].sid
          BY <2>4, <3>6, <3>8, <5>2
        <5> QED  BY <5>1, <5>2 DEF CommitsOwn
      <4>2. txn[u].seen \cap session' \subseteq txn[u].gone
        BY <3>1, <3>7, <3>9, <3>11 DEF DeletesInStep
      <4> QED  BY <2>2, <3>8, <3>11, <4>1, <4>2 DEF DeletesInStep
    <3>12. CASE txn[u].at \notin {"sessions", "cascade"}
      BY <2>2, <3>8, <3>12 DEF DeletesInStep
    <3> QED  BY <3>10, <3>11, <3>12
  <2> QED  BY <2>7, <2>8, <2>9 DEF InHand
<1> QED  BY <1>1, <1>2

LEMMA LoginCommitStep ==
  ASSUME TxnTypeOK, TxnInv, NEW t \in Txns, LoginCommit(t)
  PROVE  TxnInv'
<1> DEFINE sid == txn[t].sid
           jti == txn[t].jti
           n == [jti |-> jti, sid |-> sid]
<1>1. /\ session' = session \cup {sid}
      /\ refreshToken' = refreshToken \cup {n}
      /\ used' = [used EXCEPT ![sid] = @ \cup {jti}]
      /\ txn[t].at = "login.commit" /\ Finish(t)
  BY DEF LoginCommit
<1>2. sid \in Sids /\ jti \in Jtis  BY <1>1, TxnShapes DEF TxnTypeOK
<1>3. MintsFresh(t)  BY DEF TxnInv, InHand
<1>4. used[sid] = {} /\ ~Given(jti)  BY <1>1, <1>3 DEF MintsFresh, Mints
<1>5. sid \notin session /\ \A x \in refreshToken : x.sid # sid /\ x.jti # jti
  BY <1>4 DEF TxnInv, HandedOut, TablesInStep, Given, TxnTypeOK
<1>6. n.jti = jti /\ n.sid = sid  OBVIOUS
<1> HIDE DEF n
<1>7. TablesInStep'  BY <1>1, <1>5, <1>6 DEF TxnInv, TablesInStep
<1>8. /\ used'[sid] = {jti}
      /\ \A s \in Sids \ {sid} : used'[s] = used[s] /\ jti \notin used[s]
  BY <1>1, <1>2, <1>4 DEF TxnTypeOK, Given
<1>9. session \subseteq Sids /\ \A x \in refreshToken : x.sid \in Sids
  BY DEF TxnTypeOK
<1>10. HandedOut'
  BY <1>1, <1>2, <1>4, <1>5, <1>6, <1>8, <1>9 DEF TxnInv, HandedOut
<1>11. CommitsOwn(t)
  <2>1. Mints(t)  BY <1>1 DEF Mints
  <2>2. \A row : Exists(row) => Exists(row)'  BY <1>1 DEF Exists
  <2> QED  BY <1>1, <1>4, <1>6, <1>8, <2>1, <2>2 DEF CommitsOwn
<1> QED  BY <1>1, <1>7, <1>10, <1>11, CommitInHand DEF TxnInv

LEMMA RotateCommitStep ==
  ASSUME TxnTypeOK, TxnInv, NEW t \in Txns, RotateCommit(t)
  PROVE  TxnInv'
<1> DEFINE sid == txn[t].sid
           jti == txn[t].jti
           old == txn[t].old
           n == [jti |-> jti, sid |-> sid]
<1>1. /\ session' = session
      /\ refreshToken' = {x \in refreshToken : x.jti # old} \cup {n}
      /\ used' = [used EXCEPT ![sid] = @ \cup {jti}]
      /\ txn[t].at = "rotate.commit" /\ Finish(t)
  BY DEF RotateCommit
<1>2. sid \in Sids /\ jti \in Jtis /\ old \in Jtis
  BY <1>1, TxnShapes DEF TxnTypeOK, RotatePoints
<1>3. MintsFresh(t) /\ LocksHold(t)  BY DEF TxnInv, InHand
<1>4. ~Given(jti) /\ old \in used[sid]
  BY <1>1, <1>3 DEF MintsFresh, Mints, RotatePoints
<1>5. Exists(old) /\ Exists(sid) /\ LockedForUpdate(t) = {old}
  BY <1>1, <1>3 DEF LocksHold, LockedForUpdate, LockedShared, RotatePoints, EndPoints
<1>6. \A x \in refreshToken : /\ x.sid \in session /\ x.sid \in Sids
                              /\ x.jti \in Jtis /\ x.jti \in used[x.sid]
  BY DEF TxnTypeOK, TxnInv, TablesInStep, HandedOut
<1>7. sid \in session /\ \E x \in refreshToken : x.jti = old
  BY <1>2, <1>5, <1>6, RowsAssumption DEF Exists, TxnTypeOK
<1>8. \A x \in refreshToken : (x.jti = old <=> x.sid = sid) /\ x.jti # jti
  BY <1>2, <1>4, <1>6, <1>7 DEF TxnInv, HandedOut, TablesInStep, Given
<1>9. n.jti = jti /\ n.sid = sid  OBVIOUS
<1> HIDE DEF n
<1>10. TablesInStep'  BY <1>1, <1>6, <1>7, <1>8, <1>9 DEF TxnInv, TablesInStep
<1>11. /\ used'[sid] = used[sid] \cup {jti}
       /\ \A s \in Sids \ {sid} : used'[s] = used[s] /\ jti \notin used[s]
  BY <1>1, <1>2, <1>4 DEF TxnTypeOK, Given
<1>12. HandedOut'
  BY <1>1, <1>2, <1>6, <1>9, <1>11 DEF TxnInv, HandedOut, TxnTypeOK
<1>13. CommitsOwn(t)
  <2>1. Mints(t)  BY <1>1 DEF Mints, RotatePoints
  <2>2. \A row : Exists(row) /\ row # old => Exists(row)'  BY <1>1 DEF Exists
  <2> QED  BY <1>1, <1>5, <1>9, <1>11, <2>1, <2>2 DEF CommitsOwn
<1> QED  BY <1>1, <1>10, <1>12, <1>13, CommitInHand DEF TxnInv

LEMMA EndCommitStep ==
  ASSUME TxnTypeOK, TxnInv, NEW t \in Txns, EndCommit(t)
  PROVE  TxnInv'
<1> DEFINE gone == txn[t].gone
<1>1. /\ session' = session \ gone
      /\ refreshToken' = {x \in refreshToken : x.jti \notin gone}
      /\ used' = used /\ Finish(t)
      /\ txn[t].at = "cascade" /\ txn[t].want = {}
  BY DEF EndCommit
<1>2. DeletesInStep(t)  BY DEF TxnInv, InHand
<1>3. \A x \in refreshToken : x.sid \in gone <=> x.jti \in gone
  BY <1>1, <1>2 DEF DeletesInStep, EndPoints
<1>4. TablesInStep'  BY <1>1, <1>3 DEF TxnInv, TablesInStep
<1>5. HandedOut'  BY <1>1 DEF TxnInv, HandedOut
<1>6. CommitsOwn(t)
  <2>1. \A row : Exists(row) /\ row \notin gone => Exists(row)'  BY <1>1 DEF Exists
  <2>2. LockedForUpdate(t) = gone  BY <1>1 DEF LockedForUpdate, EndPoints
  <2> QED  BY <1>1, <2>1, <2>2 DEF CommitsOwn
<1> QED  BY <1>1, <1>4, <1>5, <1>6, CommitInHand DEF TxnInv

LEMMA InvStep ==
  ASSUME TxnTypeOK, TxnInv, [Next]_vars
  PROVE  TxnInv'
<1>1. CASE UNCHANGED vars
  BY <1>1 DEF vars, tables, TxnInv, TablesInStep, HandedOut, InHand, MintsFresh, Mints,
              Given, LocksHold, LockedForUpdate, LockedShared, Exists, DeletesInStep
<1>2. ASSUME NEW t \in Txns, Begin(t)  PROVE TxnInv'
  BY <1>1, <1>2, LoginBeginStep, RotateBeginStep, EndBeginStep DEF Begin, RotateRefuse
<1>3. ASSUME NEW t \in Txns, Step(t)  PROVE TxnInv'
  BY <1>3, LoginCommitStep, RotateDeleteStep, RotateCreateStep, RotateCommitStep,
     DeleteRowStep, DeleteSessionsStep, CascadeSessionsStep, EndCommitStep, RollbackStep
     DEF Step, GiveUp, Rollback
<1> QED  BY <1>1, <1>2, <1>3 DEF Next

(***************************************************************************)
(* The token family.                                                       *)
(***************************************************************************)
FamilyVars == <<used, [s \in Sids |-> LiveToken(s)]>>

LEMMA LiveIs ==
  ASSUME TablesInStep
  PROVE  /\ \A x \in refreshToken : LiveToken(x.sid) = x.jti
         /\ \A s : (\A x \in refreshToken : x.sid # s) => LiveToken(s) = NoJti
<1>1. ASSUME NEW x \in refreshToken  PROVE LiveToken(x.sid) = x.jti
  <2>1. \A y \in refreshToken : y.sid = x.sid => y = x  BY DEF TablesInStep
  <2>2. (CHOOSE y \in refreshToken : y.sid = x.sid) = x  BY <2>1
  <2> QED  BY <2>2 DEF LiveToken
<1> QED  BY <1>1 DEF LiveToken

LEMMA LivePrime ==
  ASSUME TablesInStep'
  PROVE  /\ \A x \in refreshToken' : LiveToken(x.sid)' = x.jti
         /\ \A s : (\A x \in refreshToken' : x.sid # s) => LiveToken(s)' = NoJti
<1>1. ASSUME NEW x \in refreshToken'  PROVE LiveToken(x.sid)' = x.jti
  <2>1. \A y \in refreshToken' : y.sid = x.sid => y = x  BY DEF TablesInStep
  <2>2. (CHOOSE y \in refreshToken' : y.sid = x.sid) = x  BY <2>1
  <2> QED  BY <2>2 DEF LiveToken
<1> QED  BY <1>1 DEF LiveToken

\* A new token of session sid: all that Open and Rotate have in common.
LEMMA AdoptFamily ==
  ASSUME TablesInStep, TablesInStep', used \in [Sids -> SUBSET Jtis],
         NEW sid \in Sids, NEW jti \in Jtis, ~Given(jti),
         used' = [used EXCEPT ![sid] = @ \cup {jti}],
         \E n \in refreshToken' : n.jti = jti /\ n.sid = sid,
         \A x \in refreshToken' : x \in refreshToken \/ x.sid = sid,
         \A x \in refreshToken : x.sid = sid \/ x \in refreshToken'
  PROVE  Family!Adopt(sid, jti)
<1>1. jti \notin Family!Everywhere  BY DEF Family!Everywhere, Given
<1>2. LiveToken(sid)' = jti  BY LivePrime
<1>3. ASSUME NEW s \in Sids, s # sid  PROVE LiveToken(s)' = LiveToken(s)
  <2>1. CASE \E x \in refreshToken : x.sid = s
    BY <1>3, <2>1, LiveIs, LivePrime
  <2>2. CASE \A x \in refreshToken : x.sid # s
    BY <1>3, <2>2, LiveIs, LivePrime
  <2> QED  BY <2>1, <2>2
<1> QED  BY <1>1, <1>2, <1>3 DEF Family!Adopt

LEMMA LoginCommitFamily ==
  ASSUME TxnTypeOK, TxnInv, TxnInv', NEW t \in Txns, LoginCommit(t)
  PROVE  Family!Next
<1> DEFINE sid == txn[t].sid
           jti == txn[t].jti
           n == [jti |-> jti, sid |-> sid]
<1>1. /\ refreshToken' = refreshToken \cup {n}
      /\ used' = [used EXCEPT ![sid] = @ \cup {jti}]
      /\ txn[t].at = "login.commit"
  BY DEF LoginCommit
<1>2. sid \in Sids /\ jti \in Jtis  BY <1>1, TxnShapes DEF TxnTypeOK
<1>3. used[sid] = {} /\ ~Given(jti)
  BY <1>1 DEF TxnInv, InHand, MintsFresh, Mints
<1>4. n.jti = jti /\ n.sid = sid  OBVIOUS
<1> HIDE DEF n
<1>5. used \in [Sids -> SUBSET Jtis] /\ TablesInStep /\ TablesInStep'
  BY DEF TxnTypeOK, TxnInv
<1> HIDE DEF sid, jti
<1>6. Family!Adopt(sid, jti)  BY <1>1, <1>2, <1>3, <1>4, <1>5, AdoptFamily
<1> QED  BY <1>2, <1>3, <1>6 DEF Family!Next, Family!Open

LEMMA RotateCommitFamily ==
  ASSUME TxnTypeOK, TxnInv, TxnInv', NEW t \in Txns, RotateCommit(t)
  PROVE  Family!Next
<1> DEFINE sid == txn[t].sid
           jti == txn[t].jti
           old == txn[t].old
           n == [jti |-> jti, sid |-> sid]
<1>1. /\ refreshToken' = {x \in refreshToken : x.jti # old} \cup {n}
      /\ used' = [used EXCEPT ![sid] = @ \cup {jti}]
      /\ txn[t].at = "rotate.commit"
  BY DEF RotateCommit
<1>2. sid \in Sids /\ jti \in Jtis /\ old \in Jtis
  BY <1>1, TxnShapes DEF TxnTypeOK, RotatePoints
<1>3. ~Given(jti) /\ old \in used[sid]
  BY <1>1 DEF TxnInv, InHand, MintsFresh, Mints, RotatePoints
<1>4. Exists(old)
  BY <1>1 DEF TxnInv, InHand, LocksHold, LockedForUpdate, RotatePoints, EndPoints
<1>5. PICK o \in refreshToken : o.jti = old
  BY <1>2, <1>4, RowsAssumption DEF Exists, TxnTypeOK
<1>6. \A x \in refreshToken : x.jti = old => x.sid = sid
  BY <1>2, <1>3 DEF TxnTypeOK, TxnInv, HandedOut
<1>7. n.jti = jti /\ n.sid = sid  OBVIOUS
<1> HIDE DEF n
<1>8. used \in [Sids -> SUBSET Jtis] /\ TablesInStep /\ TablesInStep'
  BY DEF TxnTypeOK, TxnInv
<1>9. LiveToken(sid) # NoJti
  BY <1>2, <1>5, <1>6, <1>8, LiveIs, RowsAssumption
<1> HIDE DEF sid, jti, old
<1>10. Family!Adopt(sid, jti)
  BY <1>1, <1>2, <1>3, <1>6, <1>7, <1>8, AdoptFamily
<1> QED  BY <1>2, <1>9, <1>10 DEF Family!Next, Family!Rotate

LEMMA EndCommitFamily ==
  ASSUME TxnTypeOK, TxnInv, TxnInv', NEW t \in Txns, EndCommit(t)
  PROVE  Family!Next
<1> DEFINE gone == txn[t].gone
<1>1. /\ refreshToken' = {x \in refreshToken : x.jti \notin gone}
      /\ used' = used /\ txn[t].at = "cascade" /\ txn[t].want = {}
  BY DEF EndCommit
<1>2. \A x \in refreshToken : x.sid \in gone <=> x.jti \in gone
  BY <1>1 DEF TxnInv, InHand, DeletesInStep, EndPoints
<1>3. TablesInStep /\ TablesInStep'  BY DEF TxnInv
<1>4. ASSUME NEW s \in Sids
      PROVE  LiveToken(s)' = IF s \in gone THEN NoJti ELSE LiveToken(s)
  <2>1. CASE s \in gone
    BY <1>1, <1>2, <1>3, <2>1, LivePrime
  <2>2. CASE s \notin gone /\ \E x \in refreshToken : x.sid = s
    BY <1>1, <1>2, <1>3, <2>2, LiveIs, LivePrime
  <2>3. CASE s \notin gone /\ \A x \in refreshToken : x.sid # s
    BY <1>1, <1>3, <2>3, LiveIs, LivePrime
  <2> QED  BY <2>1, <2>2, <2>3
<1>5. Family!End(gone \cap Sids)  BY <1>1, <1>4 DEF Family!End
<1> QED  BY <1>5 DEF Family!Next

\* A step that leaves the tables alone stutters in the family.
LEMMA QuietFamily ==
  ASSUME UNCHANGED tables
  PROVE  UNCHANGED FamilyVars
<1>1. \A s \in Sids : LiveToken(s)' = LiveToken(s)  BY DEF tables, LiveToken
<1> QED  BY <1>1 DEF tables, FamilyVars

LEMMA StepFamily ==
  ASSUME TxnTypeOK, TxnInv, TxnInv', [Next]_vars
  PROVE  Family!Next \/ UNCHANGED FamilyVars
<1>1. CASE UNCHANGED tables  BY <1>1, QuietFamily
<1>2. ASSUME NEW t \in Txns, Begin(t)  PROVE UNCHANGED tables
  BY <1>2 DEF Begin, LoginBegin, RotateBegin, RotateRefuse, LogoutBegin, PurgeBegin, End, vars
<1>3. ASSUME NEW t \in Txns, Step(t)  PROVE Family!Next \/ UNCHANGED tables
  BY <1>3, LoginCommitFamily, RotateCommitFamily, EndCommitFamily
     DEF Step, RotateDelete, RotateCreate, DeleteRow, DeleteSessions, CascadeSessions,
         GiveUp, Rollback
<1> QED  BY <1>1, <1>2, <1>3 DEF Next, vars

(***************************************************************************)
(* The end of a purge.                                                     *)
(***************************************************************************)
\* Who has nothing left to lock waits for nobody, and is not given up.
LEMMA NoVictim ==
  ASSUME NEW t \in Txns, txn[t].at = "cascade", txn[t].want = {}
  PROVE  ~GiveUp(t)
<1>1. WaitsFor(t) = {}  BY DEF WaitsFor
<1>2. {} \in SUBSET Txns  OBVIOUS
<1>3. ~InDeadlock(t)  BY <1>1, <1>2 DEF InDeadlock
<1> QED  BY <1>3 DEF GiveUp

LEMMA PurgeStep ==
  ASSUME TxnTypeOK, TxnInv, TxnInv', [Next]_vars, NEW t \in Txns,
         txn[t].at = "cascade", txn[t].want = {}, txn'[t] = Idle
  PROVE  /\ txn[t].seen \cap session' = {}
         /\ \A x \in refreshToken' : x.sid \notin txn[t].seen
<1>1. txn'[t] # txn[t]  BY DEF Idle
<1>2. ASSUME NEW u \in Txns, Begin(u)  PROVE txn[u] = Idle /\ txn' = [txn EXCEPT ![u] = txn'[u]]
  BY <1>2 DEF Begin, LoginBegin, RotateBegin, RotateRefuse, LogoutBegin, PurgeBegin, End,
              Await, vars, TxnTypeOK
<1>3. ASSUME NEW u \in Txns, Step(u)  PROVE txn' = [txn EXCEPT ![u] = txn'[u]]
  BY <1>3 DEF Step, LoginCommit, RotateDelete, RotateCreate, RotateCommit, DeleteRow,
              DeleteSessions, CascadeSessions, EndCommit, GiveUp, Rollback, Finish, Await,
              TxnTypeOK
<1>4. Step(t)
  <2>1. PICK u \in Txns : Begin(u) \/ Step(u)  BY <1>1 DEF Next, vars
  <2>2. u = t  BY <1>1, <1>2, <1>3, <2>1 DEF TxnTypeOK
  <2>3. ~Begin(t)  BY <1>2 DEF Idle
  <2> QED  BY <2>1, <2>2, <2>3
<1>5. EndCommit(t)
  BY <1>4, NoVictim
     DEF Step, LoginCommit, RotateDelete, RotateCreate, RotateCommit, DeleteRow,
         DeleteSessions, CascadeSessions
<1>6. txn[t].seen \cap session \subseteq txn[t].gone
  BY DEF TxnInv, InHand, DeletesInStep, EndPoints
<1>7. txn[t].seen \cap session' = {}  BY <1>5, <1>6 DEF EndCommit
<1> QED  BY <1>7 DEF TxnInv, TablesInStep

(***************************************************************************)
(* The theorems.                                                           *)
(***************************************************************************)
LEMMA TxnStart ==
  ASSUME Init
  PROVE  TxnTypeOK /\ TxnInv /\ Family!Init
<1>1. TxnTypeOK  BY DEF Init, TxnTypeOK, Txn
<1>2. TxnInv
  BY DEF Init, Idle, TxnInv, TablesInStep, HandedOut, InHand, MintsFresh, Mints,
         LocksHold, LockedForUpdate, LockedShared, DeletesInStep, RotatePoints, EndPoints
<1>3. Family!Init  BY DEF Init, Family!Init, LiveToken
<1> QED  BY <1>1, <1>2, <1>3

\* Committed rows and running statements have the types of the tables and of
\* the code.
THEOREM TxnTypeCorrect == Spec => []TxnTypeOK
BY TxnStart, TypeStep, PTL DEF Spec

\* The inductive invariant: what each transaction holds locks on is there and
\* held against the others, and what it is about to do still agrees with it.
THEOREM TxnHolds == Spec => []TxnInv
BY TxnTypeCorrect, TxnStart, InvStep, PTL DEF Spec

\* Row locks of single statements are enough: whatever sign-ins, rotations and
\* purges see of each other, each session keeps exactly one token and no token
\* outlives its session.
THEOREM TablesStayInStep == Spec => []TablesInStep
<1>1. TxnInv => TablesInStep  BY DEF TxnInv
<1> QED  BY <1>1, TxnHolds, PTL

\* A logout or a purge that commits has ended every session that was there when
\* it began, and no token of theirs is left, however often it was replaced
\* meanwhile.
THEOREM PurgesComplete == Spec => PurgeIsComplete
<1>1. TxnTypeOK /\ TxnInv /\ TxnInv' /\ [Next]_vars =>
        [\A t \in Txns :
           txn[t].at = "cascade" /\ txn[t].want = {} /\ txn'[t] = Idle =>
             /\ txn[t].seen \cap session' = {}
             /\ \A x \in refreshToken' : x.sid \notin txn[t].seen]_vars
  BY PurgeStep
<1> QED  BY <1>1, TxnTypeCorrect, TxnHolds, PTL DEF Spec, PurgeIsComplete

\* READ COMMITTED transactions implement the atomic token family: each commit is
\* one of its steps, and everything else a stutter.
THEOREM CommitsImplementFamily == Spec => CommitsAsFamily
<1>1. Init => Family!Init  BY TxnStart
<1>2. TxnTypeOK /\ TxnInv /\ TxnInv' /\ [Next]_vars
        => [Family!Next]_<<used, [s \in Sids |-> LiveToken(s)]>>
  BY StepFamily DEF FamilyVars
<1> QED
  BY <1>1, <1>2, TxnTypeCorrect, TxnHolds, PTL DEF Spec, CommitsAsFamily, Family!Spec

(***************************************************************************)
(* Waiting.                                                                *)
(***************************************************************************)

\* Those a transaction waits for, directly or through others.
Behind(t) == {x \in Txns : \A S \in SUBSET Txns :
                (\A u \in S \cup {t} : WaitsFor(u) \subseteq S) => x \in S}

\* Whom a statement waits for holds the lock it needs.
LEMMA WaitingIs ==
  ASSUME TxnTypeOK, NEW t \in Txns, NEW u \in WaitsFor(t)
  PROVE  /\ u \in Txns \ {t}
         /\ \/ txn[t].at = "rotate.delete" /\ u \in Deleters(t, txn[t].old)
            \/ txn[t].at = "rotate.create" /\ u \in Sharers(t, txn[t].sid)
            \/ txn[t].at \in EndPoints /\ \E row : u \in Deleters(t, row)
<1>1. CASE txn[t].at = "rotate.delete"
  BY <1>1 DEF WaitsFor, Deleters, EndPoints
<1>2. CASE txn[t].at = "rotate.create"
  BY <1>2 DEF WaitsFor, Sharers, EndPoints
<1>3. CASE txn[t].at \notin {"rotate.delete", "rotate.create"}
  <2>1. /\ txn[t].at \in EndPoints
        /\ u \in UNION {Deleters(t, row) : row \in txn[t].want}
    BY <1>3 DEF WaitsFor
  <2> QED  BY <2>1 DEF Deleters
<1> QED  BY <1>1, <1>2, <1>3

LEMMA WaitsForTxns ==
  ASSUME TxnTypeOK, NEW t \in Txns
  PROVE  WaitsFor(t) \subseteq Txns
BY WaitingIs

LEMMA BehindCloses ==
  ASSUME TxnTypeOK, NEW t \in Txns
  PROVE  /\ WaitsFor(t) \subseteq Behind(t)
         /\ \A u \in Behind(t) : WaitsFor(u) \subseteq Behind(t)
<1>1. \A u \in Txns : WaitsFor(u) \subseteq Txns  BY WaitsForTxns
<1> QED  BY <1>1 DEF Behind

LEMMA BehindNests ==
  ASSUME TxnTypeOK, NEW t \in Txns, NEW u \in WaitsFor(t)
  PROVE  Behind(u) \subseteq Behind(t)
<1>1. u \in Behind(t) /\ Behind(t) \in SUBSET Txns
  BY BehindCloses DEF Behind
<1>2. \A x \in Behind(t) \cup {u} : WaitsFor(x) \subseteq Behind(t)
  BY <1>1, BehindCloses
<1> QED  BY <1>1, <1>2 DEF Behind

LEMMA BehindSplits ==
  ASSUME TxnTypeOK, NEW t \in Txns, NEW x \in Behind(t)
  PROVE  \E u \in WaitsFor(t) : x = u \/ x \in Behind(u)
<1> DEFINE S == {y \in Txns : \E u \in WaitsFor(t) : y = u \/ y \in Behind(u)}
<1>1. WaitsFor(t) \subseteq S  BY WaitsForTxns
<1>2. ASSUME NEW y \in S PROVE WaitsFor(y) \subseteq S
  <2>1. PICK u \in WaitsFor(t) : y = u \/ y \in Behind(u)  OBVIOUS
  <2>2. u \in Txns  BY WaitsForTxns
  <2>3. WaitsFor(y) \subseteq Behind(u)  BY <2>1, <2>2, BehindCloses
  <2> QED  BY <2>3 DEF Behind
<1>3. S \in SUBSET Txns  OBVIOUS
<1>4. x \in S
  <2> HIDE DEF S
  <2> QED  BY <1>1, <1>2, <1>3 DEF Behind
<1> QED  BY <1>4

LEMMA DeadlockIs ==
  ASSUME NEW t \in Txns
  PROVE  InDeadlock(t) <=> t \in Behind(t)
BY DEF InDeadlock, Behind

\* Whoever waits for himself waits for somebody who does.
LEMMA DeadlockGoesOn ==
  ASSUME TxnTypeOK, NEW t \in Txns, InDeadlock(t)
  PROVE  \E u \in WaitsFor(t) : InDeadlock(u)
<1>1. PICK u \in WaitsFor(t) : t = u \/ t \in Behind(u)
  BY BehindSplits, DeadlockIs
<1>2. u \in Txns  BY WaitsForTxns
<1>3. u \in Behind(u)
  <2>1. CASE t = u  BY <2>1, DeadlockIs
  <2>2. CASE t \in Behind(u)  BY <1>2, <2>2, BehindCloses
  <2> QED  BY <1>1, <2>1, <2>2
<1> QED  BY <1>2, <1>3, DeadlockIs

\* A rotation that inserts waits for a logout or a purge: nobody else locks the
\* row of a session against it.
LEMMA InsertWaitsForEnd ==
  ASSUME TxnTypeOK, NEW t \in Txns, txn[t].at = "rotate.create",
         NEW u \in WaitsFor(t)
  PROVE  txn[u].at \in EndPoints
<1>1. u \in Txns /\ txn[t].sid \in LockedForUpdate(u)
  BY WaitingIs DEF Sharers, EndPoints
<1>2. txn[t].sid \in Sids
  BY TxnShapes DEF TxnTypeOK, RotatePoints
<1>3. txn[u].at \in RotatePoints => txn[u].old \in Jtis
  BY <1>1, TxnShapes DEF TxnTypeOK
<1>4. txn[u].at \notin EndPoints =>
        txn[u].at \in RotatePoints /\ txn[t].sid = txn[u].old
  BY <1>1 DEF LockedForUpdate
<1> QED  BY <1>2, <1>3, <1>4, RowsAssumption

\* A rotation that deletes waits for one of these or for another rotation, which
\* is past its delete.
LEMMA DeleteWaitsFor ==
  ASSUME TxnTypeOK, NEW t \in Txns, txn[t].at = "rotate.delete",
         NEW u \in WaitsFor(t)
  PROVE  txn[u].at \in EndPoints \cup {"rotate.create", "rotate.commit"}
<1>1. u \in Txns /\ txn[t].old \in LockedForUpdate(u) \cup LockedShared(u)
  BY WaitingIs DEF Deleters, EndPoints
<1> QED  BY <1>1 DEF LockedForUpdate, LockedShared, RotatePoints

LEMMA DeadlockHasEnd ==
  ASSUME TxnTypeOK
  PROVE  DeadlockNeedsEnd
<1>1. SUFFICES ASSUME NEW t \in Txns, InDeadlock(t)
               PROVE  \E u \in Txns : txn[u].at \in EndPoints /\ InDeadlock(u)
  BY DEF DeadlockNeedsEnd
<1>2. ASSUME NEW x \in Txns, InDeadlock(x), txn[x].at = "rotate.create"
      PROVE  \E u \in Txns : txn[u].at \in EndPoints /\ InDeadlock(u)
  BY <1>2, DeadlockGoesOn, InsertWaitsForEnd, WaitsForTxns
<1>3. \A x \in Txns : InDeadlock(x) =>
        txn[x].at \in EndPoints \cup {"rotate.delete", "rotate.create"}
  BY DeadlockGoesOn, WaitingIs
<1>4. CASE txn[t].at = "rotate.delete"
  <2>1. PICK u \in WaitsFor(t) : InDeadlock(u)  BY <1>1, DeadlockGoesOn
  <2>2. u \in Txns  BY WaitsForTxns
  <2>3. txn[u].at \in EndPoints \/ txn[u].at = "rotate.create"
    BY <1>3, <1>4, <2>1, <2>2, DeleteWaitsFor DEF EndPoints
  <2> QED  BY <1>2, <2>1, <2>2, <2>3
<1> QED  BY <1>1, <1>2, <1>3, <1>4

\* Nothing that sign-ins and rotations do to each other, however many present one
\* token, is a deadlock: each one has a logout or a purge in it.
THEOREM DeadlocksNeedEnds == Spec => []DeadlockNeedsEnd
<1>1. TxnTypeOK => DeadlockNeedsEnd  BY DeadlockHasEnd
<1> QED  BY <1>1, TxnTypeCorrect, PTL

\* What the next statement of a transaction waits for has come, or PostgreSQL
\* may give the transaction up.
CanGoOn(t) ==
  \/ txn[t].at \in {"login.commit", "rotate.commit"}
  \/ txn[t].at = "rotate.delete" /\ Deleters(t, txn[t].old) = {}
  \/ txn[t].at = "rotate.create" /\ Sharers(t, txn[t].sid) = {}
  \/ /\ txn[t].at \in EndPoints
     /\ txn[t].want = {} \/ \E row \in txn[t].want : Deleters(t, row) = {}
  \/ InDeadlock(t)

\* While transactions run, one of them can go on.
SomebodyGoesOn == (\E t \in Txns : txn[t] # Idle) => \E t \in Txns : CanGoOn(t)

LEMMA GoesOnOrWaits ==
  ASSUME TxnTypeOK, NEW t \in Txns, txn[t] # Idle, WaitsFor(t) = {}
  PROVE  CanGoOn(t)
<1>1. txn[t].at \in {"login.commit"} \cup RotatePoints \cup EndPoints
  BY DEF TxnTypeOK, Txn, RotatePoints, EndPoints
<1>2. CASE txn[t].at = "rotate.delete"
  BY <1>2 DEF WaitsFor, CanGoOn, EndPoints
<1>3. CASE txn[t].at = "rotate.create"
  BY <1>3 DEF WaitsFor, CanGoOn, EndPoints
<1>4. CASE txn[t].at \in EndPoints
  <2>1. SUFFICES ASSUME txn[t].want # {},
                        \A row \in txn[t].want : Deleters(t, row) # {}
                 PROVE  FALSE
    BY <1>4 DEF CanGoOn
  <2>2. WaitsFor(t) = UNION {Deleters(t, row) : row \in txn[t].want}
    BY <1>4, <2>1 DEF WaitsFor, EndPoints
  <2> QED  BY <2>1, <2>2
<1> QED  BY <1>1, <1>2, <1>3, <1>4 DEF CanGoOn, RotatePoints

LEMMA WaitersGoOn ==
  ASSUME TxnTypeOK, IsFiniteSet(Txns)
  PROVE  SomebodyGoesOn
<1>1. SUFFICES ASSUME NEW t \in Txns, txn[t] # Idle,
                      \A u \in Txns : ~InDeadlock(u),
                      \A u \in Txns : txn[u] # Idle => WaitsFor(u) # {}
               PROVE  FALSE
  BY GoesOnOrWaits DEF SomebodyGoesOn, CanGoOn
<1> DEFINE T == {Behind(u) : u \in {x \in Txns : txn[x] # Idle}}
           R == StrictSubsetOrdering(Txns)
<1>2. IsWellFoundedOn(R, SUBSET Txns)
  BY FS_StrictSubsetOrderingWellFounded, FS_FiniteSubsetsOfFinite
<1>3. T \subseteq SUBSET Txns /\ T # {}
  <2>1. Behind(t) \in T  BY <1>1
  <2>2. \A u \in Txns : Behind(u) \in SUBSET Txns  BY DEF Behind
  <2> QED  BY <2>1, <2>2
<1>4. PICK least \in T : \A y \in T : <<y, least>> \notin R
  <2> HIDE DEF T, R
  <2> QED  BY <1>2, <1>3, WFMin
<1>5. PICK u \in Txns : txn[u] # Idle /\ least = Behind(u)  OBVIOUS
<1>6. PICK w \in WaitsFor(u) : TRUE  BY <1>1, <1>5
<1>7. w \in Txns /\ Behind(w) \subseteq Behind(u)
  BY WaitsForTxns, BehindNests
<1>8. w \in Behind(u) /\ w \notin Behind(w)
  BY <1>1, <1>7, BehindCloses, DeadlockIs
<1>9. txn[w] # Idle
  <2>1. \E row : row \in LockedForUpdate(w) \cup LockedShared(w)
    BY WaitingIs DEF Deleters, Sharers
  <2> QED
    BY <2>1 DEF LockedForUpdate, LockedShared, Idle, RotatePoints, EndPoints
<1>10. Behind(w) \in T  BY <1>7, <1>9
<1>11. <<Behind(w), least>> \in R
  <2>1. Behind(w) \in SUBSET Txns /\ least \in SUBSET Txns  BY <1>5 DEF Behind
  <2>2. Behind(w) \subseteq least /\ Behind(w) # least  BY <1>5, <1>7, <1>8
  <2> QED  BY <2>1, <2>2 DEF StrictSubsetOrdering
<1> QED  BY <1>4, <1>10, <1>11

\* Transactions of which none is in a deadlock cannot all wait: what the end of
\* every transaction rests on besides the fairness.
THEOREM SomebodyAlwaysGoesOn ==
  ASSUME IsFiniteSet(Txns)
  PROVE  Spec => []SomebodyGoesOn
<1>1. TxnTypeOK => SomebodyGoesOn  BY WaitersGoOn
<1> QED  BY <1>1, TxnTypeCorrect, PTL
=============================================================================
