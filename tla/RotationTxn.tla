---------------------------- MODULE RotationTxn ----------------------------
(***************************************************************************)
(* The transactions on the sessions of one account, statement by           *)
(* statement: sign-in, rotation, logout, and the purge that a change or    *)
(* reset of the password, a deletion and "revoke all" have in common.      *)
(* AuthSessions takes each of them as one action; here PostgreSQL runs     *)
(* them READ COMMITTED, with row locks, and gives up one transaction of a  *)
(* deadlock.  Transactions of different accounts share no row.             *)
(*                                                                         *)
(* A statement sees the rows that are committed when it starts, locks      *)
(* those it is to delete one after the other, and passes over a row that   *)
(* is gone when the lock is granted.  What a transaction has inserted or   *)
(* deleted is seen by nobody else until it commits, so the tables here are *)
(* the committed rows, and the changes are in txn[t].                      *)
(***************************************************************************)
EXTENDS Naturals

CONSTANTS
  Sids, Jtis,   \* ids of sessions and of refresh tokens (supply): the rows
  NoJti,        \* the token of a session that has none
  Txns,         \* how many transactions run at once
  MaxEnds       \* bound: how many logouts and purges are asked for

ASSUME RowsAssumption == Sids \cap Jtis = {} /\ NoJti \notin Jtis
ASSUME EndsAssumption == MaxEnds \in Nat

VARIABLES
  session, refreshToken,   \* the committed rows of the two tables
  txn,                     \* what each transaction is at, and has changed
  used,                    \* history: the tokens each session was handed
  ends                     \* how many logouts and purges have begun

tables == <<session, refreshToken, used>>
vars == <<tables, txn, ends>>

-----------------------------------------------------------------------------
Row == Sids \cup Jtis
Idle == [at |-> "idle"]

\* at names the statement that is running.  want: the rows it has still to
\* lock; gone: the rows the transaction has deleted; seen: the sessions there
\* were when it began (history).
RotatePoints == {"rotate.delete", "rotate.create", "rotate.commit"}
EndPoints == {"tokens", "sessions", "cascade"}
Txn == {Idle}
       \cup [at: {"login.commit"}, sid: Sids, jti: Jtis]
       \cup [at: RotatePoints, old: Jtis, sid: Sids, jti: Jtis]
       \cup [at: EndPoints, want: SUBSET Row, gone: SUBSET Row, seen: SUBSET Sids]

\* Committed rows and running statements are of the tables' and code's types.
TxnTypeOK ==
  /\ session \subseteq Sids
  /\ refreshToken \subseteq [jti: Jtis, sid: Sids]
  /\ txn \in [Txns -> Txn]
  /\ used \in [Sids -> SUBSET Jtis]
  /\ ends \in Nat

Exists(row) == row \in session \/ \E t \in refreshToken : t.jti = row

\* Mutant: the session is locked against the others before its token is deleted.
LockedForUpdateEarly(t) ==
  IF txn[t].at \in EndPoints THEN txn[t].gone
  ELSE IF txn[t].at \in RotatePoints
       THEN {txn[t].sid} \cup (IF txn[t].at = "rotate.delete" THEN {} ELSE {txn[t].old})
       ELSE {}

\* FOR UPDATE, by the deletes; FOR KEY SHARE and FOR NO KEY UPDATE, by the
\* foreign key of an inserted token and the update of its session.
LockedForUpdate(t) ==
  IF txn[t].at \in EndPoints THEN txn[t].gone
  ELSE IF txn[t].at \in RotatePoints \ {"rotate.delete"} THEN {txn[t].old} ELSE {}
LockedShared(t) ==
  IF txn[t].at = "rotate.commit" THEN {txn[t].sid} ELSE {}

Deleters(t, row) ==
  {u \in Txns \ {t} : row \in LockedForUpdate(u) \cup LockedShared(u)}
Sharers(t, row) == {u \in Txns \ {t} : row \in LockedForUpdate(u)}

Await(t, state) == txn' = [txn EXCEPT ![t] = state]
Finish(t) == Await(t, Idle)
Rollback(t) == Finish(t) /\ UNCHANGED <<tables, ends>>

-----------------------------------------------------------------------------
(* Sign-in and rotation.                                                   *)

FreshJtis == {j \in Jtis : /\ \A s \in Sids : j \notin used[s]
                           /\ \A t \in Txns :
                                txn[t].at \in RotatePoints \cup {"login.commit"}
                                  => txn[t].jti # j}
FreshSids == {s \in Sids : /\ used[s] = {}
                           /\ \A t \in Txns : txn[t].at = "login.commit"
                                                => txn[t].sid # s}
\* New ids are as good as one another.
Some(ids) == CHOOSE id \in ids : TRUE

\* The rows that login inserts are nobody else's to see until it commits, and
\* whoever holds the User row it updates last waits for none of them: its
\* statements cannot be part of a deadlock.
LoginBegin(t) ==
  /\ txn[t] = Idle
  /\ FreshSids # {} /\ FreshJtis # {}
  /\ Await(t, [at |-> "login.commit", sid |-> Some(FreshSids), jti |-> Some(FreshJtis)])
  /\ UNCHANGED <<tables, ends>>

LoginCommit(t) ==
  /\ txn[t].at = "login.commit"
  /\ LET q == txn[t] IN
     /\ session' = session \cup {q.sid}
     /\ refreshToken' = refreshToken \cup {[jti |-> q.jti, sid |-> q.sid]}
     /\ used' = [used EXCEPT ![q.sid] = @ \cup {q.jti}]
  /\ Finish(t)
  /\ UNCHANGED ends

\* The handler has found the row of the token it was given ...
RotateBegin(t) ==
  /\ txn[t] = Idle
  /\ FreshJtis # {}
  /\ \E x \in refreshToken :
       Await(t, [at |-> "rotate.delete", old |-> x.jti, sid |-> x.sid,
                 jti |-> Some(FreshJtis)])
  /\ UNCHANGED <<tables, ends>>

\* A token without a row is refused.
RotateRefuse(t) ==
  /\ txn[t] = Idle
  /\ \E s \in Sids : \E j \in used[s] : ~Exists(j)
  /\ UNCHANGED vars

\* Mutant: a delete that waited does not look again whether its row is there.
StillThereAlways(row) == TRUE
StillThere(row) == Exists(row)

\* ... and deletes it by tokenHash: it waits for whoever holds the row, and
\* P2025 rolls it back if the row is gone then.
RotateDelete(t) ==
  /\ txn[t].at = "rotate.delete"
  /\ Deleters(t, txn[t].old) = {}
  /\ IF StillThere(txn[t].old)
     THEN Await(t, [txn[t] EXCEPT !.at = "rotate.create"])
     ELSE Finish(t)
  /\ UNCHANGED <<tables, ends>>

\* Mutant: the new token is lost on the way to its insert.
RotateCreateNothing(t) ==
  /\ txn[t].at = "rotate.create"
  /\ Await(t, [at |-> "rotate.commit", old |-> txn[t].old, sid |-> txn[t].sid])
  /\ UNCHANGED <<tables, ends>>

\* The insert checks its foreign key: it waits for whoever deletes the session,
\* and a session that is gone rolls it back.
RotateCreate(t) ==
  /\ txn[t].at = "rotate.create"
  /\ Sharers(t, txn[t].sid) = {}
  /\ IF Exists(txn[t].sid)
     THEN Await(t, [txn[t] EXCEPT !.at = "rotate.commit"])
     ELSE Finish(t)
  /\ UNCHANGED <<tables, ends>>

\* The update of lastUsedAt has its row, which the foreign key has locked, and
\* only a rotation of the same token could be updating it: it does not wait.
RotateCommit(t) ==
  /\ txn[t].at = "rotate.commit"
  /\ LET q == txn[t] IN
     /\ refreshToken' = {x \in refreshToken : x.jti # q.old}
                          \cup {[jti |-> q.jti, sid |-> q.sid]}
     /\ used' = [used EXCEPT ![q.sid] = @ \cup {q.jti}]
  /\ Finish(t)
  /\ UNCHANGED <<session, ends>>

-----------------------------------------------------------------------------
(* Logout and purge: refreshToken.deleteMany, then session.deleteMany.     *)

Visible == {x.jti : x \in refreshToken}

End(t, rows) ==
  /\ txn[t] = Idle /\ ends < MaxEnds
  /\ Await(t, [at |-> "tokens", want |-> rows, gone |-> {}, seen |-> session])
  /\ ends' = ends + 1
  /\ UNCHANGED tables

\* logout deletes the row of the token it was given, if there is one ...
LogoutBegin(t) == \E s \in Sids : \E j \in used[s] : End(t, {j} \cap Visible)

\* ... a purge all rows of the user.
PurgeBegin(t) == End(t, Visible)

\* A deleteMany locks and deletes its rows in the order of some scan.
DeleteRow(t, row) ==
  /\ txn[t].at \in EndPoints /\ row \in txn[t].want
  /\ Deleters(t, row) = {}
  /\ Await(t, [txn[t] EXCEPT !.want = @ \ {row},
                             !.gone = IF StillThere(row) THEN @ \cup {row} ELSE @])
  /\ UNCHANGED <<tables, ends>>

\* Mutant: the sessions of the tokens that the first statement deleted.
DeleteTheirSessions(t) ==
  /\ txn[t].at = "tokens" /\ txn[t].want = {}
  /\ Await(t, [txn[t] EXCEPT !.at = "sessions",
       !.want = {x.sid : x \in {y \in refreshToken : y.jti \in txn[t].gone}}])
  /\ UNCHANGED <<tables, ends>>

\* All sessions of the user, as they are when this statement starts.
DeleteSessions(t) ==
  /\ txn[t].at = "tokens" /\ txn[t].want = {}
  /\ Await(t, [txn[t] EXCEPT !.at = "sessions", !.want = session])
  /\ UNCHANGED <<tables, ends>>

\* Mutant: no onDelete: Cascade.
OrphansNone(t) == {}
\* The tokens of the deleted sessions, among them any that a rotation has
\* committed since the first statement.
Orphans(t) == {x.jti : x \in {y \in refreshToken : y.sid \in txn[t].gone}}

CascadeSessions(t) ==
  /\ txn[t].at = "sessions" /\ txn[t].want = {}
  /\ Await(t, [txn[t] EXCEPT !.at = "cascade", !.want = Orphans(t) \ txn[t].gone])
  /\ UNCHANGED <<tables, ends>>

EndCommit(t) ==
  /\ txn[t].at = "cascade" /\ txn[t].want = {}
  /\ session' = session \ txn[t].gone
  /\ refreshToken' = {x \in refreshToken : x.jti \notin txn[t].gone}
  /\ Finish(t)
  /\ UNCHANGED <<used, ends>>

-----------------------------------------------------------------------------
(* Waiting for one another.                                                *)

\* Those a transaction waits for, when it cannot go on.
WaitsFor(t) ==
  CASE txn[t].at = "rotate.delete" -> Deleters(t, txn[t].old)
    [] txn[t].at = "rotate.create" -> Sharers(t, txn[t].sid)
    [] /\ txn[t].at \in EndPoints /\ txn[t].want # {}
       /\ \A row \in txn[t].want : Deleters(t, row) # {}
         -> UNION {Deleters(t, row) : row \in txn[t].want}
    [] OTHER -> {}

\* t waits, directly or through others, for itself.
InDeadlock(t) ==
  \A S \in SUBSET Txns :
    (\A u \in S \cup {t} : WaitsFor(u) \subseteq S) => t \in S

\* Mutant: the statement that cannot go on is tried again.
TryAgain(t) == InDeadlock(t) /\ UNCHANGED vars

\* PostgreSQL gives up one of them.  The rotation is answered 500; the catch
\* of logout takes the error for an expired token, and the answer is 200.
GiveUp(t) == InDeadlock(t) /\ Rollback(t)

Step(t) == \/ LoginCommit(t)
           \/ RotateDelete(t) \/ RotateCreate(t) \/ RotateCommit(t)
           \/ \E row \in Row : DeleteRow(t, row)
           \/ DeleteSessions(t) \/ CascadeSessions(t) \/ EndCommit(t)
           \/ GiveUp(t)

Begin(t) == LoginBegin(t) \/ RotateBegin(t) \/ RotateRefuse(t) \/ LogoutBegin(t) \/ PurgeBegin(t)

Init == /\ session = {} /\ refreshToken = {}
        /\ txn = [t \in Txns |-> Idle]
        /\ used = [s \in Sids |-> {}]
        /\ ends = 0

Next == \E t \in Txns : Begin(t) \/ Step(t)

Spec == Init /\ [][Next]_vars

\* PostgreSQL runs the statements it is sent, Node sends the next, and the
\* deadlock detector runs once a transaction has waited deadlock_timeout.
FairSpec == Spec /\ \A t \in Txns : WF_vars(Step(t))

-----------------------------------------------------------------------------
(* Properties.                                                             *)

\* Whatever the statements of sign-ins, rotations and purges see of each
\* other, what commits keeps the tables in step: each session has one token
\* and no token is left without its session.
TablesInStep ==
  /\ \A x \in refreshToken : x.sid \in session
  /\ \A s \in session : \E x \in refreshToken : x.sid = s
  /\ \A x, y \in refreshToken : x.sid = y.sid \/ x.jti = y.jti => x = y

LiveToken(s) == IF \E x \in refreshToken : x.sid = s
                THEN (CHOOSE x \in refreshToken : x.sid = s).jti ELSE NoJti

\* The committed results are those of a serial order of the atomic rotations,
\* sign-ins and purges of the token family: no token is exchanged twice and
\* none comes back.
Family == INSTANCE RefreshFamily WITH live <- [s \in Sids |-> LiveToken(s)]
CommitsAsFamily == Family!Spec

\* A logout or a purge that commits has ended every session there was when it
\* began, with every token, also one that a rotation put in the place of a
\* token the first statement had seen.
PurgeIsComplete ==
  [][\A t \in Txns :
       txn[t].at = "cascade" /\ txn[t].want = {} /\ txn'[t] = Idle =>
         /\ txn[t].seen \cap session' = {}
         /\ \A x \in refreshToken' : x.sid \notin txn[t].seen]_vars

\* Sign-ins and rotations alone never deadlock, however many present one token:
\* whoever waits for himself waits for a logout or a purge that does so too.
DeadlockNeedsEnd ==
  \A t \in Txns : InDeadlock(t) =>
    \E u \in Txns : txn[u].at \in EndPoints /\ InDeadlock(u)

\* Every transaction ends, also those that wait for one another.
TxnsEnd == \A t \in Txns : txn[t] # Idle ~> txn[t] = Idle
=============================================================================
