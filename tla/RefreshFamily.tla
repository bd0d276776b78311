--------------------------- MODULE RefreshFamily ---------------------------
(***************************************************************************)
(* What refresh-token rotation promises, apart from tables and requests.   *)
(* A session has at most one live token.  Rotating replaces the live token *)
(* by one that was never used before; ending a session retires its token;  *)
(* a retired token is never live again and an ended session never reopens, *)
(* so two copies of one token cannot both be exchanged.                    *)
(***************************************************************************)
CONSTANTS Sids, Jtis, NoJti

VARIABLES used,   \* the tokens each session has ever had
          live    \* the one it has now, or NoJti

Everywhere == UNION {used[s] : s \in Sids}

Init == /\ used = [s \in Sids |-> {}]
        /\ live = [s \in Sids |-> NoJti]

Adopt(s, j) == /\ j \notin Everywhere
               /\ used' = [used EXCEPT ![s] = @ \cup {j}]
               /\ live' = [live EXCEPT ![s] = j]

Open(s, j) == used[s] = {} /\ Adopt(s, j)

Rotate(s, j) == live[s] # NoJti /\ Adopt(s, j)

\* Logout and the purges end all the sessions of a user at once.
End(S) == /\ live' = [s \in Sids |-> IF s \in S THEN NoJti ELSE live[s]]
          /\ UNCHANGED used

Next == \/ \E s \in Sids, j \in Jtis : Open(s, j) \/ Rotate(s, j)
        \/ \E S \in SUBSET Sids : End(S)

Spec == Init /\ [][Next]_<<used, live>>

-----------------------------------------------------------------------------
(* What follows from it.                                                   *)

\* A live token is one its session was given, and no two sessions share one.
LiveIsUsed ==
  /\ \A s \in Sids : live[s] # NoJti => live[s] \in used[s]
  /\ \A r, s \in Sids : r # s => used[r] \cap used[s] = {}

\* One step brings back no token that is live nowhere, and opens no session that
\* has ended.
KeepsRetired ==
  /\ \A j \in Everywhere :
       (\A s \in Sids : live[s] # j) => \A s \in Sids : live'[s] # j
  /\ \A s \in Sids : used[s] # {} /\ live[s] = NoJti => live'[s] = NoJti

\* A token that has been replaced or revoked is never live again, in whatever
\* session, and a session that has ended has no live token ever again.
RetiredForGood == [][KeepsRetired]_<<used, live>>
=============================================================================
