------------------------ MODULE RefreshFamily_proofs ------------------------
(***************************************************************************)
(* Theorems about RefreshFamily, for every supply of sessions and tokens:  *)
(* what any system that implements it promises.                            *)
(***************************************************************************)
EXTENDS RefreshFamily, TLAPS

FamilyTypeOK ==
  /\ used \in [Sids -> SUBSET Jtis]
  /\ live \in [Sids -> Jtis \cup {NoJti}]

FamilyInv == FamilyTypeOK /\ LiveIsUsed

\* A step in terms of what it does to each session.
LEMMA AdoptIs ==
  ASSUME FamilyTypeOK, NEW s \in Sids, NEW j \in Jtis, Adopt(s, j)
  PROVE  /\ used'[s] = used[s] \cup {j} /\ live'[s] = j
         /\ \A r \in Sids \ {s} : used'[r] = used[r] /\ live'[r] = live[r]
         /\ \A r \in Sids : j \notin used[r]
BY DEF FamilyTypeOK, Adopt, Everywhere

LEMMA StepFamilyInv ==
  ASSUME FamilyInv, [Next]_<<used, live>>
  PROVE  FamilyInv'
<1>1. ASSUME NEW s \in Sids, NEW j \in Jtis, Adopt(s, j)
      PROVE  FamilyInv'
  <2>1. FamilyTypeOK'  BY <1>1 DEF FamilyInv, FamilyTypeOK, Adopt
  <2>2. LiveIsUsed'  BY <1>1, AdoptIs DEF FamilyInv, LiveIsUsed
  <2> QED  BY <2>1, <2>2 DEF FamilyInv
<1>2. ASSUME NEW S \in SUBSET Sids, End(S)
      PROVE  FamilyInv'
  BY <1>2 DEF FamilyInv, FamilyTypeOK, LiveIsUsed, End
<1>3. CASE UNCHANGED <<used, live>>
  BY <1>3 DEF FamilyInv, FamilyTypeOK, LiveIsUsed
<1> QED  BY <1>1, <1>2, <1>3 DEF Next, Open, Rotate

\* Live tokens are tokens of their session, and of no other.
THEOREM FamilyHolds == Spec => []LiveIsUsed
<1>1. Init => FamilyInv  BY DEF Init, FamilyInv, FamilyTypeOK, LiveIsUsed
<1>2. FamilyInv /\ [Next]_<<used, live>> => FamilyInv'  BY StepFamilyInv
<1>3. FamilyInv => LiveIsUsed  BY DEF FamilyInv
<1> QED  BY <1>1, <1>2, <1>3, PTL DEF Spec

\* Nothing that has been replaced, revoked or ended comes back: of two copies of
\* a token the second is worth nothing once the first has been exchanged.
THEOREM FamilyRetires ==
  ASSUME NoJti \notin Jtis
  PROVE  Spec => RetiredForGood
<1>1. Init => FamilyInv  BY DEF Init, FamilyInv, FamilyTypeOK, LiveIsUsed
<1>2. FamilyInv /\ [Next]_<<used, live>> => FamilyInv'  BY StepFamilyInv
<1>3. ASSUME FamilyInv, [Next]_<<used, live>>
      PROVE  KeepsRetired
  <2>1. Everywhere \subseteq Jtis /\ NoJti \notin Everywhere
    BY <1>3 DEF FamilyInv, FamilyTypeOK, Everywhere
  <2>2. ASSUME NEW s \in Sids, NEW j \in Jtis, Adopt(s, j),
               used[s] = {} \/ live[s] # NoJti
        PROVE  KeepsRetired
    <3>1. j \notin Everywhere  BY <2>2 DEF Adopt
    <3>2. /\ live'[s] = j
          /\ \A r \in Sids \ {s} : used'[r] = used[r] /\ live'[r] = live[r]
      BY <1>3, <2>2, AdoptIs DEF FamilyInv
    <3> QED  BY <2>2, <3>1, <3>2 DEF KeepsRetired
  <2>3. ASSUME NEW S \in SUBSET Sids, End(S)
        PROVE  KeepsRetired
    BY <2>1, <2>3 DEF End, KeepsRetired
  <2>4. CASE UNCHANGED <<used, live>>  BY <2>4 DEF KeepsRetired, Everywhere
  <2> QED  BY <1>3, <2>2, <2>3, <2>4 DEF Next, Open, Rotate
<1>4. FamilyInv /\ [Next]_<<used, live>> => [KeepsRetired]_<<used, live>>  BY <1>3
<1> QED  BY <1>1, <1>2, <1>4, PTL DEF Spec, RetiredForGood
=============================================================================
