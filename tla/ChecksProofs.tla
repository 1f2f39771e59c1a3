---------------------------- MODULE ChecksProofs ----------------------------
(***************************************************************************)
(* What may be concluded from the verdict of a list of checks, for every   *)
(* list.  The modules that prove something about a validator cite these    *)
(* lemmas; the least failing index is the least element that NatLessThan   *)
(* being well-founded provides, so nothing here needs induction.           *)
(***************************************************************************)
EXTENDS Checks, WellFoundedInduction, TLAPS

\* Every nonempty set of naturals has a least element, and it is Min.
LEMMA MinIsLeast ==
    ASSUME NEW S, S \subseteq Nat, S # {}
    PROVE  Min(S) \in S /\ \A n \in S : Min(S) <= n
<1>1. PICK m \in S : \A n \in S : ~(<<n, m>> \in OpToRel(<, Nat))
  BY NatLessThanWellFounded, WFMin
<1>2. \A n \in S : m <= n
  <2> SUFFICES ASSUME NEW n \in S PROVE m <= n OBVIOUS
  <2>1. m \in Nat /\ n \in Nat BY <1>1
  <2>2. ~(n < m) BY <1>1, <2>1 DEF OpToRel
  <2> QED BY <2>1, <2>2
<1> QED BY <1>1, <1>2 DEF Min

\* A verdict "OK" says that no check failed, when no check fails with "OK".
LEMMA NothingFailed ==
    ASSUME NEW checks, DOMAIN checks \subseteq Nat,
           \A i \in DOMAIN checks : checks[i][1] => checks[i][2] # "OK",
           FirstFailure(checks) = "OK"
    PROVE  \A i \in DOMAIN checks : ~checks[i][1]
<1> DEFINE failing == {i \in DOMAIN checks : checks[i][1]}
<1>1. ASSUME failing # {} PROVE FALSE
  <2>1. Min(failing) \in failing BY <1>1, MinIsLeast
  <2> QED BY <1>1, <2>1 DEF FirstFailure
<1> QED BY <1>1

\* The other way round: if no check failed the verdict is "OK".
LEMMA AllPassed ==
    ASSUME NEW checks, \A i \in DOMAIN checks : ~checks[i][1]
    PROVE  FirstFailure(checks) = "OK"
  BY DEF FirstFailure

=============================================================================
