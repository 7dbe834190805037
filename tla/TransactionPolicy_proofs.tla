---------------------- MODULE TransactionPolicy_proofs ----------------------
(***************************************************************************)
(* What the policy operators return, for the proofs of their users.        *)
(***************************************************************************)
EXTENDS TransactionPolicy, TLAPS

\* FindEffectivePolicy returns an attribute or null, and the most specific
\* scope that has one decides.
LEMMA EffectivePolicyType ==
  ASSUME NEW a \in Actions
  PROVE  EffectivePolicy(a) \in Attributes \cup {NoAttribute}
<1> DEFINE marked == {s \in Scopes : Filters[a][s] # NoAttribute}
<1>1. Filters[a] \in [Scopes -> Attributes \cup {NoAttribute}]
  BY PolicyAssumption
<1>2. CASE marked = {}
  BY <1>2 DEF EffectivePolicy
<1>3. CASE marked # {}
  <2>1. marked \subseteq {1, 2, 3}
    BY DEF Scopes
  <2>2. \E s \in marked : \A t \in marked : t <= s
    <3>1. CASE 3 \in marked
      BY <2>1, <3>1
    <3>2. CASE 3 \notin marked /\ 2 \in marked
      BY <2>1, <3>2
    <3>3. CASE 3 \notin marked /\ 2 \notin marked
      BY <2>1, <3>3, <1>3
    <3> QED BY <3>1, <3>2, <3>3
  <2>3. (CHOOSE s \in marked : \A t \in marked : t <= s) \in marked
    BY <2>2
  <2> QED BY <2>3, <1>1, <1>3 DEF EffectivePolicy, Scopes
<1> QED BY <1>2, <1>3

=============================================================================
