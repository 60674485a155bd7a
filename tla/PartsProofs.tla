------------------------------ MODULE PartsProofs ------------------------------
(***************************************************************************)
(* Proofs about the parts of Parts, for all values of the constants.       *)
(*                                                                         *)
(* Of each part a lemma says that its variables follow its own next-state  *)
(* relation.  The theorems about a part that has a module of proofs are    *)
(* taken from there; the limiters, the restart gate, the panel's update of *)
(* itself and the page of firewall rules are proved about here.            *)
(***************************************************************************)
EXTENDS Parts, FiniteSetTheorems, SequenceTheorems, WellFoundedInduction, TLAPS

-----------------------------------------------------------------------------
(* The parts with proofs of their own                                      *)
LEMMA ApplyRuns == PartsSpec => Manager!Init /\ [][Manager!Next]_Manager!vars
<1>1. PartsInit => Manager!Init
  BY DEF PartsInit
<1>2. [PartsNext]_partsVars => [Manager!Next]_Manager!vars
  BY DEF PartsNext, partsVars, applyVars, Manager!vars, GateMoves, ApplyMoves,
         PolicyMoves, FirewallMoves, CoreMoves, PanelMoves, LoginMoves,
         EditorMoves, PageMoves
<1>3. QED
  BY <1>1, <1>2, PTL DEF PartsSpec

LEMMA PolicyRuns == PartsSpec => Policy!Init /\ [][Policy!Next]_Policy!vars
<1>1. PartsInit => Policy!Init
  BY DEF PartsInit
<1>2. [PartsNext]_partsVars => [Policy!Next]_Policy!vars
  BY DEF PartsNext, partsVars, policyVars, Policy!vars, GateMoves, ApplyMoves,
         PolicyMoves, FirewallMoves, CoreMoves, PanelMoves, LoginMoves,
         EditorMoves, PageMoves
<1>3. QED
  BY <1>1, <1>2, PTL DEF PartsSpec

LEMMA FirewallRuns == PartsSpec => Firewall!Init /\ [][Firewall!Next]_Firewall!vars
<1>1. PartsInit => Firewall!Init
  BY DEF PartsInit
<1>2. [PartsNext]_partsVars => [Firewall!Next]_Firewall!vars
  BY DEF PartsNext, partsVars, firewallVars, Firewall!vars, GateMoves, ApplyMoves,
         PolicyMoves, FirewallMoves, CoreMoves, PanelMoves, LoginMoves,
         EditorMoves, PageMoves
<1>3. QED
  BY <1>1, <1>2, PTL DEF PartsSpec

LEMMA CoreRuns == PartsSpec => Updater!Init /\ [][Updater!Next]_Updater!vars
<1>1. PartsInit => Updater!Init
  BY DEF PartsInit
<1>2. [PartsNext]_partsVars => [Updater!Next]_Updater!vars
  BY DEF PartsNext, partsVars, coreVars, Updater!vars, GateMoves, ApplyMoves,
         PolicyMoves, FirewallMoves, CoreMoves, PanelMoves, LoginMoves,
         EditorMoves, PageMoves
<1>3. QED
  BY <1>1, <1>2, PTL DEF PartsSpec

LEMMA EditorRuns == PartsSpec => Editor!Init /\ [][Editor!Next]_Editor!vars
<1>1. PartsInit => Editor!Init
  BY DEF PartsInit
<1>2. [PartsNext]_partsVars => [Editor!Next]_Editor!vars
  BY DEF PartsNext, partsVars, editorVars, Editor!vars, GateMoves, ApplyMoves,
         PolicyMoves, FirewallMoves, CoreMoves, PanelMoves, LoginMoves,
         EditorMoves, PageMoves
<1>3. QED
  BY <1>1, <1>2, PTL DEF PartsSpec

(* The manager keeps the promise its callers rely on (XrayApplyProofs).    *)
THEOREM Implements == PartsSpec => ImplementsConfigApply
<1>1. Manager!OneProcess
  BY DEF Manager!OneProcess
<1>2. QED
  BY <1>1, ManagerAssumption, ApplyRuns, Manager!Implements, PTL DEF Manager!Spec,
     ImplementsConfigApply

(* No byte is charged twice (AccountPolicyProofs).                         *)
THEOREM SingleCharge == PartsSpec => []ChargedOnce
<1>1. Policy!IInv => ChargedOnce
  BY DEF ChargedOnce, Policy!IInv
<1>2. QED
  BY PolicyAssumption, PolicyRuns, Policy!Inductive, <1>1, PTL

(* Every rule that an unconfirmed change switched has a timer that will    *)
(* switch it back (FirewallRecoveryProofs).                                *)
THEOREM AlwaysCovered == PartsSpec => []AlwaysGuarded
<1>1. Firewall!IInv => AlwaysGuarded
  BY DEF AlwaysGuarded, Firewall!IInv
<1>2. QED
  BY FirewallAssumption, FirewallRuns, Firewall!Inductive, <1>1, PTL

(* The core that a call found is there under one of the three names        *)
(* (CoreUpdateProofs).                                                     *)
THEOREM CoreSurvives == PartsSpec => []Survives
<1>1. Updater!Survives => Survives
  BY DEF Survives
<1>2. QED
  BY UpdaterAssumption, CoreRuns, Updater!CoreSurvives, <1>1, PTL DEF Updater!Spec

(* The marker of the geodata tells the truth (CoreUpdateProofs).           *)
THEOREM MarkerTrue == PartsSpec => []GeoTrue
<1>1. Updater!GeoTrue => GeoTrue
  BY DEF GeoTrue
<1>2. QED
  BY UpdaterAssumption, CoreRuns, Updater!MarkerTrue, <1>1, PTL DEF Updater!Spec

(* A call that reports a rollback, and whose undoing met no error, left    *)
(* all as it had found it (CoreUpdateProofs).                              *)
THEOREM LeftAsFound == PartsSpec => []AsFound
<1>1. Updater!AsFound => AsFound
  BY DEF AsFound
<1>2. QED
  BY UpdaterAssumption, CoreRuns, Updater!LeftAsFound, <1>1, PTL DEF Updater!Spec

(* Saving the expert form as it is shown changes nothing that Xray sees,   *)
(* for any document that the form can show, with settings of RAW in one    *)
(* spelling (AccountEditorProofs).                                         *)
THEOREM ExpertKept == PartsSpec => []ExpertFaithful
<1>1. Editor!ExpertFaithful => ExpertFaithful
  BY DEF ExpertFaithful
<1>2. QED
  BY EditorAssumption, EditorRuns, Editor!ExpertAlways, <1>1, PTL DEF Editor!Spec

(* Nor does saving the advanced form, unless an idle transport has kept a  *)
(* PROXY protocol setting or the header would move to another spelling of  *)
(* RAW (AccountEditorProofs).                                              *)
THEOREM AdvancedKept == PartsSpec => []AdvancedFaithful
<1>1. Editor!AdvancedFaithful => AdvancedFaithful
  BY DEF AdvancedFaithful
<1>2. QED
  BY EditorAssumption, EditorRuns, Editor!AdvancedAlways, <1>1, PTL DEF Editor!Spec

(* Nor does saving the ordinary form, for a document in the spellings and  *)
(* with the single names and ids that it writes (AccountEditorProofs).     *)
THEOREM OrdinaryKept == PartsSpec => []OrdinaryFaithful
<1>1. Editor!OrdinaryFaithful => OrdinaryFaithful
  BY DEF OrdinaryFaithful
<1>2. QED
  BY EditorRuns, Editor!OrdinaryAlways, <1>1, PTL DEF Editor!Spec

(* The ordinary form shows afterwards what it was sent; a value of the     *)
(* transport that came empty is cleared, one of the security kept          *)
(* (AccountEditorProofs).                                                  *)
THEOREM SentIsShown == PartsSpec => []ShownAsSent
<1>1. Editor!ShownAsSent => ShownAsSent
  BY DEF ShownAsSent
<1>2. QED
  BY EditorAssumption, EditorRuns, Editor!SentIsShown, <1>1, PTL DEF Editor!Spec

(* No form takes an account out of the reach of the ordinary editor        *)
(* (AccountEditorProofs).                                                  *)
THEOREM NeverOutOfReach == PartsSpec => StaysEditable
  BY EditorRuns, Editor!NeverOutOfReach, PTL DEF Editor!Spec, StaysEditable

-----------------------------------------------------------------------------
(* The login limiters                                                      *)
LEMMA LoginRuns == PartsSpec => Init /\ [][Next]_vars
<1>1. PartsInit => Init
  BY DEF PartsInit
<1>2. [PartsNext]_partsVars => [Next]_vars
  BY DEF PartsNext, partsVars, vars, GateMoves, ApplyMoves,
         PolicyMoves, FirewallMoves, CoreMoves, PanelMoves, LoginMoves,
         EditorMoves, PageMoves
<1>3. QED
  BY <1>1, <1>2, PTL DEF PartsSpec

LoginTypeOK ==
  /\ tries \in Limiters(Keys, Window) /\ ips \in Limiters(Addresses, IpWindow)
  /\ at \in [Logins -> {"out", "compare", "wrong"}]
  /\ who \in [Logins -> Keys]

Fits(lim) == IsFiniteSet(DOMAIN lim.entries) /\ Cardinality(DOMAIN lim.entries) <= Capacity

(* The admitted logins that have not told the limiters yet.                *)
Comparing(k) == {l \in Logins : at[l] = "compare" /\ who[l] = k}
Pending(a) == {l \in Logins : at[l] # "out" /\ who[l][1] = a}
Accounted ==
  /\ \A k \in DOMAIN tries.entries :
       tries.entries[k].count + Cardinality(Comparing(k)) < Max + Cardinality(Logins)
  /\ \A a \in DOMAIN ips.entries :
       ips.entries[a].count + Cardinality(Pending(a)) < IpMax + Cardinality(Logins)

LoginInv == LoginTypeOK /\ Fits(tries) /\ Fits(ips) /\ Accounted

(* The operators of a limiter.                                             *)

LEMMA Opened ==
  ASSUME NEW K, NEW w, NEW lim \in Limiters(K, w)
  PROVE  /\ lim = [entries |-> lim.entries, swept |-> lim.swept]
         /\ lim.swept \in 0..Interval
         /\ DOMAIN lim.entries \subseteq K
         /\ lim.entries \in [DOMAIN lim.entries -> Attempts(w)]
<1>1. PICK S \in SUBSET K : lim.entries \in [S -> Attempts(w)]
  BY DEF Limiters
<1>2. QED
  BY <1>1 DEF Limiters

LEMMA Closed ==
  ASSUME NEW K, NEW w, NEW S \in SUBSET K, NEW e \in [S -> Attempts(w)], NEW s \in 0..Interval
  PROVE  [entries |-> e, swept |-> s] \in Limiters(K, w)
  BY DEF Limiters

(* What is left when entries go: those that still count stay as they are.  *)
Left(c, lim, K, w) ==
  /\ c \in Limiters(K, w)
  /\ DOMAIN c.entries \subseteq DOMAIN lim.entries
  /\ \A k \in DOMAIN c.entries : c.entries[k] = lim.entries[k]
Keeps(c, lim, w) == \A k \in DOMAIN lim.entries : lim.entries[k].age < w =>
   k \in DOMAIN c.entries

LEMMA Part ==
  ASSUME NEW K, NEW w, NEW lim \in Limiters(K, w), NEW S \in SUBSET DOMAIN lim.entries,
         NEW s \in 0..Interval, NEW c, c = [entries |-> Restrict(lim.entries, S), swept |-> s]
  PROVE  Left(c, lim, K, w) /\ DOMAIN c.entries = S
<1> DEFINE e == Restrict(lim.entries, S)
<1>1. e \in [S -> Attempts(w)] /\ (\A k \in S : e[k] = lim.entries[k]) /\ S \in SUBSET K
  BY Opened DEF Restrict
<1> HIDE DEF e
<1>2. [entries |-> e, swept |-> s] \in Limiters(K, w)
  BY <1>1, Closed
<1>3. QED
  BY <1>1, <1>2 DEF Left, e

LEMMA Sweeps ==
  ASSUME NEW K, NEW w, NEW lim \in Limiters(K, w)
  PROVE  Left(Swept(lim, w), lim, K, w) /\ Keeps(Swept(lim, w), lim, w)
<1> DEFINE S == {k \in DOMAIN lim.entries : lim.entries[k].age < w}
<1>1. 0 \in 0..Interval
  BY DEF Interval
<1>2. Swept(lim, w) = [entries |-> Restrict(lim.entries, S), swept |-> 0]
      /\ S \in SUBSET DOMAIN lim.entries
  BY DEF Swept
<1>3. Left(Swept(lim, w), lim, K, w) /\ DOMAIN Swept(lim, w).entries = S
  BY <1>1, <1>2, Part
<1>4. QED
  BY <1>3 DEF Keeps

LEMMA Cleans ==
  ASSUME NEW K, NEW w, NEW lim \in Limiters(K, w)
  PROVE  Left(Cleaned(lim, w), lim, K, w) /\ Keeps(Cleaned(lim, w), lim, w)
  BY Sweeps DEF Cleaned, Left, Keeps

LEMMA Allows ==
  ASSUME NEW K, NEW w, NEW lim \in Limiters(K, w), NEW k
  PROVE  /\ Left(AfterAllowed(lim, k, w), lim, K, w)
         /\ Keeps(AfterAllowed(lim, k, w), lim, w)
         /\ k \in DOMAIN AfterAllowed(lim, k, w).entries => Counts(lim, k, w)
<1> DEFINE c == Cleaned(lim, w)
<1>1. Left(c, lim, K, w) /\ Keeps(c, lim, w)
  BY Cleans
<1>2. CASE k \in DOMAIN c.entries /\ ~Counts(c, k, w)
  <2> DEFINE S == DOMAIN c.entries \ {k}
             d == [c EXCEPT !.entries = Restrict(c.entries, S)]
  <2>1. AfterAllowed(lim, k, w) = d
    BY <1>2 DEF AfterAllowed
  <2>2. c \in Limiters(K, w)
    BY <1>1 DEF Left
  <2>3. c = [entries |-> c.entries, swept |-> c.swept] /\ c.swept \in 0..Interval
    BY <2>2, Opened
  <2>4. d = [entries |-> Restrict(c.entries, S), swept |-> c.swept]
        /\ S \in SUBSET DOMAIN c.entries
    BY <2>3
  <2> HIDE DEF c, d
  <2> HIDE DEF S
  <2>5. Left(d, c, K, w) /\ DOMAIN d.entries = S
    BY <2>2, <2>3, <2>4, Part
  <2>6. QED
    BY <1>1, <1>2, <2>1, <2>5 DEF Left, Keeps, Counts, S
<1>3. CASE ~(k \in DOMAIN c.entries /\ ~Counts(c, k, w))
  BY <1>1, <1>3 DEF AfterAllowed, Counts, Left
<1>4. QED
  BY <1>2, <1>3

LEMMA Fewer ==
  ASSUME NEW K, NEW w, NEW lim, NEW c, Left(c, lim, K, w), Fits(lim)
  PROVE  Fits(c) /\ Cardinality(DOMAIN c.entries) <= Cardinality(DOMAIN lim.entries)
<1>1. DOMAIN c.entries \subseteq DOMAIN lim.entries
  BY DEF Left
<1>2. /\ IsFiniteSet(DOMAIN c.entries)
      /\ Cardinality(DOMAIN c.entries) <= Cardinality(DOMAIN lim.entries)
  BY <1>1, FS_Subset DEF Fits
<1>3. Cardinality(DOMAIN c.entries) \in Nat /\ Cardinality(DOMAIN lim.entries) \in Nat
  BY <1>2, FS_CardinalityType DEF Fits
<1>4. QED
  BY <1>2, <1>3, LoginAssumption DEF Fits

LEMMA MakesRoom ==
  ASSUME NEW K, NEW w, NEW lim \in Limiters(K, w), Fits(lim), NEW k,
     NEW r \in Roomy(lim, k, w)
  PROVE  /\ Left(r, lim, K, w)
         /\ k \in DOMAIN r.entries \/ Cardinality(DOMAIN r.entries) < Capacity
         /\ Keeps(r, lim, w) \/ Cardinality(DOMAIN lim.entries) = Capacity
<1> DEFINE c == IF k \in DOMAIN lim.entries \/ Cardinality(DOMAIN lim.entries) < Capacity
                THEN lim ELSE Swept(lim, w)
           oldest == {o \in DOMAIN c.entries :
                        \A p \in DOMAIN c.entries : c.entries[p].age <= c.entries[o].age}
<1>1. Left(c, lim, K, w) /\ Keeps(c, lim, w)
  BY Sweeps DEF Left, Keeps
<1>2. Fits(c) /\ Cardinality(DOMAIN c.entries) <= Cardinality(DOMAIN lim.entries)
  BY <1>1, Fewer
<1>3. CASE k \in DOMAIN c.entries \/ Cardinality(DOMAIN c.entries) < Capacity
  <2>1. r = c
    BY <1>3 DEF Roomy
  <2>2. QED
    BY <1>1, <1>3, <2>1
<1>4. CASE ~(k \in DOMAIN c.entries \/ Cardinality(DOMAIN c.entries) < Capacity)
  <2>1. PICK o \in oldest :
               r = [c EXCEPT !.entries = Restrict(c.entries, DOMAIN c.entries \ {o})]
    BY <1>4 DEF Roomy
  <2>2. o \in DOMAIN c.entries /\ c \in Limiters(K, w)
    BY <1>1 DEF Left
  <2> HIDE DEF c
  <2>3. c = [entries |-> c.entries, swept |-> c.swept] /\ c.swept \in 0..Interval
    BY <2>2, Opened
  <2>4. /\ r = [entries |-> Restrict(c.entries, DOMAIN c.entries \ {o}), swept |-> c.swept]
        /\ DOMAIN c.entries \ {o} \in SUBSET DOMAIN c.entries
    BY <2>1, <2>3
  <2>5. Left(r, c, K, w) /\ DOMAIN r.entries = DOMAIN c.entries \ {o}
    BY <2>2, <2>3, <2>4, Part
  <2>6. Left(r, lim, K, w)
    BY <1>1, <2>5 DEF Left
  <2>7. Cardinality(DOMAIN r.entries) = Cardinality(DOMAIN c.entries) - 1
    BY <1>2, <2>2, <2>5, FS_RemoveElement DEF Fits
  <2>8. /\ Cardinality(DOMAIN c.entries) \in Nat /\ Cardinality(DOMAIN lim.entries) \in Nat
        /\ Cardinality(DOMAIN lim.entries) <= Capacity /\ Capacity \in Nat
    BY <1>2, FS_CardinalityType, LoginAssumption DEF Fits
  <2>9. Cardinality(DOMAIN c.entries) = Capacity /\ Cardinality(DOMAIN lim.entries) = Capacity
    BY <1>2, <1>4, <2>8 DEF Fits
  <2>10. QED
    BY <2>6, <2>7, <2>8, <2>9
<1>5. QED
  BY <1>3, <1>4

(* What a failure leaves: one more for the key, nothing new for another.   *)
LEMMA Fails ==
  ASSUME NEW K, NEW w \in Nat, NEW lim \in Limiters(K, w), Fits(lim), NEW k \in K,
         NEW f \in AfterFail(lim, k, w)
  PROVE  /\ f \in Limiters(K, w)
         /\ Fits(f)
         /\ k \in DOMAIN f.entries
         /\ IF Counts(lim, k, w)
            THEN /\ f.entries[k].count = lim.entries[k].count + 1
                 /\ f.entries[k].age = lim.entries[k].age
            ELSE f.entries[k] = [count |-> 1, age |-> 0]
         /\ \A j \in DOMAIN f.entries \ {k} :
              j \in DOMAIN lim.entries /\ f.entries[j] = lim.entries[j]
         /\ Keeps(f, lim, w) \/ Cardinality(DOMAIN lim.entries) = Capacity
<1> DEFINE c == Cleaned(lim, w)
<1>1. Left(c, lim, K, w) /\ Keeps(c, lim, w)
  BY Cleans
<1>2. Fits(c) /\ c \in Limiters(K, w)
      /\ Cardinality(DOMAIN c.entries) <= Cardinality(DOMAIN lim.entries)
  BY <1>1, Fewer DEF Left
<1>3. Counts(c, k, w) <=> Counts(lim, k, w)
  BY <1>1 DEF Counts, Left, Keeps
<1>4. /\ c = [entries |-> c.entries, swept |-> c.swept] /\ c.swept \in 0..Interval
      /\ DOMAIN c.entries \subseteq K /\ c.entries \in [DOMAIN c.entries -> Attempts(w)]
  BY <1>2, Opened
<1>5. CASE Counts(c, k, w)
  <2>1. f = [c EXCEPT !.entries[k].count = @ + 1]
    BY <1>5 DEF AfterFail
  <2> DEFINE e == [c.entries EXCEPT ![k].count = @ + 1]
  <2>2. k \in DOMAIN c.entries
    BY <1>5 DEF Counts
  <2> HIDE DEF c
  <2>3. f = [entries |-> e, swept |-> c.swept]
    BY <1>4, <2>1
  <2>4. /\ e \in [DOMAIN c.entries -> Attempts(w)]
        /\ e[k].count = c.entries[k].count + 1 /\ e[k].age = c.entries[k].age
        /\ \A j \in DOMAIN c.entries \ {k} : e[j] = c.entries[j]
    BY <1>4, <2>2 DEF Attempts
  <2> HIDE DEF e
  <2>5. f \in Limiters(K, w) /\ f.entries = e /\ DOMAIN f.entries = DOMAIN c.entries
    BY <1>4, <2>3, <2>4, Closed
  <2>6. Fits(f) /\ Keeps(f, lim, w)
    BY <1>1, <1>2, <2>5 DEF Fits, Keeps
  <2>7. QED
    BY <1>1, <1>3, <1>5, <2>2, <2>4, <2>5, <2>6 DEF Left
<1>6. CASE ~Counts(c, k, w)
  <2>1. PICK r \in Roomy(c, k, w) : f = [r EXCEPT !.entries = Entered(r.entries, k)]
    BY <1>6 DEF AfterFail
  <2> HIDE DEF c
  <2>2. /\ Left(r, c, K, w)
        /\ k \in DOMAIN r.entries \/ Cardinality(DOMAIN r.entries) < Capacity
        /\ Keeps(r, c, w) \/ Cardinality(DOMAIN c.entries) = Capacity
    BY <1>2, MakesRoom
  <2>3. Fits(r) /\ r \in Limiters(K, w)
    BY <1>2, <2>2, Fewer DEF Left
  <2>4. /\ r = [entries |-> r.entries, swept |-> r.swept] /\ r.swept \in 0..Interval
        /\ DOMAIN r.entries \subseteq K /\ r.entries \in [DOMAIN r.entries -> Attempts(w)]
    BY <2>3, Opened
  <2> DEFINE e == Entered(r.entries, k)
  <2>5. /\ e \in [DOMAIN r.entries \cup {k} -> Attempts(w)]
        /\ e[k] = [count |-> 1, age |-> 0]
        /\ \A j \in DOMAIN r.entries \ {k} : e[j] = r.entries[j]
    BY <2>4 DEF Entered, Attempts
  <2>6. f = [entries |-> e, swept |-> r.swept]
    BY <2>1, <2>4
  <2> HIDE DEF e
  <2>7. f \in Limiters(K, w) /\ f.entries = e /\ DOMAIN f.entries = DOMAIN r.entries \cup {k}
    <3>1. DOMAIN r.entries \cup {k} \in SUBSET K
      BY <2>4
    <3>2. f \in Limiters(K, w)
      BY <2>4, <2>5, <2>6, <3>1, Closed
    <3>3. QED
      BY <2>5, <2>6, <3>2
  <2>8. Fits(f)
    <3>1. IsFiniteSet(DOMAIN r.entries) /\ Cardinality(DOMAIN r.entries) \in Nat
      BY <2>3, FS_CardinalityType DEF Fits
    <3>2. /\ IsFiniteSet(DOMAIN r.entries \cup {k})
          /\ Cardinality(DOMAIN r.entries \cup {k}) =
               IF k \in DOMAIN r.entries THEN Cardinality(DOMAIN r.entries)
               ELSE Cardinality(DOMAIN r.entries) + 1
      BY <3>1, FS_AddElement
    <3>3. Cardinality(DOMAIN r.entries) <= Capacity /\ Capacity \in Nat
      BY <2>3, LoginAssumption DEF Fits
    <3>4. QED
      BY <2>2, <2>7, <3>1, <3>2, <3>3 DEF Fits
  <2>9. Keeps(f, lim, w) \/ Cardinality(DOMAIN lim.entries) = Capacity
    <3>1. CASE Keeps(r, c, w)
      BY <1>1, <2>7, <3>1 DEF Keeps, Left
    <3>2. CASE Cardinality(DOMAIN c.entries) = Capacity
      <4>1. Cardinality(DOMAIN lim.entries) \in Nat /\ Capacity \in Nat
            /\ Cardinality(DOMAIN lim.entries) <= Capacity
        BY FS_CardinalityType, LoginAssumption DEF Fits
      <4>2. QED
        BY <1>2, <3>2, <4>1
    <3>3. QED
      BY <2>2, <3>1, <3>2
  <2>10. QED
    BY <1>1, <1>3, <1>6, <2>2, <2>5, <2>7, <2>8, <2>9 DEF Left
<1>7. QED
  BY <1>5, <1>6

(* The handlers                                                            *)

LEMMA Crowd ==
  ASSUME NEW S \in SUBSET Logins
  PROVE  /\ Cardinality(S) \in Nat /\ Cardinality(Logins) \in Nat
         /\ Cardinality(S) <= Cardinality(Logins)
         /\ \A l \in S : Cardinality(S \ {l}) = Cardinality(S) - 1
<1>1. IsFiniteSet(S) /\ Cardinality(S) <= Cardinality(Logins)
  BY FS_Subset, LoginAssumption
<1>2. QED
  BY <1>1, FS_CardinalityType, FS_RemoveElement, LoginAssumption

LEMMA Numbers ==
  ASSUME LoginTypeOK
  PROVE  /\ \A k \in DOMAIN tries.entries : k \in Keys
              /\ tries.entries[k] \in Attempts(Window)
         /\ \A a \in DOMAIN ips.entries : a \in Addresses
              /\ ips.entries[a] \in Attempts(IpWindow)
<1>1. /\ DOMAIN tries.entries \subseteq Keys
      /\ tries.entries \in [DOMAIN tries.entries -> Attempts(Window)]
  BY Opened DEF LoginTypeOK
<1>2. /\ DOMAIN ips.entries \subseteq Addresses
      /\ ips.entries \in [DOMAIN ips.entries -> Attempts(IpWindow)]
  BY Opened DEF LoginTypeOK
<1>3. QED
  BY <1>1, <1>2

LEMMA LoginBegins == Init => LoginInv
<1> SUFFICES ASSUME Init PROVE LoginInv
  OBVIOUS
<1>1. \A K, w : Blank \in Limiters(K, w)
  <2> TAKE K, w
  <2>1. [k \in {} |-> 0] \in [{} -> Attempts(w)] /\ Interval \in 0..Interval
    BY DEF Interval
  <2>2. QED
    BY <2>1, Closed DEF Blank
<1>2. LoginTypeOK
  BY <1>1 DEF Init, LoginTypeOK
<1>3. DOMAIN tries.entries = {} /\ DOMAIN ips.entries = {}
  BY DEF Init, Blank
<1>4. Fits(tries) /\ Fits(ips)
  BY <1>3, FS_EmptySet, LoginAssumption DEF Fits
<1>5. Accounted
  BY <1>3 DEF Accounted
<1>6. QED
  BY <1>2, <1>4, <1>5 DEF LoginInv

LEMMA AskStep ==
  ASSUME LoginInv, NEW l \in Logins, NEW k \in Keys, Ask(l, k)
  PROVE  LoginInv'
<1> DEFINE a == k[1]
<1>1. a \in Addresses /\ tries \in Limiters(Keys, Window)
      /\ ips \in Limiters(Addresses, IpWindow)
  BY DEF LoginInv, LoginTypeOK, Keys
<1> HIDE DEF a
<1>2. /\ Left(ips', ips, Addresses, IpWindow)
      /\ a \in DOMAIN ips'.entries => Counts(ips, a, IpWindow)
  BY <1>1, Allows DEF Ask, a
<1>3. Left(tries', tries, Keys, Window)
  BY <1>1, Allows DEF Ask, Left
<1>4. \/ at' = at
      \/ /\ at' = [at EXCEPT ![l] = "compare"]
         /\ ~Blocked(ips, a, IpMax, IpWindow) /\ ~Blocked(tries, k, Max, Window)
         /\ k \in DOMAIN tries'.entries => Counts(tries, k, Window)
  BY <1>1, Allows DEF Ask, a
<1>5. at[l] = "out" /\ who' = [who EXCEPT ![l] = k]
  BY DEF Ask
<1>6. LoginTypeOK'
  BY <1>2, <1>3, <1>4, <1>5 DEF LoginInv, LoginTypeOK, Left
<1>7. Fits(tries)' /\ Fits(ips)'
  BY <1>2, <1>3, Fewer DEF LoginInv
<1>8. \A j \in DOMAIN tries'.entries :
        tries'.entries[j].count + Cardinality(Comparing(j)') < Max + Cardinality(Logins)
  <2> TAKE j \in DOMAIN tries'.entries
  <2>1. /\ j \in DOMAIN tries.entries /\ tries'.entries[j] = tries.entries[j]
        /\ tries.entries[j].count \in Nat
        /\ tries.entries[j].count + Cardinality(Comparing(j)) < Max + Cardinality(Logins)
    BY <1>3, Numbers DEF Left, LoginInv, Accounted, Attempts
  <2>2. CASE Comparing(j)' = Comparing(j)
    BY <2>1, <2>2
  <2>3. CASE Comparing(j)' # Comparing(j)
    <3>1. j = k /\ at' = [at EXCEPT ![l] = "compare"]
      BY <1>4, <1>5, <2>3 DEF Comparing, LoginInv, LoginTypeOK
    <3>2. tries.entries[j].count < Max
      <4>1. at' # at
        BY <1>5, <3>1 DEF LoginInv, LoginTypeOK
      <4>2. QED
        BY <1>4, <2>1, <3>1, <4>1, LoginAssumption DEF Blocked
    <3>3. Comparing(j)' \in SUBSET Logins
      BY DEF Comparing
    <3>4. QED
      BY <2>1, <3>2, <3>3, Crowd, LoginAssumption
  <2>4. QED
    BY <2>2, <2>3
<1>9. \A b \in DOMAIN ips'.entries :
        ips'.entries[b].count + Cardinality(Pending(b)') < IpMax + Cardinality(Logins)
  <2> TAKE b \in DOMAIN ips'.entries
  <2>1. /\ b \in DOMAIN ips.entries /\ ips'.entries[b] = ips.entries[b]
        /\ ips.entries[b].count \in Nat
        /\ ips.entries[b].count + Cardinality(Pending(b)) < IpMax + Cardinality(Logins)
    BY <1>2, Numbers DEF Left, LoginInv, Accounted, Attempts
  <2>2. CASE Pending(b)' = Pending(b)
    BY <2>1, <2>2
  <2>3. CASE Pending(b)' # Pending(b)
    <3>1. b = a /\ at' = [at EXCEPT ![l] = "compare"]
      BY <1>4, <1>5, <2>3 DEF Pending, LoginInv, LoginTypeOK, a
    <3>2. ips.entries[b].count < IpMax
      <4>1. at' # at
        BY <1>5, <3>1 DEF LoginInv, LoginTypeOK
      <4>2. QED
        BY <1>2, <1>4, <2>1, <3>1, <4>1, LoginAssumption DEF Blocked
    <3>3. Pending(b)' \in SUBSET Logins
      BY DEF Pending
    <3>4. QED
      BY <2>1, <3>2, <3>3, Crowd, LoginAssumption
  <2>4. QED
    BY <2>2, <2>3
<1>10. QED
  BY <1>6, <1>7, <1>8, <1>9 DEF LoginInv, Accounted

LEMMA WrongStep ==
  ASSUME LoginInv, NEW l \in Logins, Wrong(l)
  PROVE  LoginInv'
<1> DEFINE k == who[l]
<1>1. /\ k \in Keys /\ tries \in Limiters(Keys, Window) /\ Fits(tries)
      /\ tries' \in AfterFail(tries, k, Window) /\ Window \in Nat
  BY LoginAssumption DEF LoginInv, LoginTypeOK, Wrong
<1>2. /\ at[l] = "compare" /\ at' = [at EXCEPT ![l] = "wrong"]
      /\ UNCHANGED <<ips, who>>
  BY DEF Wrong
<1> HIDE DEF k
<1>3. /\ tries' \in Limiters(Keys, Window)
      /\ Fits(tries')
      /\ IF Counts(tries, k, Window) THEN tries'.entries[k].count = tries.entries[k].count + 1
         ELSE tries'.entries[k].count = 1
      /\ \A j \in DOMAIN tries'.entries \ {k} :
           j \in DOMAIN tries.entries /\ tries'.entries[j] = tries.entries[j]
  BY <1>1, Fails
<1>4. LoginTypeOK'
  BY <1>2, <1>3 DEF LoginInv, LoginTypeOK
<1>5. \A j \in DOMAIN tries'.entries :
        tries'.entries[j].count + Cardinality(Comparing(j)') < Max + Cardinality(Logins)
  <2> TAKE j \in DOMAIN tries'.entries
  <2>1. CASE j # k
    <3>1. Comparing(j)' = Comparing(j)
      BY <1>2, <2>1 DEF Comparing, LoginInv, LoginTypeOK, k
    <3>2. QED
      BY <1>3, <2>1, <3>1 DEF LoginInv, Accounted
  <2>2. CASE j = k
    <3>1. l \in Comparing(j) /\ Comparing(j)' = Comparing(j) \ {l}
          /\ Comparing(j) \in SUBSET Logins
      BY <1>2, <2>2 DEF Comparing, LoginInv, LoginTypeOK, k
    <3>2. /\ Cardinality(Comparing(j)') = Cardinality(Comparing(j)) - 1
          /\ Cardinality(Comparing(j)) \in Nat /\ Cardinality(Logins) \in Nat
          /\ Cardinality(Comparing(j)) <= Cardinality(Logins)
      BY <3>1, Crowd
    <3>3. CASE Counts(tries, k, Window)
      <4>1. /\ tries.entries[j].count \in Nat
            /\ tries.entries[j].count + Cardinality(Comparing(j)) < Max + Cardinality(Logins)
        BY <2>2, <3>3, Numbers DEF Counts, LoginInv, Accounted, Attempts
      <4>2. QED
        BY <1>3, <2>2, <3>2, <3>3, <4>1, LoginAssumption
    <3>4. CASE ~Counts(tries, k, Window)
      BY <1>3, <2>2, <3>2, <3>4, LoginAssumption
    <3>5. QED
      BY <3>3, <3>4
  <2>3. QED
    BY <2>1, <2>2
<1>6. \A b : Pending(b)' = Pending(b)
  BY <1>2 DEF Pending, LoginInv, LoginTypeOK
<1>7. QED
  BY <1>2, <1>3, <1>4, <1>5, <1>6 DEF LoginInv, Accounted, Fits

LEMMA WrongIpStep ==
  ASSUME LoginInv, NEW l \in Logins, WrongIp(l)
  PROVE  LoginInv'
<1> DEFINE a == who[l][1]
<1>1. /\ a \in Addresses /\ ips \in Limiters(Addresses, IpWindow) /\ Fits(ips)
      /\ ips' \in AfterFail(ips, a, IpWindow) /\ IpWindow \in Nat
  BY LoginAssumption DEF LoginInv, LoginTypeOK, WrongIp, Keys
<1>2. /\ at[l] = "wrong" /\ at' = [at EXCEPT ![l] = "out"]
      /\ UNCHANGED <<tries, who>>
  BY DEF WrongIp
<1> HIDE DEF a
<1>3. /\ ips' \in Limiters(Addresses, IpWindow)
      /\ Fits(ips')
      /\ IF Counts(ips, a, IpWindow) THEN ips'.entries[a].count = ips.entries[a].count + 1
         ELSE ips'.entries[a].count = 1
      /\ \A b \in DOMAIN ips'.entries \ {a} :
           b \in DOMAIN ips.entries /\ ips'.entries[b] = ips.entries[b]
  BY <1>1, Fails
<1>4. LoginTypeOK'
  BY <1>2, <1>3 DEF LoginInv, LoginTypeOK
<1>5. \A b \in DOMAIN ips'.entries :
        ips'.entries[b].count + Cardinality(Pending(b)') < IpMax + Cardinality(Logins)
  <2> TAKE b \in DOMAIN ips'.entries
  <2>1. CASE b # a
    <3>1. Pending(b)' = Pending(b)
      BY <1>2, <2>1 DEF Pending, LoginInv, LoginTypeOK, a
    <3>2. QED
      BY <1>3, <2>1, <3>1 DEF LoginInv, Accounted
  <2>2. CASE b = a
    <3>1. l \in Pending(b) /\ Pending(b)' = Pending(b) \ {l} /\ Pending(b) \in SUBSET Logins
      BY <1>2, <2>2 DEF Pending, LoginInv, LoginTypeOK, a
    <3>2. /\ Cardinality(Pending(b)') = Cardinality(Pending(b)) - 1
          /\ Cardinality(Pending(b)) \in Nat /\ Cardinality(Logins) \in Nat
          /\ Cardinality(Pending(b)) <= Cardinality(Logins)
      BY <3>1, Crowd
    <3>3. CASE Counts(ips, a, IpWindow)
      <4>1. /\ ips.entries[b].count \in Nat
            /\ ips.entries[b].count + Cardinality(Pending(b)) < IpMax + Cardinality(Logins)
        BY <2>2, <3>3, Numbers DEF Counts, LoginInv, Accounted, Attempts
      <4>2. QED
        BY <1>3, <2>2, <3>2, <3>3, <4>1, LoginAssumption
    <3>4. CASE ~Counts(ips, a, IpWindow)
      BY <1>3, <2>2, <3>2, <3>4, LoginAssumption
    <3>5. QED
      BY <3>3, <3>4
  <2>3. QED
    BY <2>1, <2>2
<1>6. \A j : Comparing(j)' = Comparing(j)
  BY <1>2 DEF Comparing, LoginInv, LoginTypeOK
<1>7. QED
  BY <1>2, <1>3, <1>4, <1>5, <1>6 DEF LoginInv, Accounted, Fits

LEMMA Succeeds ==
  ASSUME NEW K, NEW w, NEW lim \in Limiters(K, w), NEW k
  PROVE  /\ Left(AfterSuccess(lim, k), lim, K, w)
         /\ DOMAIN AfterSuccess(lim, k).entries = DOMAIN lim.entries \ {k}
<1> DEFINE S == DOMAIN lim.entries \ {k}
<1>1. lim = [entries |-> lim.entries, swept |-> lim.swept] /\ lim.swept \in 0..Interval
  BY Opened
<1>2. /\ AfterSuccess(lim, k) = [entries |-> Restrict(lim.entries, S), swept |-> lim.swept]
      /\ S \in SUBSET DOMAIN lim.entries
  BY <1>1 DEF AfterSuccess
<1> HIDE DEF S
<1>3. Left(AfterSuccess(lim, k), lim, K, w) /\ DOMAIN AfterSuccess(lim, k).entries = S
  BY <1>1, <1>2, Part
<1>4. QED
  BY <1>3 DEF S

LEMMA RightStep ==
  ASSUME LoginInv, NEW l \in Logins, Right(l)
  PROVE  LoginInv'
<1>1. Left(tries', tries, Keys, Window) /\ Left(ips', ips, Addresses, IpWindow)
  BY Succeeds DEF Right, LoginInv, LoginTypeOK
<1>2. at[l] = "compare" /\ at' = [at EXCEPT ![l] = "out"] /\ who' = who
  BY DEF Right
<1>3. LoginTypeOK'
  BY <1>1, <1>2 DEF LoginInv, LoginTypeOK, Left
<1>4. Fits(tries)' /\ Fits(ips)'
  BY <1>1, Fewer DEF LoginInv
<1>5. ASSUME NEW j
      PROVE  /\ Comparing(j) \in SUBSET Logins
             /\ \/ Comparing(j)' = Comparing(j)
                \/ l \in Comparing(j) /\ Comparing(j)' = Comparing(j) \ {l}
  <2>1. \A q \in Logins : q # l => at'[q] = at[q]
    BY <1>2 DEF LoginInv, LoginTypeOK
  <2>2. at'[l] = "out"
    BY <1>2 DEF LoginInv, LoginTypeOK
  <2>3. QED
    BY <1>2, <2>1, <2>2 DEF Comparing
<1>6. ASSUME NEW b
      PROVE  /\ Pending(b) \in SUBSET Logins
             /\ \/ Pending(b)' = Pending(b)
                \/ l \in Pending(b) /\ Pending(b)' = Pending(b) \ {l}
  <2>1. \A q \in Logins : q # l => at'[q] = at[q]
    BY <1>2 DEF LoginInv, LoginTypeOK
  <2>2. at'[l] = "out"
    BY <1>2 DEF LoginInv, LoginTypeOK
  <2>3. QED
    BY <1>2, <2>1, <2>2 DEF Pending
<1>7. \A j \in DOMAIN tries'.entries :
        tries'.entries[j].count + Cardinality(Comparing(j)') < Max + Cardinality(Logins)
  <2> TAKE j \in DOMAIN tries'.entries
  <2>1. /\ tries'.entries[j] = tries.entries[j] /\ tries.entries[j].count \in Nat
        /\ tries.entries[j].count + Cardinality(Comparing(j)) < Max + Cardinality(Logins)
    BY <1>1, Numbers DEF Left, LoginInv, Accounted, Attempts
  <2>2. /\ Comparing(j) \in SUBSET Logins
        /\ \/ Comparing(j)' = Comparing(j)
           \/ l \in Comparing(j) /\ Comparing(j)' = Comparing(j) \ {l}
    BY <1>5
  <2>3. /\ Cardinality(Comparing(j)) \in Nat /\ Cardinality(Logins) \in Nat
        /\ l \in Comparing(j) =>
             Cardinality(Comparing(j) \ {l}) = Cardinality(Comparing(j)) - 1
    BY <2>2, Crowd
  <2>4. CASE Comparing(j)' = Comparing(j)
    BY <2>1, <2>4
  <2>5. CASE l \in Comparing(j) /\ Comparing(j)' = Comparing(j) \ {l}
    <3>1. Cardinality(Comparing(j)') = Cardinality(Comparing(j)) - 1
      BY <2>3, <2>5
    <3>2. QED
      BY <2>1, <2>3, <3>1, LoginAssumption
  <2>6. QED
    BY <2>2, <2>4, <2>5
<1>8. \A b \in DOMAIN ips'.entries :
        ips'.entries[b].count + Cardinality(Pending(b)') < IpMax + Cardinality(Logins)
  <2> TAKE b \in DOMAIN ips'.entries
  <2>1. /\ ips'.entries[b] = ips.entries[b] /\ ips.entries[b].count \in Nat
        /\ ips.entries[b].count + Cardinality(Pending(b)) < IpMax + Cardinality(Logins)
    BY <1>1, Numbers DEF Left, LoginInv, Accounted, Attempts
  <2>2. /\ Pending(b) \in SUBSET Logins
        /\ \/ Pending(b)' = Pending(b)
           \/ l \in Pending(b) /\ Pending(b)' = Pending(b) \ {l}
    BY <1>6
  <2>3. /\ Cardinality(Pending(b)) \in Nat /\ Cardinality(Logins) \in Nat
        /\ l \in Pending(b) => Cardinality(Pending(b) \ {l}) = Cardinality(Pending(b)) - 1
    BY <2>2, Crowd
  <2>4. CASE Pending(b)' = Pending(b)
    BY <2>1, <2>4
  <2>5. CASE l \in Pending(b) /\ Pending(b)' = Pending(b) \ {l}
    <3>1. Cardinality(Pending(b)') = Cardinality(Pending(b)) - 1
      BY <2>3, <2>5
    <3>2. QED
      BY <2>1, <2>3, <3>1, LoginAssumption
  <2>6. QED
    BY <2>2, <2>4, <2>5
<1>9. QED
  BY <1>3, <1>4, <1>7, <1>8 DEF LoginInv, Accounted

LEMMA Ages ==
  ASSUME NEW K, NEW w \in Nat, NEW lim \in Limiters(K, w)
  PROVE  /\ Older(lim, w) \in Limiters(K, w)
         /\ DOMAIN Older(lim, w).entries = DOMAIN lim.entries
         /\ \A k \in DOMAIN lim.entries :
              /\ Older(lim, w).entries[k].count = lim.entries[k].count
              /\ Older(lim, w).entries[k].age =
                   IF lim.entries[k].age < w THEN lim.entries[k].age + 1 ELSE lim.entries[k].age
<1> DEFINE e == [k \in DOMAIN lim.entries |->
                  [lim.entries[k] EXCEPT !.age = IF @ < w THEN @ + 1 ELSE @]]
           s == IF lim.swept < Interval THEN lim.swept + 1 ELSE lim.swept
<1>1. /\ lim.swept \in 0..Interval /\ DOMAIN lim.entries \in SUBSET K
      /\ \A k \in DOMAIN lim.entries : lim.entries[k] \in Attempts(w)
  BY Opened
<1>2. e \in [DOMAIN lim.entries -> Attempts(w)]
  BY <1>1 DEF Attempts
<1>3. s \in 0..Interval
  BY <1>1 DEF Interval
<1>4. Older(lim, w) = [entries |-> e, swept |-> s]
  BY DEF Older
<1> HIDE DEF e, s
<1>5. Older(lim, w) \in Limiters(K, w) /\ Older(lim, w).entries = e
  BY <1>1, <1>2, <1>3, <1>4, Closed
<1>6. QED
  BY <1>1, <1>5 DEF e, Attempts

LEMMA TickStep ==
  ASSUME LoginInv, Tick
  PROVE  LoginInv'
<1>1. /\ tries' \in Limiters(Keys, Window) /\ DOMAIN tries'.entries = DOMAIN tries.entries
      /\ \A k \in DOMAIN tries.entries : tries'.entries[k].count = tries.entries[k].count
  BY Ages, LoginAssumption DEF Tick, LoginInv, LoginTypeOK
<1>2. /\ ips' \in Limiters(Addresses, IpWindow) /\ DOMAIN ips'.entries = DOMAIN ips.entries
      /\ \A a \in DOMAIN ips.entries : ips'.entries[a].count = ips.entries[a].count
  BY Ages, LoginAssumption DEF Tick, LoginInv, LoginTypeOK
<1>3. at' = at /\ who' = who
  BY DEF Tick
<1>4. (\A k : Comparing(k)' = Comparing(k)) /\ (\A a : Pending(a)' = Pending(a))
  BY <1>3 DEF Comparing, Pending
<1>5. QED
  BY <1>1, <1>2, <1>3, <1>4 DEF LoginInv, LoginTypeOK, Fits, Accounted

LEMMA LoginInvariance == PartsSpec => []LoginInv
<1>1. LoginInv /\ [Next]_vars => LoginInv'
  <2> SUFFICES ASSUME LoginInv, [Next]_vars PROVE LoginInv'
    OBVIOUS
  <2>1. CASE Next
    BY <2>1, TickStep, AskStep, WrongStep, WrongIpStep, RightStep DEF Next
  <2>2. CASE UNCHANGED vars
    BY <2>2 DEF vars, LoginInv, LoginTypeOK, Fits, Accounted, Comparing, Pending
  <2>3. QED
    BY <2>1, <2>2
<1>2. QED
  BY LoginRuns, LoginBegins, <1>1, PTL

(* Types of the limiters and the handlers.                                 *)
THEOREM LoginTypeCorrect == PartsSpec => []LoginTypeOK
<1>1. LoginInv => LoginTypeOK
  BY DEF LoginInv
<1>2. QED
  BY LoginInvariance, <1>1, PTL

(* A limiter keeps to its capacity (makeRoomLocked), and the logins that   *)
(* were admitted together exceed its limit by less than the handlers are.  *)
THEOREM StaysBounded == PartsSpec => []Bounded
<1>1. LoginInv => Bounded
  <2> SUFFICES ASSUME LoginInv PROVE Bounded
    OBVIOUS
  <2>1. \A k \in DOMAIN tries.entries : tries.entries[k].count < Max + Cardinality(Logins)
    <3> TAKE k \in DOMAIN tries.entries
    <3>1. /\ tries.entries[k].count \in Nat
          /\ tries.entries[k].count + Cardinality(Comparing(k)) < Max + Cardinality(Logins)
      BY Numbers DEF LoginInv, Accounted, Attempts
    <3>2. Cardinality(Comparing(k)) \in Nat /\ Cardinality(Logins) \in Nat
      BY Crowd DEF Comparing
    <3>3. QED
      BY <3>1, <3>2, LoginAssumption
  <2>2. \A a \in DOMAIN ips.entries : ips.entries[a].count < IpMax + Cardinality(Logins)
    <3> TAKE a \in DOMAIN ips.entries
    <3>1. /\ ips.entries[a].count \in Nat
          /\ ips.entries[a].count + Cardinality(Pending(a)) < IpMax + Cardinality(Logins)
      BY Numbers DEF LoginInv, Accounted, Attempts
    <3>2. Cardinality(Pending(a)) \in Nat /\ Cardinality(Logins) \in Nat
      BY Crowd DEF Pending
    <3>3. QED
      BY <3>1, <3>2, LoginAssumption
  <2>3. QED
    BY <2>1, <2>2 DEF LoginInv, Fits, Bounded
<1>2. QED
  BY LoginInvariance, <1>1, PTL

LEMMA PairBlockLasts ==
  ASSUME LoginInv, Next, NEW k \in Keys, Blocked(tries, k, Max, Window)
  PROVE  \/ Blocked(tries, k, Max, Window)' /\ tries'.entries[k].age >= tries.entries[k].age
         \/ tries.entries[k].age = Window - 1
         \/ \E l \in Logins : at[l] = "compare" /\ at'[l] = "out" /\ who[l] = k
         \/ Cardinality(DOMAIN tries.entries) = Capacity
<1>1. /\ k \in DOMAIN tries.entries
      /\ tries.entries[k].age < Window /\ tries.entries[k].count >= Max
      /\ tries.entries[k].age \in Nat /\ tries.entries[k].count \in Nat
      /\ tries \in Limiters(Keys, Window) /\ Fits(tries)
      /\ Max \in Nat /\ Window \in Nat
  BY Numbers, LoginAssumption DEF LoginInv, LoginTypeOK, Blocked, Counts, Attempts
<1>2. ASSUME tries' = tries
      PROVE  Blocked(tries, k, Max, Window)' /\ tries'.entries[k].age >= tries.entries[k].age
  BY <1>1, <1>2 DEF Blocked, Counts
<1>3. CASE Tick
  <2>1. /\ k \in DOMAIN tries'.entries
        /\ tries'.entries[k].count = tries.entries[k].count
        /\ tries'.entries[k].age = tries.entries[k].age + 1
    BY <1>1, <1>3, Ages DEF Tick
  <2>2. QED
    BY <1>1, <2>1 DEF Blocked, Counts
<1>4. ASSUME NEW l \in Logins, NEW q \in Keys, Ask(l, q)
      PROVE  Blocked(tries, k, Max, Window)' /\ tries'.entries[k].age >= tries.entries[k].age
  <2>1. tries' = tries \/ tries' = AfterAllowed(tries, q, Window)
    BY <1>4 DEF Ask
  <2>2. CASE tries' = AfterAllowed(tries, q, Window)
    <3>1. Left(tries', tries, Keys, Window) /\ Keeps(tries', tries, Window)
      BY <1>1, <2>2, Allows
    <3>2. QED
      BY <1>1, <3>1 DEF Left, Keeps, Blocked, Counts
  <2>3. QED
    BY <1>2, <2>1, <2>2
<1>5. ASSUME NEW l \in Logins, Wrong(l)
      PROVE  \/ Blocked(tries, k, Max, Window)'
                  /\ tries'.entries[k].age >= tries.entries[k].age
             \/ Cardinality(DOMAIN tries.entries) = Capacity
  <2>1. who[l] \in Keys /\ tries' \in AfterFail(tries, who[l], Window)
    BY <1>5 DEF Wrong, LoginInv, LoginTypeOK
  <2>2. /\ IF Counts(tries, who[l], Window)
           THEN /\ tries'.entries[who[l]].count = tries.entries[who[l]].count + 1
                /\ tries'.entries[who[l]].age = tries.entries[who[l]].age
           ELSE tries'.entries[who[l]] = [count |-> 1, age |-> 0]
        /\ \A j \in DOMAIN tries'.entries \ {who[l]} : tries'.entries[j] = tries.entries[j]
        /\ Keeps(tries', tries, Window) \/ Cardinality(DOMAIN tries.entries) = Capacity
    BY <1>1, <2>1, Fails
  <2>3. QED
    BY <1>1, <2>2 DEF Keeps, Blocked, Counts
<1>6. ASSUME NEW l \in Logins, WrongIp(l)
      PROVE  Blocked(tries, k, Max, Window)' /\ tries'.entries[k].age >= tries.entries[k].age
  BY <1>2, <1>6 DEF WrongIp
<1>7. ASSUME NEW l \in Logins, Right(l)
      PROVE  \/ Blocked(tries, k, Max, Window)'
                  /\ tries'.entries[k].age >= tries.entries[k].age
             \/ at[l] = "compare" /\ at'[l] = "out" /\ who[l] = k
  <2>1. Left(tries', tries, Keys, Window)
        /\ DOMAIN tries'.entries = DOMAIN tries.entries \ {who[l]}
    BY <1>1, <1>7, Succeeds DEF Right
  <2>2. CASE who[l] = k
    BY <1>7, <2>2 DEF Right, LoginInv, LoginTypeOK
  <2>3. CASE who[l] # k
    BY <1>1, <2>1, <2>3 DEF Left, Blocked, Counts
  <2>4. QED
    BY <2>2, <2>3
<1>8. QED
  BY <1>3, <1>4, <1>5, <1>6, <1>7 DEF Next

LEMMA AddressBlockLasts ==
  ASSUME LoginInv, Next, NEW a \in Addresses,
         Blocked(ips, a, IpMax, IpWindow), Blocked(ips, a, IpMax, IpWindow)'
  PROVE  ips'.entries[a].age >= ips.entries[a].age
<1>1. /\ a \in DOMAIN ips.entries /\ a \in DOMAIN ips'.entries
      /\ Counts(ips, a, IpWindow)
      /\ ips.entries[a].age < IpWindow
      /\ ips.entries[a].age \in Nat
      /\ ips \in Limiters(Addresses, IpWindow) /\ Fits(ips)
      /\ IpWindow \in Nat
  BY Numbers, LoginAssumption DEF LoginInv, LoginTypeOK, Blocked, Counts, Attempts
<1>2. CASE Tick
  <2>1. ips'.entries[a].age = ips.entries[a].age + 1
    BY <1>1, <1>2, Ages DEF Tick
  <2>2. QED
    BY <1>1, <2>1
<1>3. ASSUME NEW l \in Logins, NEW q \in Keys, Ask(l, q)
      PROVE  ips'.entries[a].age >= ips.entries[a].age
  <2>1. Left(ips', ips, Addresses, IpWindow)
    BY <1>1, <1>3, Allows DEF Ask
  <2>2. QED
    BY <1>1, <2>1 DEF Left
<1>4. ASSUME NEW l \in Logins, Wrong(l)
      PROVE  ips'.entries[a].age >= ips.entries[a].age
  BY <1>1, <1>4 DEF Wrong
<1>5. ASSUME NEW l \in Logins, WrongIp(l)
      PROVE  ips'.entries[a].age >= ips.entries[a].age
  <2>1. who[l][1] \in Addresses /\ ips' \in AfterFail(ips, who[l][1], IpWindow)
    BY <1>5 DEF WrongIp, LoginInv, LoginTypeOK, Keys
  <2>2. /\ Counts(ips, who[l][1], IpWindow) =>
             ips'.entries[who[l][1]].age = ips.entries[who[l][1]].age
        /\ \A b \in DOMAIN ips'.entries \ {who[l][1]} : ips'.entries[b] = ips.entries[b]
    BY <1>1, <2>1, Fails
  <2>3. QED
    BY <1>1, <2>2
<1>6. ASSUME NEW l \in Logins, Right(l)
      PROVE  ips'.entries[a].age >= ips.entries[a].age
  <2>1. Left(ips', ips, Addresses, IpWindow)
    BY <1>1, <1>6, Succeeds DEF Right
  <2>2. QED
    BY <1>1, <2>1 DEF Left
<1>7. QED
  BY <1>2, <1>3, <1>4, <1>5, <1>6 DEF Next

(* A block lasts until its window ends, and no request renews it.          *)
THEOREM BlocksLast == PartsSpec => BlockLasts
<1>1. LoginInv /\ [Next]_vars =>
      [/\ \A k \in Keys :
            Blocked(tries, k, Max, Window) =>
              \/ Blocked(tries, k, Max, Window)'
                   /\ tries'.entries[k].age >= tries.entries[k].age
              \/ tries.entries[k].age = Window - 1
              \/ \E l \in Logins : at[l] = "compare" /\ at'[l] = "out" /\ who[l] = k
              \/ Cardinality(DOMAIN tries.entries) = Capacity
       /\ \A a \in Addresses :
            Blocked(ips, a, IpMax, IpWindow) /\ Blocked(ips, a, IpMax, IpWindow)' =>
              ips'.entries[a].age >= ips.entries[a].age]_vars
  BY PairBlockLasts, AddressBlockLasts
<1>2. QED
  BY LoginRuns, LoginInvariance, <1>1, PTL DEF BlockLasts

-----------------------------------------------------------------------------
(* The restart gate                                                        *)
LEMMA GateRuns == PartsSpec => Gate!Init /\ [][Gate!Next]_Gate!vars
<1>1. PartsInit => Gate!Init
  BY DEF PartsInit
<1>2. [PartsNext]_partsVars => [Gate!Next]_Gate!vars
  BY DEF PartsNext, partsVars, gateVars, Gate!vars, GateMoves, ApplyMoves,
         PolicyMoves, FirewallMoves, CoreMoves, PanelMoves, LoginMoves,
         EditorMoves, PageMoves
<1>3. QED
  BY <1>1, <1>2, PTL DEF PartsSpec

LEMMA CallsOfProcesses == ProcOf \in [Calls -> Procs]
  BY GateAssumption DEF Gate!CallAssumption

Stopping(p) == \E c \in Calls : ProcOf[c] = p /\ rAt[c] = "stop"
Verifying(p) == \E c \in Calls : ProcOf[c] = p /\ rAt[c] = "verify"

(* The gate is held by one call of a process at a time.                    *)
OneHolds ==
  \A c, d \in Calls :
    /\ ProcOf[c] = ProcOf[d]
    /\ rAt[c] \in {"wait", "stop", "verify"}
    /\ rAt[d] \in {"wait", "stop", "verify"}
    => c = d

(* What the gated starts of p in this window say of its age: the first was *)
(* judged for a dwell before the gate was free, and from the second on the *)
(* spacing lies between the restarts.                                      *)
Aged(p) ==
  /\ Verifying(p) => rAge >= rStable[p]
  /\ ~Verifying(p) => rAge >= 6
  /\ rGated[p] >= 2 => rAge >= 15 * rGated[p] - 24 + rSince[p]
  /\ Stopping(p) => rAge >= 15 * rGated[p] - 9 + rSince[p]
Spaced == \A p \in Procs : rAge <= Gate!Interval /\ rGated[p] >= 1 => Aged(p)

GateTypes ==
  /\ rAge \in 0..51 /\ rCount \in 0..5
  /\ rSince \in [Procs -> 0..15] /\ rStable \in [Procs -> 0..6]
  /\ rAt \in [Calls -> Gate!Phases] /\ rGated \in [Procs -> 0..5]

GateInv == Gate!TypeOK /\ OneHolds /\ Spaced /\ Gate!FourPerWindow

LEMMA GateNumbers == GateTypes <=> Gate!TypeOK
  BY DEF GateTypes, Gate!TypeOK, Gate!Interval, Gate!Burst, Gate!Spacing, Gate!Dwell

(* The gate and the clocks start in the invariant.                         *)
LEMMA GateBegins == Gate!Init => GateInv
<1> SUFFICES ASSUME Gate!Init PROVE GateInv
  OBVIOUS
<1> USE CallsOfProcesses DEF Gate!Init, Gate!Spacing, Gate!Dwell, Gate!Interval, Gate!Burst,
   Gate!Phases
<1>1. Gate!TypeOK
  BY DEF Gate!TypeOK
<1>2. OneHolds
  BY DEF OneHolds
<1>3. Spaced /\ Gate!FourPerWindow
  BY DEF Spaced, Gate!FourPerWindow
<1> QED
  BY <1>1, <1>2, <1>3 DEF GateInv

(* The end of the window, and with it of all that was counted in it.       *)
LEMMA WindowEndsKeeps ==
  ASSUME GateInv, Gate!TypeOK', OneHolds', Gate!WindowEnds PROVE GateInv'
<1>1. rAge' = 51 /\ \A p \in Procs : rGated'[p] = 0
  BY DEF Gate!WindowEnds, Gate!Interval
<1>2. Spaced' /\ Gate!FourPerWindow'
  BY <1>1 DEF Spaced, Gate!FourPerWindow
<1> QED
  BY <1>2 DEF GateInv

(* A step that counts no start and touches no clock keeps the invariant if *)
(* it keeps the mutual exclusion, brings no call to "stop" or "verify", and*)
(* lets none go from "verify" before its dwell is over.                    *)
LEMMA Unspaced ==
  ASSUME GateInv, Gate!TypeOK', OneHolds',
         UNCHANGED <<rAge, rCount, rSince, rStable, rGated>>,
         \A p \in Procs : Stopping(p)' => Stopping(p),
         \A p \in Procs : Verifying(p)' => Verifying(p),
         \A p \in Procs : Verifying(p) => Verifying(p)' \/ rStable[p] = 6
  PROVE  GateInv'
<1>1. Spaced'
  <2> SUFFICES ASSUME NEW p \in Procs, rAge <= Gate!Interval, rGated[p] >= 1 PROVE Aged(p)'
    BY DEF Spaced
  <2>1. Aged(p)
    BY DEF GateInv, Spaced
  <2> QED
    BY <2>1 DEF Aged
<1> QED
  BY <1>1 DEF GateInv, Gate!FourPerWindow

LEMMA CallKeeps == ASSUME NEW c \in Calls, GateInv, Gate!Call(c) PROVE GateInv'
<1>1. Gate!TypeOK'
  BY DEF GateInv, Gate!TypeOK, Gate!Call, Gate!Goto, Gate!Phases
<1>2. OneHolds'
  BY DEF GateInv, Gate!TypeOK, OneHolds, Gate!Call, Gate!Goto
<1>3. \A d \in Calls : \A f \in {"stop", "verify"} : rAt'[d] = f <=> rAt[d] = f
  BY DEF GateInv, Gate!TypeOK, Gate!Call, Gate!Goto
<1> QED
  BY <1>1, <1>2, <1>3, Unspaced DEF Gate!Call, Stopping, Verifying

LEMMA LockKeeps == ASSUME NEW c \in Calls, GateInv, Gate!Lock(c) PROVE GateInv'
<1>1. Gate!TypeOK'
  BY DEF GateInv, Gate!TypeOK, Gate!Lock, Gate!Goto, Gate!Phases
<1>2. OneHolds'
  BY DEF GateInv, Gate!TypeOK, OneHolds, Gate!Lock, Gate!Goto, Gate!Held
<1>3. \A d \in Calls : \A f \in {"stop", "verify"} : rAt'[d] = f <=> rAt[d] = f
  BY DEF GateInv, Gate!TypeOK, Gate!Lock, Gate!Goto
<1> QED
  BY <1>1, <1>2, <1>3, Unspaced DEF Gate!Lock, Stopping, Verifying

LEMMA ReturnKeeps == ASSUME NEW c \in Calls, GateInv, Gate!Return(c) PROVE GateInv'
<1>1. Gate!TypeOK'
  BY DEF GateInv, Gate!TypeOK, Gate!Return, Gate!Goto, Gate!Phases
<1>2. OneHolds'
  BY DEF GateInv, Gate!TypeOK, OneHolds, Gate!Return, Gate!Goto
<1>3. \A d \in Calls : \A f \in {"stop", "verify"} : rAt'[d] = f => rAt[d] = f
  BY DEF GateInv, Gate!TypeOK, Gate!Return, Gate!Goto
<1>4. \A d \in Calls : rAt[d] = "verify" => rAt'[d] = "verify" \/ rStable[ProcOf[d]] = 6
  BY DEF GateInv, Gate!TypeOK, Gate!Return, Gate!Goto, Gate!Dwell
<1> QED
  BY <1>1, <1>2, <1>3, <1>4, Unspaced DEF Gate!Return, Stopping, Verifying

LEMMA LimitedKeeps == ASSUME NEW c \in Calls, GateInv, Gate!Limited(c) PROVE GateInv'
<1>1. Gate!TypeOK'
  BY DEF GateInv, Gate!TypeOK, Gate!Limited, Gate!Goto, Gate!Phases
<1>2. OneHolds'
  BY DEF GateInv, Gate!TypeOK, OneHolds, Gate!Limited, Gate!Goto
<1>3. \A d \in Calls : /\ rAt'[d] = "stop" => rAt[d] = "stop"
                       /\ rAt'[d] = "verify" <=> rAt[d] = "verify"
  BY DEF GateInv, Gate!TypeOK, Gate!Limited, Gate!Goto
<1> QED
  BY <1>1, <1>2, <1>3, Unspaced DEF Gate!Limited, Stopping, Verifying

LEMMA GivesUpKeeps == ASSUME NEW c \in Calls, GateInv, Gate!GivesUp(c) PROVE GateInv'
<1>1. Gate!TypeOK'
  BY DEF GateInv, Gate!TypeOK, Gate!GivesUp, Gate!Goto, Gate!Phases
<1>2. OneHolds'
  BY DEF GateInv, Gate!TypeOK, OneHolds, Gate!GivesUp, Gate!Goto
<1>3. \A d \in Calls : /\ rAt'[d] = "stop" => rAt[d] = "stop"
                       /\ rAt'[d] = "verify" <=> rAt[d] = "verify"
  BY DEF GateInv, Gate!TypeOK, Gate!GivesUp, Gate!Goto
<1> QED
  BY <1>1, <1>2, <1>3, Unspaced DEF Gate!GivesUp, Stopping, Verifying

(* The clock of the gate is reset three seconds after the last restart,    *)
(* and no start is being judged then.                                      *)
LEMMA GoKeeps == ASSUME NEW c \in Calls, GateInv, Gate!Go(c) PROVE GateInv'
<1> USE CallsOfProcesses
<1> DEFINE q == ProcOf[c]
<1>1. /\ GateTypes /\ q \in Procs /\ rAt[c] = "wait" /\ rSince[q] = 15
      /\ rSince' = [rSince EXCEPT ![q] = 0] /\ rAt' = [rAt EXCEPT ![c] = "stop"]
      /\ UNCHANGED <<rAge, rCount, rStable, rGated>>
  BY GateNumbers DEF GateInv, Gate!Go, Gate!Goto, Gate!Spacing
<1>2. Gate!TypeOK'
  <2>1. rSince' \in [Procs -> 0..15] /\ rAt' \in [Calls -> Gate!Phases]
    BY <1>1 DEF GateTypes, Gate!Phases
  <2>2. GateTypes'
    BY <1>1, <2>1 DEF GateTypes
  <2> QED
    BY <2>2 DEF GateTypes, Gate!TypeOK, Gate!Interval, Gate!Burst, Gate!Spacing, Gate!Dwell
<1>3. OneHolds'
  BY <1>1 DEF GateInv, GateTypes, OneHolds
<1>4. ~Verifying(q) /\ \A p \in Procs : Verifying(p)' <=> Verifying(p)
  BY <1>1 DEF GateInv, GateTypes, OneHolds, Verifying
<1>5. Spaced'
  <2> SUFFICES ASSUME NEW p \in Procs, rAge <= Gate!Interval, rGated[p] >= 1 PROVE Aged(p)'
    BY <1>1 DEF Spaced
  <2>1. Aged(p)
    BY DEF GateInv, Spaced
  <2>2. rAge \in 0..51 /\ rGated[p] \in 0..5 /\ rSince[p] \in 0..15
    BY <1>1 DEF GateTypes
  <2>3. CASE p = q
    <3>1. rSince'[p] = 0
      BY <1>1, <2>3 DEF GateTypes
    <3>2. rAge >= 6 /\ (rGated[p] >= 2 => rAge >= 15 * rGated[p] - 9)
      BY <1>1, <1>4, <2>1, <2>2, <2>3 DEF Aged
    <3>3. rAge >= 15 * rGated[p] - 9
      BY <2>2, <3>2
    <3> QED
      BY <1>1, <1>4, <2>2, <2>3, <3>1, <3>2, <3>3 DEF Aged
  <2>4. CASE p # q
    <3>1. rSince'[p] = rSince[p]
      BY <1>1, <2>4 DEF GateTypes
    <3>2. Stopping(p)' => Stopping(p)
      BY <1>1, <2>4 DEF GateTypes, Stopping
    <3> QED
      BY <1>1, <1>4, <2>1, <3>1, <3>2 DEF Aged
  <2> QED
    BY <2>3, <2>4
<1>6. Gate!FourPerWindow'
  BY <1>1 DEF GateInv, Gate!FourPerWindow
<1> QED
  BY <1>2, <1>3, <1>5, <1>6 DEF GateInv

(* A gated start is the fifth only after the window is over.               *)
LEMMA StartKeeps == ASSUME NEW c \in Calls, GateInv, Gate!Start(c) PROVE GateInv'
<1> USE CallsOfProcesses
<1> DEFINE q == ProcOf[c]
<1>1. /\ GateTypes /\ q \in Procs /\ rAt[c] = "stop" /\ rSince' = rSince
      /\ rStable' = [rStable EXCEPT ![q] = 0] /\ rAt' = [rAt EXCEPT ![c] = "verify"]
      /\ Gate!Counted({q})
  BY GateNumbers DEF GateInv, Gate!Start, Gate!Goto
<1>2. OneHolds'
  BY <1>1 DEF GateInv, GateTypes, OneHolds
<1>3. rStable' \in [Procs -> 0..6] /\ rAt' \in [Calls -> Gate!Phases]
  BY <1>1 DEF GateTypes, Gate!Phases
<1>4. Stopping(q) /\ ~Stopping(q)' /\ Verifying(q)'
  BY <1>1 DEF GateInv, GateTypes, OneHolds, Stopping, Verifying
<1>5. \A p \in Procs \ {q} :
        (Stopping(p)' <=> Stopping(p)) /\ (Verifying(p)' <=> Verifying(p))
  BY <1>1 DEF GateTypes, Stopping, Verifying
<1>6. CASE rAge > Gate!Interval
  <2>1. rAge' = 0 /\ rCount' = 1 /\ rGated' = [p \in Procs |-> IF p \in {q} THEN 1 ELSE 0]
    BY <1>1, <1>6 DEF Gate!Counted, Gate!Interval, GateTypes
  <2>2. GateTypes'
    BY <1>1, <1>3, <2>1 DEF GateTypes
  <2>3. Spaced'
    <3>1. rGated'[q] = 1 /\ rStable'[q] = 0 /\ rAge' = 0
      BY <1>1, <2>1 DEF GateTypes
    <3>2. Aged(q)'
      BY <1>4, <3>1 DEF Aged
    <3> QED
      BY <2>1, <3>2 DEF Spaced
  <2>4. Gate!FourPerWindow'
    BY <2>1 DEF Gate!FourPerWindow
  <2>5. Gate!TypeOK'
    BY <2>2 DEF GateTypes, Gate!TypeOK, Gate!Interval, Gate!Burst, Gate!Spacing, Gate!Dwell
  <2> QED
    BY <1>2, <2>3, <2>4, <2>5 DEF GateInv
<1>7. CASE rAge <= Gate!Interval
  <2>1. /\ rAge' = rAge /\ rCount < 5 /\ rCount' = rCount + 1
        /\ rGated' = [p \in Procs |-> IF p \in {q} THEN rGated[p] + 1 ELSE rGated[p]]
    BY <1>1, <1>7 DEF Gate!Counted, Gate!Interval, Gate!Burst, GateTypes
  <2>2. rGated[q] \in 0..5 /\ rSince[q] \in 0..15 /\ rAge \in 0..50
    BY <1>1, <1>7 DEF GateTypes, Gate!Interval
  <2>3. rGated[q] >= 1 => rAge >= 15 * rGated[q] - 9 + rSince[q]
    BY <1>1, <1>4, <1>7 DEF GateInv, Spaced, Aged
  <2>4. rGated'[q] = rGated[q] + 1 /\ rStable'[q] = 0 /\ rSince'[q] = rSince[q]
    BY <1>1, <2>1 DEF GateTypes
  <2>5. rGated'[q] <= 4
    BY <2>2, <2>3, <2>4
  <2>6. Aged(q)'
    <3>1. rGated'[q] >= 2 => rAge >= 15 * rGated'[q] - 24 + rSince'[q]
      BY <2>2, <2>3, <2>4
    <3> QED
      BY <1>4, <2>1, <2>2, <2>4, <3>1 DEF Aged
  <2>7. Spaced'
    <3> SUFFICES ASSUME NEW p \in Procs, rGated'[p] >= 1 PROVE Aged(p)'
      BY DEF Spaced
    <3>1. CASE p # q
      <4>1. rGated'[p] = rGated[p] /\ rStable'[p] = rStable[p]
        BY <1>1, <2>1, <3>1 DEF GateTypes
      <4>2. Aged(p)
        BY <1>7, <4>1 DEF GateInv, Spaced
      <4> QED
        BY <1>1, <1>5, <2>1, <3>1, <4>1, <4>2 DEF Aged
    <3> QED
      BY <2>6, <3>1
  <2>8. Gate!FourPerWindow'
    BY <1>1, <2>1, <2>5 DEF GateInv, Gate!FourPerWindow
  <2>9. GateTypes'
    <3>1. rGated' \in [Procs -> 0..5]
      BY <1>1, <2>1, <2>4, <2>5, <2>2 DEF GateTypes
    <3>2. rCount' \in 0..5 /\ rAge' \in 0..51
      BY <1>1, <2>1 DEF GateTypes
    <3> QED
      BY <1>1, <1>3, <3>1, <3>2 DEF GateTypes
  <2>10. Gate!TypeOK'
    BY <2>9 DEF GateTypes, Gate!TypeOK, Gate!Interval, Gate!Burst, Gate!Spacing, Gate!Dwell
  <2> QED
    BY <1>2, <2>7, <2>8, <2>10 DEF GateInv
<1> QED
  BY <1>1, <1>6, <1>7 DEF Gate!Interval, GateTypes

LEMMA UngatedKeeps == ASSUME GateInv, Gate!Ungated PROVE GateInv'
<1>1. rAge \in 0..51 /\ rGated \in [Procs -> 0..5] /\ rCount \in 0..5
  BY GateNumbers DEF GateInv, GateTypes
<1>2. CASE rAge > Gate!Interval
  <2>1. rAge' = 0 /\ rCount' = 1 /\ rGated' = [p \in Procs |-> 0]
    BY <1>1, <1>2 DEF Gate!Ungated, Gate!Counted, Gate!Interval
  <2>2. Gate!TypeOK'
    BY <2>1 DEF GateInv, Gate!TypeOK, Gate!Ungated, Gate!Interval, Gate!Burst
  <2>3. Spaced' /\ Gate!FourPerWindow'
    BY <2>1 DEF Spaced, Gate!FourPerWindow
  <2> QED
    BY <2>2, <2>3 DEF GateInv, OneHolds, Gate!Ungated
<1>3. CASE rAge <= Gate!Interval
  <2>1. rAge' = rAge /\ rCount < Gate!Burst /\ rCount' = rCount + 1
        /\ rGated' = [p \in Procs |-> rGated[p]]
    BY <1>1, <1>3 DEF Gate!Ungated, Gate!Counted, Gate!Interval
  <2>2. rGated' = rGated
    BY <1>1, <2>1
  <2>3. Gate!TypeOK'
    BY <1>1, <2>1, <2>2 DEF GateInv, Gate!TypeOK, Gate!Ungated, Gate!Burst
  <2>4. Spaced' /\ Gate!FourPerWindow'
    BY <2>1, <2>2
    DEF GateInv, Spaced, Aged, Stopping, Verifying, Gate!FourPerWindow, Gate!Ungated
  <2> QED
    BY <2>3, <2>4 DEF GateInv, OneHolds, Gate!Ungated
<1> QED
  BY <1>1, <1>2, <1>3 DEF Gate!Interval

LEMMA ClearKeeps == ASSUME GateInv, Gate!ClearStartLimit PROVE GateInv'
<1>1. Gate!TypeOK'
  BY DEF GateInv, Gate!TypeOK, Gate!ClearStartLimit, Gate!WindowEnds, Gate!Interval, Gate!Burst
<1>2. OneHolds'
  BY DEF GateInv, OneHolds, Gate!ClearStartLimit
<1> QED
  BY <1>1, <1>2, WindowEndsKeeps DEF Gate!ClearStartLimit

LEMMA ProcessRestartsKeeps == ASSUME NEW q \in Procs, GateInv,
   Gate!ProcessRestarts(q) PROVE GateInv'
<1> USE CallsOfProcesses
<1>1. Gate!TypeOK'
  BY DEF GateInv, Gate!TypeOK, Gate!ProcessRestarts, Gate!Phases, Gate!Spacing, Gate!Dwell,
     Gate!Burst
<1>2. OneHolds'
  BY DEF GateInv, OneHolds, Gate!ProcessRestarts
<1>3. \A p \in Procs \ {q} :
        rSince'[p] = rSince[p] /\ rGated'[p] = rGated[p] /\ rStable'[p] = rStable[p]
  BY DEF GateInv, Gate!TypeOK, Gate!ProcessRestarts
<1>4. \A p \in Procs \ {q} :
        (Stopping(p)' <=> Stopping(p)) /\ (Verifying(p)' <=> Verifying(p))
  BY DEF GateInv, Gate!TypeOK, Stopping, Verifying, Gate!ProcessRestarts
<1>5. rAge' = rAge /\ rGated'[q] = 0
  BY DEF GateInv, Gate!TypeOK, Gate!ProcessRestarts
<1>6. Spaced'
  BY <1>3, <1>4, <1>5 DEF GateInv, Spaced, Aged
<1>7. Gate!FourPerWindow'
  BY <1>3, <1>5 DEF GateInv, Gate!FourPerWindow
<1> QED
  BY <1>1, <1>2, <1>6, <1>7 DEF GateInv

(* All clocks advance together.                                            *)
LEMMA GateTickKeeps == ASSUME GateInv, Gate!Tick PROVE GateInv'
<1> USE CallsOfProcesses
<1>1. GateTypes
  BY GateNumbers DEF GateInv
<1>2. Gate!TypeOK'
  BY DEF GateInv, Gate!TypeOK, Gate!Tick, Gate!WindowEnds, Gate!Interval, Gate!Spacing,
     Gate!Dwell, Gate!Burst
<1>3. OneHolds'
  BY DEF GateInv, OneHolds, Gate!Tick
<1>4. CASE rAge < Gate!Interval
  <2>1. rAge' = rAge + 1 /\ rGated' = rGated /\ rAt' = rAt
    BY <1>4 DEF Gate!Tick
  <2>2. Spaced'
    <3> SUFFICES ASSUME NEW p \in Procs, rGated[p] >= 1 PROVE Aged(p)'
      BY <2>1 DEF Spaced
    <3>1. rAge \in 0..51 /\ rGated[p] \in 0..5 /\ rSince[p] \in 0..15 /\ rStable[p] \in 0..6
      BY <1>1 DEF GateTypes
    <3>2. Aged(p)
      BY <1>4, <3>1 DEF GateInv, Spaced, Gate!Interval
    <3>3. rSince'[p] \in 0..15 /\ rSince'[p] <= rSince[p] + 1
      BY <3>1 DEF Gate!Tick, Gate!Spacing
    <3>4. rStable'[p] \in 0..6 /\ rStable'[p] <= rStable[p] + 1
      BY <3>1 DEF Gate!Tick, Gate!Dwell
    <3>5. (Stopping(p)' <=> Stopping(p)) /\ (Verifying(p)' <=> Verifying(p))
      BY <2>1 DEF Stopping, Verifying
    <3> QED
      BY <2>1, <3>1, <3>2, <3>3, <3>4, <3>5 DEF Aged
  <2>3. Gate!FourPerWindow'
    BY <2>1 DEF GateInv, Gate!FourPerWindow
  <2> QED
    BY <1>2, <1>3, <2>2, <2>3 DEF GateInv
<1>5. CASE ~(rAge < Gate!Interval)
  BY <1>2, <1>3, <1>5, WindowEndsKeeps DEF Gate!Tick
<1> QED
  BY <1>4, <1>5

LEMMA GateInductive == GateInv /\ [Gate!Next]_Gate!vars => GateInv'
<1> SUFFICES ASSUME GateInv, [Gate!Next]_Gate!vars PROVE GateInv'
  OBVIOUS
<1>1. CASE Gate!Ungated
  BY <1>1, UngatedKeeps
<1>2. CASE Gate!ClearStartLimit
  BY <1>2, ClearKeeps
<1>3. CASE Gate!Tick
  BY <1>3, GateTickKeeps
<1>4. ASSUME NEW p \in Procs, Gate!ProcessRestarts(p) PROVE GateInv'
  BY <1>4, ProcessRestartsKeeps
<1>5. ASSUME NEW c \in Calls,
             Gate!Call(c) \/ Gate!Lock(c) \/ Gate!Go(c) \/ Gate!Start(c)
                \/ Gate!Limited(c) \/ Gate!GivesUp(c) \/ Gate!Return(c)
      PROVE  GateInv'
  BY <1>5, CallKeeps, LockKeeps, GoKeeps, StartKeeps, LimitedKeeps, GivesUpKeeps, ReturnKeeps
<1>6. CASE UNCHANGED Gate!vars
  BY <1>6 DEF Gate!vars, GateInv, Gate!TypeOK, OneHolds, Spaced, Aged, Stopping, Verifying,
     Gate!FourPerWindow
<1> QED
  BY <1>1, <1>2, <1>3, <1>4, <1>5, <1>6 DEF Gate!Next

LEMMA GateInvariance == PartsSpec => []GateInv
  BY GateRuns, GateBegins, GateInductive, PTL

(***************************************************************************)
(* Types.                                                                  *)
(***************************************************************************)
THEOREM GateTypeCorrect == PartsSpec => []Gate!TypeOK
<1>1. GateInv => Gate!TypeOK
  BY DEF GateInv
<1> QED
  BY <1>1, GateInvariance, PTL

(***************************************************************************)
(* Four gated starts per window of systemd, as long as the process lives,  *)
(* however long a stop takes.                                              *)
(***************************************************************************)
THEOREM AtMostFour == PartsSpec => []FourPerWindow
<1>1. GateInv => FourPerWindow
  BY DEF GateInv, FourPerWindow
<1> QED
  BY <1>1, GateInvariance, PTL

(* Only Limited refuses, and the call it refuses was about to start: the   *)
(* window is too young for more than three gated starts before it.         *)
LEMMA RefusedLate ==
  ASSUME GateInv, [Gate!Next]_Gate!vars, NEW c \in Calls,
         rAt[c] # "limited", rAt'[c] = "limited"
  PROVE  rCount - rGated[ProcOf[c]] >= 2
<1> USE CallsOfProcesses
<1>1. Gate!Limited(c)
  <2>1. ASSUME NEW d \in Calls, NEW f \in Gate!Phases \ {"limited"}, Gate!Goto(d, f)
        PROVE  FALSE
    BY <2>1 DEF Gate!Goto, GateInv, Gate!TypeOK
  <2>2. ASSUME NEW d \in Calls, Gate!Limited(d) PROVE d = c
    BY <2>2 DEF Gate!Limited, Gate!Goto, GateInv, Gate!TypeOK
  <2>3. rAt' # rAt /\ ~\E p \in Procs : Gate!ProcessRestarts(p)
    BY DEF Gate!ProcessRestarts, GateInv, Gate!TypeOK
  <2>4. \E d \in Calls :
          \/ Gate!Call(d) \/ Gate!Lock(d) \/ Gate!Go(d) \/ Gate!Start(d)
          \/ Gate!Limited(d) \/ Gate!GivesUp(d) \/ Gate!Return(d)
    BY <2>3 DEF Gate!Next, Gate!vars, Gate!Ungated, Gate!ClearStartLimit, Gate!Tick
  <2> QED
    BY <2>1, <2>2, <2>4 DEF Gate!Call, Gate!Lock, Gate!Go, Gate!Start, Gate!GivesUp,
       Gate!Return, Gate!Phases
<1> DEFINE q == ProcOf[c]
<1>2. rAge \in 0..50 /\ rCount = 5 /\ rGated[q] \in 0..5 /\ rSince[q] \in 0..15
  BY <1>1, GateNumbers DEF Gate!Limited, Gate!Refused, GateInv, GateTypes, Gate!Interval,
     Gate!Burst
<1>3. rGated[q] >= 1 => rAge >= 15 * rGated[q] - 9 + rSince[q]
  BY <1>1, <1>2 DEF Gate!Limited, GateInv, Spaced, Aged, Stopping, Gate!Interval
<1> QED
  BY <1>2, <1>3

(***************************************************************************)
(* A gated start is refused only after two starts in the window that its   *)
(* gate did not see.                                                       *)
(***************************************************************************)
THEOREM LeavesHeadroom == PartsSpec => Headroom
<1>1. GateInv /\ [Gate!Next]_Gate!vars =>
        [\A c \in Calls : rAt[c] # "limited" /\ rAt'[c] = "limited"
                           => rCount - rGated[ProcOf[c]] >= 2]_Gate!vars
  BY RefusedLate
<1> QED
  BY <1>1, GateRuns, GateInvariance, PTL DEF Headroom, Gate!Headroom

-----------------------------------------------------------------------------
(* The panel's update of itself.  As long as no two updates have           *)
(* overlapped, at most one is not over, and where it stands says which     *)
(* build runs and what can be gone back to.                                *)
LEMMA PanelRuns == PartsSpec => SelfUpdate!Init /\ [][SelfUpdate!Next]_SelfUpdate!vars
<1>1. PartsInit => SelfUpdate!Init
  BY DEF PartsInit
<1>2. [PartsNext]_partsVars => [SelfUpdate!Next]_SelfUpdate!vars
  BY DEF PartsNext, partsVars, panelVars, SelfUpdate!vars, GateMoves, ApplyMoves,
         PolicyMoves, FirewallMoves, CoreMoves, PanelMoves, LoginMoves,
         EditorMoves, PageMoves
<1>3. QED
  BY <1>1, <1>2, PTL DEF PartsSpec

AllOver == \A u \in SelfUpdate!Updates : SelfUpdate!Over(u)
OneUpdate ==
  \A u, v \in SelfUpdate!Updates : ~SelfUpdate!Over(u) /\ ~SelfUpdate!Over(v) => u = v

(* The panel runs its executable ...                                       *)
Steady ==
  /\ uServing # SelfUpdate!Down /\ uServing \notin Broken
  /\ uBin = uServing /\ uLastServed = uServing
(* ... or what has been moved aside ...                                    *)
Held ==
  /\ uServing # SelfUpdate!Down /\ uServing \notin Broken
  /\ uPrevious = uServing /\ uLastServed = uServing
(* ... or there is something to go back to.                                *)
Judged ==
  /\ uBin # SelfUpdate!None /\ uPrevious # SelfUpdate!None
  /\ uPrevious \notin Broken /\ uLastServed \in {uBin, uPrevious}

UpdatePlace(u) ==
  /\ uStep[u] \in {"stage", "aside"} => Steady
  /\ uStep[u] \in {"copy", "schedule", "restore"} => Held
  /\ uStep[u] \in {"schedule", "restore"} => uBin # SelfUpdate!None
  /\ uStep[u] # "idle" => uUnit[u] = "none"
  /\ uUnit[u] = "timer" => Judged /\ uServing \in {SelfUpdate!Down, uBin, uPrevious}
  /\ uUnit[u] = "watch" => Judged /\ uServing \in {SelfUpdate!Down, uBin}
  /\ uUnit[u] = "fallback" => Judged /\ uServing = SelfUpdate!Down

(* What runs can run, and is the last that did.                            *)
ServingRuns ==
  uServing # SelfUpdate!Down => uServing \notin Broken /\ uLastServed = uServing

PanelKept ==
  uCalm =>
    /\ OneUpdate
    /\ AllOver => Steady
    /\ \A u \in SelfUpdate!Updates : UpdatePlace(u)

PanelInv == SelfUpdate!TypeOK /\ ServingRuns /\ PanelKept

(* Its types.                                                              *)
DiskOK ==
  /\ uBin \in SelfUpdate!Builds \cup {SelfUpdate!None}
  /\ uPrevious \in SelfUpdate!Builds \cup {SelfUpdate!None}
ServiceOK ==
  /\ uServing \in SelfUpdate!Builds \cup {SelfUpdate!Down}
  /\ uLastServed \in SelfUpdate!Builds
PlaceOK ==
  /\ uStep \in [SelfUpdate!Updates -> SelfUpdate!Steps]
  /\ uOutcome \in [SelfUpdate!Updates -> SelfUpdate!Outcomes]
WorkOK ==
  /\ uRelease \in SelfUpdate!Builds
  /\ uPending \in BOOLEAN
  /\ uOwn \in [SelfUpdate!Updates -> SelfUpdate!Builds]
  /\ uStaged \in [SelfUpdate!Updates -> SelfUpdate!Builds]
  /\ uUnit \in [SelfUpdate!Updates -> SelfUpdate!UnitStates]
  /\ uCalm \in BOOLEAN

LEMMA PanelTypeParts == SelfUpdate!TypeOK <=> DiskOK /\ ServiceOK /\ PlaceOK /\ WorkOK
  BY DEF SelfUpdate!TypeOK, DiskOK, ServiceOK, PlaceOK, WorkOK

LEMMA GotoPlace ==
  ASSUME PlaceOK, NEW u \in SelfUpdate!Updates, NEW s \in SelfUpdate!Steps,
         SelfUpdate!Goto(u, s)
  PROVE  PlaceOK'
  BY DEF PlaceOK, SelfUpdate!Goto

LEMMA ReturnPlace ==
  ASSUME PlaceOK, NEW u \in SelfUpdate!Updates, NEW o \in SelfUpdate!Outcomes,
         SelfUpdate!Return(u, o)
  PROVE  PlaceOK'
  BY DEF PlaceOK, SelfUpdate!Return, SelfUpdate!Steps

LEMMA LaunchedOK ==
  ASSUME PlaceOK, ServiceOK, NEW b \in SelfUpdate!Builds \cup {SelfUpdate!None},
         SelfUpdate!Launched(b)
  PROVE  PlaceOK' /\ ServiceOK'
<1>1. PlaceOK'
  BY DEF PlaceOK, SelfUpdate!Launched, SelfUpdate!Steps
<1>2. ServiceOK'
  BY DEF ServiceOK, SelfUpdate!Launched, SelfUpdate!Launch, SelfUpdate!Down, SelfUpdate!None
<1> QED
  BY <1>1, <1>2

LEMMA UpdateTypes ==
  ASSUME SelfUpdate!TypeOK, NEW u \in SelfUpdate!Updates,
         SelfUpdate!Begin(u) \/ SelfUpdate!Stage(u) \/ SelfUpdate!Aside(u)
           \/ SelfUpdate!Copy(u) \/ SelfUpdate!Schedule(u) \/ SelfUpdate!Restore(u)
           \/ SelfUpdate!Fire(u) \/ SelfUpdate!Judge(u) \/ SelfUpdate!Fallback(u)
           \/ SelfUpdate!Interrupted(u)
  PROVE  DiskOK' /\ ServiceOK' /\ PlaceOK' /\ WorkOK'
<1> USE PanelTypeParts DEF SelfUpdate!disk, SelfUpdate!env
<1>1. CASE SelfUpdate!Begin(u)
  <2>1. DiskOK' /\ ServiceOK'
    BY <1>1 DEF SelfUpdate!Begin, DiskOK, ServiceOK
  <2>2. PlaceOK'
    BY <1>1, GotoPlace, ReturnPlace DEF SelfUpdate!Begin, SelfUpdate!Steps,
       SelfUpdate!Outcomes
  <2>3. uOwn' \in [SelfUpdate!Updates -> SelfUpdate!Builds]
        /\ uUnit' \in [SelfUpdate!Updates -> SelfUpdate!UnitStates]
    BY <1>1 DEF SelfUpdate!Begin, WorkOK, DiskOK, ServiceOK, SelfUpdate!UnitStates,
       SelfUpdate!None, SelfUpdate!Down
  <2>4. uCalm' \in BOOLEAN
    BY <1>1 DEF SelfUpdate!Begin, WorkOK
  <2> QED
    BY <1>1, <2>1, <2>2, <2>3, <2>4 DEF SelfUpdate!Begin, WorkOK
<1>2. CASE SelfUpdate!Stage(u)
  <2>1. DiskOK'
    BY <1>2 DEF SelfUpdate!Stage, DiskOK, WorkOK, SelfUpdate!None
  <2>2. PlaceOK' /\ ServiceOK'
    BY <1>2, GotoPlace, ReturnPlace, LaunchedOK
       DEF SelfUpdate!Stage, SelfUpdate!Steps, SelfUpdate!Outcomes, DiskOK, ServiceOK,
          PlaceOK
  <2>3. WorkOK'
    BY <1>2 DEF SelfUpdate!Stage, WorkOK, SelfUpdate!UnitStates, SelfUpdate!Launched,
       DiskOK, SelfUpdate!Cut
  <2> QED
    BY <2>1, <2>2, <2>3
<1>3. CASE SelfUpdate!Aside(u)
  <2>1. DiskOK'
    BY <1>3 DEF SelfUpdate!Aside, DiskOK, WorkOK, SelfUpdate!None
  <2>2. PlaceOK' /\ ServiceOK'
    BY <1>3, GotoPlace, ReturnPlace, LaunchedOK
       DEF SelfUpdate!Aside, SelfUpdate!Steps, SelfUpdate!Outcomes, DiskOK, ServiceOK,
          PlaceOK
  <2>3. WorkOK'
    BY <1>3 DEF SelfUpdate!Aside, WorkOK, SelfUpdate!UnitStates, SelfUpdate!Launched,
       DiskOK, SelfUpdate!Cut
  <2> QED
    BY <2>1, <2>2, <2>3
<1>4. CASE SelfUpdate!Copy(u)
  <2>1. DiskOK'
    BY <1>4 DEF SelfUpdate!Copy, SelfUpdate!PutBack, DiskOK, WorkOK, SelfUpdate!None
  <2>2. PlaceOK' /\ ServiceOK'
    BY <1>4, GotoPlace, ReturnPlace, LaunchedOK
       DEF SelfUpdate!Copy, SelfUpdate!Steps, SelfUpdate!Outcomes, DiskOK, ServiceOK,
          PlaceOK
  <2>3. WorkOK'
    BY <1>4 DEF SelfUpdate!Copy, SelfUpdate!PutBack, WorkOK, SelfUpdate!UnitStates,
       SelfUpdate!Launched, DiskOK, SelfUpdate!Cut
  <2> QED
    BY <2>1, <2>2, <2>3
<1>5. CASE SelfUpdate!Schedule(u)
  <2>1. DiskOK'
    BY <1>5 DEF SelfUpdate!Schedule, SelfUpdate!Watched, DiskOK, WorkOK, SelfUpdate!None
  <2>2. PlaceOK' /\ ServiceOK'
    BY <1>5, GotoPlace, ReturnPlace, LaunchedOK
       DEF SelfUpdate!Schedule, SelfUpdate!Steps, SelfUpdate!Outcomes, DiskOK, ServiceOK,
          PlaceOK, SelfUpdate!Watched
  <2>3. WorkOK'
    BY <1>5 DEF SelfUpdate!Schedule, SelfUpdate!Watched, WorkOK, SelfUpdate!UnitStates,
       SelfUpdate!Launched, DiskOK, SelfUpdate!Cut
  <2> QED
    BY <2>1, <2>2, <2>3
<1>6. CASE SelfUpdate!Restore(u)
  <2>1. DiskOK'
    BY <1>6 DEF SelfUpdate!Restore, SelfUpdate!PutBack, DiskOK, WorkOK, SelfUpdate!None
  <2>2. PlaceOK' /\ ServiceOK'
    BY <1>6, GotoPlace, ReturnPlace, LaunchedOK
       DEF SelfUpdate!Restore, SelfUpdate!Steps, SelfUpdate!Outcomes, DiskOK, ServiceOK,
          PlaceOK
  <2>3. WorkOK'
    BY <1>6 DEF SelfUpdate!Restore, SelfUpdate!PutBack, WorkOK, SelfUpdate!UnitStates,
       SelfUpdate!Launched, DiskOK, SelfUpdate!Cut
  <2> QED
    BY <2>1, <2>2, <2>3
<1>7. CASE SelfUpdate!Fire(u)
  <2>1. DiskOK'
    BY <1>7 DEF SelfUpdate!Fire, DiskOK, WorkOK, SelfUpdate!None
  <2>2. PlaceOK' /\ ServiceOK'
    BY <1>7, GotoPlace, ReturnPlace, LaunchedOK
       DEF SelfUpdate!Fire, SelfUpdate!Steps, SelfUpdate!Outcomes, DiskOK, ServiceOK,
          PlaceOK
  <2>3. WorkOK'
    BY <1>7 DEF SelfUpdate!Fire, WorkOK, SelfUpdate!UnitStates, SelfUpdate!Launched,
       DiskOK, SelfUpdate!Cut
  <2> QED
    BY <2>1, <2>2, <2>3
<1>8. CASE SelfUpdate!Judge(u)
  <2>1. DiskOK'
    BY <1>8 DEF SelfUpdate!Judge, DiskOK, WorkOK, SelfUpdate!None
  <2>2. PlaceOK' /\ ServiceOK'
    BY <1>8, GotoPlace, ReturnPlace, LaunchedOK
       DEF SelfUpdate!Judge, SelfUpdate!Steps, SelfUpdate!Outcomes, DiskOK, ServiceOK,
          PlaceOK
  <2>3. WorkOK'
    BY <1>8 DEF SelfUpdate!Judge, WorkOK, SelfUpdate!UnitStates, SelfUpdate!Launched,
       DiskOK, SelfUpdate!Cut
  <2> QED
    BY <2>1, <2>2, <2>3
<1>9. CASE SelfUpdate!Fallback(u)
  <2>1. DiskOK'
    BY <1>9 DEF SelfUpdate!Fallback, DiskOK, WorkOK, SelfUpdate!None
  <2>2. PlaceOK' /\ ServiceOK'
    BY <1>9, GotoPlace, ReturnPlace, LaunchedOK
       DEF SelfUpdate!Fallback, SelfUpdate!Steps, SelfUpdate!Outcomes, DiskOK, ServiceOK,
          PlaceOK
  <2>3. WorkOK'
    BY <1>9 DEF SelfUpdate!Fallback, WorkOK, SelfUpdate!UnitStates, SelfUpdate!Launched,
       DiskOK, SelfUpdate!Cut
  <2> QED
    BY <2>1, <2>2, <2>3
<1>10. CASE SelfUpdate!Interrupted(u)
  <2>1. DiskOK'
    BY <1>10 DEF SelfUpdate!Interrupted, DiskOK, WorkOK, SelfUpdate!None
  <2>2. PlaceOK' /\ ServiceOK'
    BY <1>10, GotoPlace, ReturnPlace, LaunchedOK
       DEF SelfUpdate!Interrupted, SelfUpdate!Steps, SelfUpdate!Outcomes, DiskOK,
          ServiceOK, PlaceOK
  <2>3. WorkOK'
    BY <1>10 DEF SelfUpdate!Interrupted, WorkOK, SelfUpdate!UnitStates,
       SelfUpdate!Launched, DiskOK, SelfUpdate!Cut
  <2> QED
    BY <2>1, <2>2, <2>3
<1> QED
  BY <1>1, <1>2, <1>3, <1>4, <1>5, <1>6, <1>7, <1>8, <1>9, <1>10

LEMMA ServiceTypes ==
  ASSUME SelfUpdate!BuildAssumption, SelfUpdate!TypeOK, SelfUpdate!RestartPanel
     \/ SelfUpdate!FirewallChange \/ SelfUpdate!Publish
  PROVE  DiskOK' /\ ServiceOK' /\ PlaceOK' /\ WorkOK'
<1> USE PanelTypeParts DEF SelfUpdate!disk
<1>1. CASE SelfUpdate!RestartPanel
  <2>1. DiskOK' /\ PlaceOK' /\ ServiceOK'
    BY <1>1, LaunchedOK DEF SelfUpdate!RestartPanel, DiskOK
  <2>2. WorkOK'
    BY <1>1 DEF SelfUpdate!RestartPanel, SelfUpdate!Launched, SelfUpdate!env, WorkOK,
       SelfUpdate!Cut
  <2> QED
    BY <2>1, <2>2
<1>2. CASE SelfUpdate!FirewallChange
  BY <1>2 DEF SelfUpdate!FirewallChange, DiskOK, ServiceOK, PlaceOK, WorkOK
<1>3. CASE SelfUpdate!Publish
  BY <1>3 DEF SelfUpdate!Publish, DiskOK, ServiceOK, PlaceOK, WorkOK, SelfUpdate!Builds,
     SelfUpdate!BuildAssumption
<1> QED
  BY <1>1, <1>2, <1>3

LEMMA PanelTypes ==
  ASSUME SelfUpdate!BuildAssumption, SelfUpdate!TypeOK, [SelfUpdate!Next]_SelfUpdate!vars
  PROVE  SelfUpdate!TypeOK'
<1>1. CASE UNCHANGED SelfUpdate!vars
  BY <1>1 DEF SelfUpdate!vars, SelfUpdate!TypeOK, SelfUpdate!disk, SelfUpdate!env
<1>2. CASE SelfUpdate!Next
  <2>1. DiskOK' /\ ServiceOK' /\ PlaceOK' /\ WorkOK'
    BY <1>2, UpdateTypes, ServiceTypes DEF SelfUpdate!Next
  <2> QED
    BY <2>1 DEF SelfUpdate!TypeOK, DiskOK, ServiceOK, PlaceOK, WorkOK
<1> QED
  BY <1>1, <1>2

(* One update is enough to look at: the others are over.                   *)
LEMMA LastUpdate ==
  ASSUME NEW u \in SelfUpdate!Updates,
         \A v \in SelfUpdate!Updates \ {u} : SelfUpdate!Over(v)',
         UpdatePlace(u)', SelfUpdate!Over(u)' => Steady'
  PROVE  PanelKept'
<1>1. \A v \in SelfUpdate!Updates \ {u} : UpdatePlace(v)'
  BY DEF SelfUpdate!Over, UpdatePlace
<1>2. OneUpdate'
  BY DEF OneUpdate
<1>3. AllOver' => Steady'
  BY DEF AllOver
<1> QED
  BY <1>1, <1>2, <1>3 DEF PanelKept

LEMMA OthersOver ==
  ASSUME SelfUpdate!TypeOK, PanelKept, uCalm, NEW u \in SelfUpdate!Updates,
         ~SelfUpdate!Over(u),
         \A v \in SelfUpdate!Updates \ {u} :
           uStep'[v] \in {uStep[v], "idle"} /\ uUnit'[v] = uUnit[v]
  PROVE  \A v \in SelfUpdate!Updates \ {u} : SelfUpdate!Over(v)'
<1>1. \A v \in SelfUpdate!Updates \ {u} : SelfUpdate!Over(v)
  BY DEF PanelKept, OneUpdate
<1> QED
  BY <1>1 DEF SelfUpdate!Over

LEMMA BeginKeeps ==
  ASSUME SelfUpdate!TypeOK, PanelKept, NEW u \in SelfUpdate!Updates, SelfUpdate!Begin(u)
  PROVE  PanelKept'
<1> SUFFICES ASSUME uCalm' PROVE PanelKept'
  BY DEF PanelKept
<1>1. uCalm /\ AllOver
  BY DEF SelfUpdate!Begin, AllOver
<1>2. Steady'
  BY <1>1 DEF PanelKept, SelfUpdate!Begin, Steady, SelfUpdate!disk
<1>3. \A v \in SelfUpdate!Updates \ {u} : SelfUpdate!Over(v)'
  BY <1>1 DEF AllOver, SelfUpdate!Over, SelfUpdate!Begin, SelfUpdate!Goto,
     SelfUpdate!Return, SelfUpdate!TypeOK
<1>4. uStep'[u] \in {"idle", "stage"} /\ uUnit'[u] = "none"
  BY DEF SelfUpdate!Begin, SelfUpdate!Goto, SelfUpdate!Return, SelfUpdate!TypeOK
<1>5. UpdatePlace(u)'
  BY <1>2, <1>4 DEF UpdatePlace
<1> QED
  BY <1>2, <1>3, <1>5, LastUpdate

(* The steps of a call that run nothing.                                   *)
LEMMA UpdateKeeps ==
  ASSUME SelfUpdate!TypeOK, PanelKept, NEW u \in SelfUpdate!Updates,
         SelfUpdate!Stage(u) \/ SelfUpdate!Aside(u) \/ SelfUpdate!Copy(u)
           \/ SelfUpdate!Schedule(u) \/ SelfUpdate!Restore(u) \/ SelfUpdate!Interrupted(u)
  PROVE  PanelKept'
<1> SUFFICES ASSUME uCalm' PROVE PanelKept'
  BY DEF PanelKept
<1>1. uCalm /\ uStep[u] # "idle"
  BY DEF SelfUpdate!Stage, SelfUpdate!Aside, SelfUpdate!Copy, SelfUpdate!Schedule,
         SelfUpdate!Restore, SelfUpdate!Interrupted, SelfUpdate!PutBack, SelfUpdate!Watched
<1>2. UpdatePlace(u) /\ uUnit[u] = "none" /\ ~SelfUpdate!Over(u)
  BY <1>1 DEF PanelKept, UpdatePlace, SelfUpdate!Over
<1>3. \A v \in SelfUpdate!Updates \ {u} : uStep'[v] = uStep[v] /\ uUnit'[v] = uUnit[v]
  BY DEF SelfUpdate!Stage, SelfUpdate!Aside, SelfUpdate!Copy, SelfUpdate!Schedule,
         SelfUpdate!Restore, SelfUpdate!Interrupted, SelfUpdate!PutBack,
            SelfUpdate!Watched, SelfUpdate!Goto, SelfUpdate!Return, SelfUpdate!TypeOK
<1>4. \A v \in SelfUpdate!Updates \ {u} : SelfUpdate!Over(v)'
  BY <1>1, <1>2, <1>3, OthersOver
<1> USE DEF UpdatePlace, SelfUpdate!Over, Steady, Held, Judged, SelfUpdate!Goto,
            SelfUpdate!Return, SelfUpdate!disk, SelfUpdate!env, SelfUpdate!TypeOK
<1>5. CASE SelfUpdate!Stage(u)
  <2>1. Steady'
    BY <1>2, <1>5 DEF SelfUpdate!Stage
  <2>2. uStep'[u] \in {"idle", "aside"} /\ uUnit'[u] = "none"
    BY <1>2, <1>5 DEF SelfUpdate!Stage
  <2> QED
    BY <1>4, <2>1, <2>2, LastUpdate
<1>6. CASE SelfUpdate!Aside(u)
  <2>1. Steady /\ uUnit'[u] = "none"
    BY <1>2, <1>6 DEF SelfUpdate!Aside
  <2>2. CASE uStep'[u] = "copy"
    BY <1>4, <1>6, <2>1, <2>2, LastUpdate DEF SelfUpdate!Aside, SelfUpdate!Down,
       SelfUpdate!None
  <2>3. CASE uStep'[u] = "idle"
    BY <1>4, <1>6, <2>1, <2>3, LastUpdate DEF SelfUpdate!Aside, SelfUpdate!Down,
       SelfUpdate!None
  <2> QED
    BY <1>6, <2>2, <2>3 DEF SelfUpdate!Aside
<1>7. CASE SelfUpdate!Copy(u)
  <2>1. Held /\ uUnit'[u] = "none" /\ UNCHANGED <<uServing, uLastServed>>
    BY <1>2, <1>7 DEF SelfUpdate!Copy
  <2>2. CASE uStep'[u] = "schedule"
    <3>1. uBin' = uStaged[u] /\ uPrevious' = uPrevious
      BY <1>7, <2>2 DEF SelfUpdate!Copy
    <3>2. uBin' # SelfUpdate!None
      BY <3>1 DEF SelfUpdate!Builds, SelfUpdate!None
    <3> QED
      BY <1>4, <2>1, <2>2, <3>1, <3>2, LastUpdate
  <2>3. CASE uStep'[u] = "idle"
    <3>1. uBin' = uPrevious
      BY <1>7, <2>3 DEF SelfUpdate!Copy, SelfUpdate!PutBack
    <3> QED
      BY <1>4, <2>1, <2>3, <3>1, LastUpdate
  <2> QED
    BY <1>7, <2>2, <2>3 DEF SelfUpdate!Copy
<1>8. CASE SelfUpdate!Schedule(u)
  <2>1. Held /\ uBin # SelfUpdate!None /\ UNCHANGED <<uBin, uServing, uLastServed>>
    BY <1>2, <1>8 DEF SelfUpdate!Schedule
  <2>2. CASE SelfUpdate!Watched(u)
    BY <1>4, <1>8, <2>1, <2>2, LastUpdate DEF SelfUpdate!Watched, SelfUpdate!Down,
       SelfUpdate!None
  <2>3. CASE SelfUpdate!Goto(u, "restore") /\ UNCHANGED <<uPrevious, uUnit>>
    BY <1>2, <1>4, <1>8, <2>1, <2>3, LastUpdate
  <2> QED
    BY <1>8, <2>1, <2>2, <2>3 DEF SelfUpdate!Schedule
<1>9. CASE SelfUpdate!Restore(u)
  <2>1. Held /\ uUnit'[u] = "none" /\ uStep'[u] = "idle"
        /\ UNCHANGED <<uServing, uLastServed>>
    BY <1>2, <1>9 DEF SelfUpdate!Restore
  <2>2. uBin' = uPrevious
    BY <1>9, <2>1 DEF SelfUpdate!Restore, SelfUpdate!PutBack, SelfUpdate!Down,
       SelfUpdate!None
  <2> QED
    BY <1>4, <2>1, <2>2, LastUpdate
<1>10. CASE SelfUpdate!Interrupted(u)
  <2>1. uStep[u] \in {"stage", "aside"}
    BY <1>10 DEF SelfUpdate!Interrupted, SelfUpdate!Cut, SelfUpdate!Steps
  <2>2. Steady' /\ uStep'[u] = "idle" /\ uUnit'[u] = "none"
    BY <1>2, <1>10, <2>1 DEF SelfUpdate!Interrupted
  <2> QED
    BY <1>4, <2>2, LastUpdate
<1> QED
  BY <1>5, <1>6, <1>7, <1>8, <1>9, <1>10

(* The transient unit.                                                     *)
LEMMA UnitKeeps ==
  ASSUME SelfUpdate!TypeOK, ServingRuns, PanelKept, NEW u \in SelfUpdate!Updates,
         SelfUpdate!Fire(u) \/ SelfUpdate!Judge(u) \/ SelfUpdate!Fallback(u)
  PROVE  PanelKept'
<1> SUFFICES ASSUME uCalm' PROVE PanelKept'
  BY DEF PanelKept
<1>1. uCalm /\ uUnit[u] \in {"timer", "watch", "fallback"}
  BY DEF SelfUpdate!Fire, SelfUpdate!Judge, SelfUpdate!Fallback
<1>2. UpdatePlace(u) /\ Judged /\ uStep[u] = "idle" /\ ~SelfUpdate!Over(u)
  BY <1>1 DEF PanelKept, UpdatePlace, SelfUpdate!Over, SelfUpdate!TypeOK
<1>3. \A v \in SelfUpdate!Updates \ {u} : uStep'[v] \in {uStep[v], "idle"}
      /\ uUnit'[v] = uUnit[v]
  BY DEF SelfUpdate!Fire, SelfUpdate!Judge, SelfUpdate!Fallback, SelfUpdate!Launched,
         SelfUpdate!TypeOK
<1>4. \A v \in SelfUpdate!Updates \ {u} : SelfUpdate!Over(v)'
  BY <1>1, <1>2, <1>3, OthersOver
<1>5. uStep'[u] = "idle"
  BY <1>2 DEF SelfUpdate!Fire, SelfUpdate!Judge, SelfUpdate!Fallback, SelfUpdate!Launched,
     SelfUpdate!TypeOK
<1> USE DEF UpdatePlace, SelfUpdate!Over, Steady, Judged, SelfUpdate!disk, SelfUpdate!TypeOK
<1>6. CASE SelfUpdate!Fire(u)
  <2>1. uServing' \in {SelfUpdate!Down, uBin} /\ uLastServed' \in {uLastServed, uBin}
        /\ UNCHANGED SelfUpdate!disk
    BY <1>6 DEF SelfUpdate!Fire, SelfUpdate!Launched, SelfUpdate!Launch
  <2>2. uUnit'[u] = "watch"
    BY <1>6 DEF SelfUpdate!Fire
  <2> QED
    BY <1>2, <1>4, <1>5, <2>1, <2>2, LastUpdate
<1>7. CASE SelfUpdate!Judge(u)
  <2>1. uUnit'[u] = (IF uServing # SelfUpdate!Down THEN "done" ELSE "fallback")
    BY <1>7 DEF SelfUpdate!Judge
  <2>2. UNCHANGED <<uBin, uPrevious, uServing, uLastServed>>
        /\ uServing \in {SelfUpdate!Down, uBin}
    BY <1>2, <1>7 DEF SelfUpdate!Judge
  <2> QED
    BY <1>2, <1>4, <1>5, <2>1, <2>2, LastUpdate DEF ServingRuns
<1>8. CASE SelfUpdate!Fallback(u)
  <2>1. uBin' = uPrevious /\ uServing' = uPrevious /\ uLastServed' = uPrevious
        /\ uPrevious # SelfUpdate!Down
    BY <1>2, <1>8 DEF SelfUpdate!Fallback, SelfUpdate!Launched, SelfUpdate!Launch,
       SelfUpdate!Down, SelfUpdate!None
  <2>2. uUnit'[u] = "done"
    BY <1>2, <1>8 DEF SelfUpdate!Fallback
  <2> QED
    BY <1>2, <1>4, <1>5, <2>1, <2>2, LastUpdate
<1> QED
  BY <1>6, <1>7, <1>8

(* A restart between Stage and the scheduled one is not calm.              *)
LEMMA RestartKeeps ==
  ASSUME SelfUpdate!TypeOK, PanelKept, SelfUpdate!RestartPanel
  PROVE  PanelKept'
<1> SUFFICES ASSUME uCalm' PROVE PanelKept'
  BY DEF PanelKept
<1>1. uCalm /\ ~SelfUpdate!Cut /\ uServing # SelfUpdate!Down
      /\ UNCHANGED <<uBin, uPrevious, uUnit>>
  BY DEF SelfUpdate!RestartPanel, SelfUpdate!disk
<1>2. uServing' = SelfUpdate!Launch(uBin) /\ uLastServed' \in {uLastServed, uBin}
  BY DEF SelfUpdate!RestartPanel, SelfUpdate!Launched
<1>6. \A v \in SelfUpdate!Updates : uStep'[v] \in {uStep[v], "idle"}
  BY DEF SelfUpdate!RestartPanel, SelfUpdate!Launched
<1>3. Steady => Steady'
  BY <1>1, <1>2 DEF Steady, SelfUpdate!Launch, SelfUpdate!RestartPanel, SelfUpdate!Launched
<1>4. CASE AllOver
  <2>1. Steady' /\ AllOver'
    BY <1>1, <1>3, <1>4, <1>6 DEF AllOver, SelfUpdate!Over, PanelKept
  <2>2. \A v \in SelfUpdate!Updates : UpdatePlace(v)'
    BY <2>1 DEF AllOver, SelfUpdate!Over, UpdatePlace
  <2> QED
    BY <2>1, <2>2 DEF PanelKept, OneUpdate, AllOver
<1>5. CASE ~AllOver
  <2>1. PICK u \in SelfUpdate!Updates : ~SelfUpdate!Over(u)
    BY <1>5 DEF AllOver
  <2>2. \A v \in SelfUpdate!Updates \ {u} : SelfUpdate!Over(v)'
    BY <1>1, <1>6, <2>1, OthersOver
  <2>3. UpdatePlace(u)
    BY <1>1 DEF PanelKept
  <2>4. CASE uUnit[u] \in {"timer", "watch", "fallback"}
    <3>1. Judged /\ uStep[u] = "idle" /\ uUnit[u] # "fallback"
      BY <1>1, <2>3, <2>4 DEF UpdatePlace, SelfUpdate!TypeOK
    <3>2. Judged' /\ uServing' \in {SelfUpdate!Down, uBin}
      BY <1>1, <1>2, <3>1 DEF Judged, SelfUpdate!Launch
    <3>3. UpdatePlace(u)' /\ ~SelfUpdate!Over(u)'
      BY <1>1, <1>6, <2>4, <3>1, <3>2 DEF UpdatePlace, SelfUpdate!Over
    <3> QED
      BY <2>2, <3>3, LastUpdate
  <2>5. CASE uUnit[u] \in {"none", "done"}
    <3>1. uStep[u] \in {"stage", "aside"} /\ uUnit[u] = "none"
      BY <1>1, <2>1, <2>3, <2>5 DEF SelfUpdate!Over, SelfUpdate!Cut, UpdatePlace,
         SelfUpdate!TypeOK, SelfUpdate!Steps
    <3>2. Steady'
      BY <1>3, <2>3, <3>1 DEF UpdatePlace
    <3>3. UpdatePlace(u)'
      BY <1>1, <1>6, <3>1, <3>2 DEF UpdatePlace
    <3> QED
      BY <2>2, <3>2, <3>3, LastUpdate
  <2> QED
    BY <2>4, <2>5 DEF SelfUpdate!TypeOK, SelfUpdate!UnitStates
<1> QED
  BY <1>4, <1>5

(* What the steps leave alone.                                             *)
LEMMA IdleKeeps ==
  ASSUME PanelKept, SelfUpdate!FirewallChange \/ SelfUpdate!Publish
     \/ UNCHANGED SelfUpdate!vars
  PROVE  PanelKept'
<1>1. UNCHANGED <<uBin, uPrevious, uServing, uLastServed, uStep, uUnit, uCalm>>
  BY DEF SelfUpdate!FirewallChange, SelfUpdate!Publish, SelfUpdate!vars, SelfUpdate!disk
<1>2. \A u \in SelfUpdate!Updates : SelfUpdate!Over(u)' = SelfUpdate!Over(u)
      /\ UpdatePlace(u)' = UpdatePlace(u)
  BY <1>1 DEF SelfUpdate!Over, UpdatePlace, Steady, Held, Judged
<1>3. Steady' = Steady
  BY <1>1 DEF Steady
<1> QED
  BY <1>1, <1>2, <1>3 DEF PanelKept, OneUpdate, AllOver

LEMMA PanelBegins == ASSUME SelfUpdate!BuildAssumption, SelfUpdate!Init PROVE PanelInv
<1>1. SelfUpdate!TypeOK
  <2>1. 1 \in SelfUpdate!Builds
    BY DEF SelfUpdate!BuildAssumption, SelfUpdate!Builds
  <2>2. uStep \in [SelfUpdate!Updates -> SelfUpdate!Steps]
        /\ uUnit \in [SelfUpdate!Updates -> SelfUpdate!UnitStates]
    BY DEF SelfUpdate!Init, SelfUpdate!Steps, SelfUpdate!UnitStates
  <2>3. uOutcome \in [SelfUpdate!Updates -> SelfUpdate!Outcomes]
    BY DEF SelfUpdate!Init, SelfUpdate!Outcomes
  <2> QED
    BY <2>1, <2>2, <2>3 DEF SelfUpdate!Init, SelfUpdate!TypeOK
<1>2. AllOver /\ Steady
  BY DEF SelfUpdate!Init, SelfUpdate!BuildAssumption, AllOver, SelfUpdate!Over, Steady,
         SelfUpdate!Down
<1>3. \A u \in SelfUpdate!Updates : UpdatePlace(u)
  BY <1>2 DEF AllOver, SelfUpdate!Over, UpdatePlace
<1> QED
  BY <1>1, <1>2, <1>3 DEF PanelInv, PanelKept, OneUpdate, AllOver, ServingRuns, Steady

LEMMA ServingNext == ASSUME ServingRuns,
   [SelfUpdate!Next]_SelfUpdate!vars PROVE ServingRuns'
<1>1. CASE \E b : SelfUpdate!Launched(b)
  BY <1>1 DEF ServingRuns, SelfUpdate!Launched, SelfUpdate!Launch
<1>2. CASE UNCHANGED <<uServing, uLastServed>>
  BY <1>2 DEF ServingRuns
<1> QED
  BY <1>1, <1>2 DEF SelfUpdate!Next, SelfUpdate!vars, SelfUpdate!RestartPanel,
     SelfUpdate!FirewallChange, SelfUpdate!Publish, SelfUpdate!Begin, SelfUpdate!Stage,
        SelfUpdate!Aside, SelfUpdate!Copy,
     SelfUpdate!Schedule, SelfUpdate!Restore, SelfUpdate!Fire, SelfUpdate!Judge,
        SelfUpdate!Fallback, SelfUpdate!Interrupted, SelfUpdate!env

LEMMA PanelInductive == ASSUME SelfUpdate!BuildAssumption, PanelInv,
   [SelfUpdate!Next]_SelfUpdate!vars PROVE PanelInv'
<1>1. SelfUpdate!TypeOK'
  BY PanelTypes DEF PanelInv
<1>2. PanelKept'
  BY BeginKeeps, UpdateKeeps, UnitKeeps, RestartKeeps, IdleKeeps DEF PanelInv,
     SelfUpdate!Next
<1>3. ServingRuns'
  BY ServingNext DEF PanelInv
<1> QED
  BY <1>1, <1>2, <1>3 DEF PanelInv

LEMMA PanelInvariance == PartsSpec => []PanelInv
<1>1. SelfUpdate!BuildAssumption
  BY SelfUpdateAssumption
<1>2. SelfUpdate!Init => PanelInv
  BY <1>1, PanelBegins
<1>3. PanelInv /\ [SelfUpdate!Next]_SelfUpdate!vars => PanelInv'
  BY <1>1, PanelInductive
<1>4. QED
  BY PanelRuns, <1>2, <1>3, PTL

(* The panel's replacement of itself keeps to its types.                   *)
THEOREM PanelTypeCorrect == PartsSpec => []SelfUpdate!TypeOK
<1>1. PanelInv => SelfUpdate!TypeOK
  BY DEF PanelInv
<1>2. QED
  BY PanelInvariance, <1>1, PTL

(* While no two updates overlap, the build that ran last is the executable *)
(* or its .previous, whatever fails or is killed.                          *)
THEOREM AlwaysKept == PartsSpec => []BuildKept
<1>1. PanelInv => BuildKept
  <2> SUFFICES ASSUME PanelInv, uCalm PROVE uLastServed \in {uBin, uPrevious}
    BY DEF BuildKept, SelfUpdate!BuildKept
  <2>1. CASE AllOver
    BY <2>1 DEF PanelInv, PanelKept, Steady
  <2>2. CASE ~AllOver
    <3>1. PICK u \in SelfUpdate!Updates : ~SelfUpdate!Over(u)
      BY <2>2 DEF AllOver
    <3>2. Steady \/ Held \/ Judged
      BY <3>1 DEF PanelInv, PanelKept, UpdatePlace, SelfUpdate!Over, SelfUpdate!TypeOK,
         SelfUpdate!Steps, SelfUpdate!UnitStates
    <3> QED
      BY <3>2 DEF Steady, Held, Judged
  <2> QED
    BY <2>1, <2>2
<1>2. QED
  BY PanelInvariance, <1>1, PTL

(* When no update is under way the panel runs its executable.              *)
THEOREM ServesAtRest == PartsSpec => []Serves
<1>1. PanelInv => Serves
  BY DEF PanelInv, PanelKept, Serves, SelfUpdate!Serves, AllOver, Steady
<1>2. QED
  BY PanelInvariance, <1>1, PTL

-----------------------------------------------------------------------------
(* The page of firewall rules                                              *)
LEMMA PageRuns == PartsSpec => Page!Init /\ [][Page!Next]_Page!vars
<1>1. PartsInit => Page!Init
  BY DEF PartsInit
<1>2. [PartsNext]_partsVars => [Page!Next]_Page!vars
  BY DEF PartsNext, partsVars, pageVars, Page!vars, GateMoves, ApplyMoves,
         PolicyMoves, FirewallMoves, CoreMoves, PanelMoves, LoginMoves,
         EditorMoves, PageMoves
<1>3. QED
  BY <1>1, <1>2, PTL DEF PartsSpec

LessThan == {p \in Nat \X Nat : p[1] < p[2]}

(* A set of natural numbers has a least element.                           *)
LEMMA Least ==
  ASSUME NEW T \in SUBSET Nat, T # {}
  PROVE  \E m \in T : \A n \in T : m <= n
<1>1. IsWellFoundedOn(LessThan, Nat)
  BY NatLessThanWellFounded DEF OpToRel, LessThan
<1>2. PICK m \in T : \A n \in T : ~ (<<n, m>> \in LessThan)
  BY <1>1, WFMin
<1>3. SUFFICES ASSUME NEW n \in T
               PROVE  m <= n
  OBVIOUS
<1>4. n \in Nat /\ m \in Nat
  OBVIOUS
<1>5. ~ (n < m)
  BY <1>2, <1>4 DEF LessThan
<1>6. QED
  BY <1>4, <1>5

(* Induction.                                                              *)
LEMMA Counting ==
  ASSUME NEW T \in SUBSET Nat, 0 \in T, \A n \in T : n + 1 \in T
  PROVE  T = Nat
<1>1. SUFFICES ASSUME T # Nat
               PROVE  FALSE
  OBVIOUS
<1>2. PICK m \in Nat \ T : \A n \in Nat \ T : m <= n
  BY <1>1, Least
<1>3. m # 0 /\ m - 1 \in Nat
  BY <1>2
<1>4. m - 1 \in T
  BY <1>2, <1>3
<1>5. QED
  BY <1>2, <1>3, <1>4

ValidRules == {r \in Page!Rules : Page!ValidRule(r)}
Meet(a, b) == a.first <= Page!LastPort(b) /\ b.first <= Page!LastPort(a)

(* A valid rule ends no earlier than it begins.                            *)
LEMMA SpanOf ==
  ASSUME NEW r \in ValidRules
  PROVE  r.first \in Nat /\ Page!LastPort(r) \in Nat /\ r.first <= Page!LastPort(r)
<1>1. r \in Page!Rules /\ (r.end = 0 \/ r.first < r.end)
  BY DEF ValidRules, Page!ValidRule
<1>2. r.first \in Ports /\ r.end \in Ports \cup {0}
  BY <1>1 DEF Page!Rules
<1>3. Ports \subseteq Nat /\ Ports \cup {0} \subseteq Nat
  BY PageAssumption DEF Page!PortAssumption
<1>4. r.first \in Nat /\ r.end \in Nat
  <2>1. \A p \in Ports \cup {0} : p \in Nat
    BY <1>3
  <2>2. QED
    BY <1>2, <1>3, <2>1
<1>5. QED
  BY <1>1, <1>4 DEF Page!LastPort

(* An order lists the rules of a group, each once, none after a later one. *)
LEMMA OrderOf ==
  ASSUME NEW s \in Seq(ValidRules), NEW S, NEW order \in Page!Orders(s, S)
  PROVE  /\ Len(order) \in Nat
         /\ order \in [1..Len(order) -> S]
         /\ \A j, k \in 1..Len(order) : order[j] = order[k] => j = k
         /\ \A i \in S : \E k \in 1..Len(order) : order[k] = i
         /\ \A k \in 1..(Len(order) - 1) : Page!NotAfter(s[order[k]], s[order[k + 1]])
<1>1. PICK n \in 0..Len(s) : order \in Page!Bijection(1..n, S)
  BY DEF Page!Orders
<1>2. n \in Nat /\ order \in [1..n -> S]
  BY <1>1 DEF Page!Bijection, Page!Injection
<1>3. order \in Seq(S) /\ Len(order) = n
  BY <1>2
<1>4. \A j, k \in 1..n : order[j] = order[k] => j = k
  BY <1>1, <1>2 DEF Page!Bijection, Page!Injection, Page!IsInjective
<1>5. \A i \in S : \E k \in 1..n : order[k] = i
  BY <1>1 DEF Page!Bijection, Page!Surjection
<1>6. Page!Sorted(s, order)
  BY DEF Page!Orders
<1>7. QED
  BY <1>2, <1>3, <1>4, <1>5, <1>6 DEF Page!Sorted

(* What holds of neighbours holds of any two.                              *)
LEMMA Ascending ==
  ASSUME NEW s \in Seq(ValidRules), NEW S \in SUBSET DOMAIN s,
         NEW order \in Page!Orders(s, S),
         NEW j \in 1..Len(order), NEW k \in 1..Len(order), j <= k
  PROVE  s[order[j]].first <= s[order[k]].first
<1> DEFINE First(l) == s[order[l]].first
           T == {d \in Nat : \A l \in 1..Len(order) :
                   l + d \in 1..Len(order) => First(l) <= First(l + d)}
<1>1. Len(order) \in Nat /\ \A l \in 1..Len(order) : First(l) \in Nat
  <2>1. \A l \in 1..Len(order) : s[order[l]] \in ValidRules
    BY OrderOf
  <2>2. QED
    BY <2>1, OrderOf, SpanOf
<1>2. \A l \in 1..(Len(order) - 1) : First(l) <= First(l + 1)
  BY <1>1, OrderOf DEF Page!NotAfter
<1> HIDE DEF First
<1>3. 0 \in T
  BY <1>1
<1>4. ASSUME NEW d \in T
      PROVE  d + 1 \in T
  <2>1. SUFFICES ASSUME NEW l \in 1..Len(order), l + (d + 1) \in 1..Len(order)
                 PROVE  First(l) <= First(l + (d + 1))
    OBVIOUS
  <2>2. l + d \in 1..(Len(order) - 1) /\ (l + d) + 1 = l + (d + 1)
    BY <1>1, <2>1
  <2>3. First(l) <= First(l + d)
    BY <2>2
  <2>4. First(l + d) <= First(l + (d + 1))
    BY <1>2, <2>2
  <2>5. First(l) \in Nat /\ First(l + d) \in Nat /\ First(l + (d + 1)) \in Nat
    BY <1>1, <2>1, <2>2
  <2>6. QED
    BY <2>3, <2>4, <2>5
<1> HIDE DEF T
<1>5. T = Nat
  BY <1>3, <1>4, Counting DEF T
<1>6. k - j \in Nat /\ j + (k - j) = k
  BY <1>1
<1>7. First(j) <= First(k)
  BY <1>5, <1>6 DEF T
<1>8. QED
  BY <1>7 DEF First

(* The loop as a function of the number of rules it has seen.              *)
IsLoop(s, order, n, f) ==
  f = [k \in 0..n |-> IF k = 0 THEN Page!Before ELSE Page!After(s, f[k - 1], order[k])]

(* There is such a function, so that the recursion of Sweep defines it.    *)
LEMMA LoopExists ==
  ASSUME NEW s, NEW order, NEW n \in Nat
  PROVE  \E f : IsLoop(s, order, n, f)
<1> DEFINE T == {m \in Nat : \E f : IsLoop(s, order, m, f)}
<1>1. 0 \in T
  <2> DEFINE f == [k \in 0..0 |-> Page!Before]
  <2>1. f = [k \in 0..0 |-> IF k = 0 THEN Page!Before ELSE Page!After(s, f[k - 1], order[k])]
    OBVIOUS
  <2>2. QED
    BY <2>1 DEF IsLoop
<1>2. ASSUME NEW m \in T
      PROVE  m + 1 \in T
  <2>1. PICK f : IsLoop(s, order, m, f)
    OBVIOUS
  <2> DEFINE Step(g, k) == IF k = 0 THEN Page!Before ELSE Page!After(s, g[k - 1], order[k])
             h == [k \in 0..(m + 1) |->
                     IF k <= m THEN f[k] ELSE Page!After(s, f[m], order[m + 1])]
  <2>2. \A k \in 0..m : f[k] = Step(f, k)
    BY <2>1 DEF IsLoop
  <2>3. ASSUME NEW k \in 0..(m + 1)
        PROVE  h[k] = Step(h, k)
    <3>1. CASE k = 0
      BY <3>1, <2>2
    <3>2. CASE k \in 1..m
      <4>1. k - 1 \in 0..(m + 1) /\ k - 1 <= m /\ k \in 0..m
        BY <3>2
      <4>2. h[k] = f[k] /\ h[k - 1] = f[k - 1]
        BY <3>2, <4>1
      <4>3. QED
        BY <3>2, <4>1, <4>2, <2>2
    <3>3. CASE k = m + 1
      <4>1. k # 0 /\ k - 1 = m /\ m \in 0..(m + 1) /\ m <= m /\ ~(k <= m)
        BY <3>3
      <4>2. h[k - 1] = f[m] /\ h[k] = Page!After(s, f[m], order[m + 1])
        BY <3>3, <4>1
      <4>3. QED
        BY <3>3, <4>1, <4>2
    <3>4. QED
      BY <3>1, <3>2, <3>3
  <2>4. h = [k \in 0..(m + 1) |-> Step(h, k)]
    <3> HIDE DEF Step
    <3>1. h = [k \in 0..(m + 1) |-> h[k]]
      OBVIOUS
    <3> HIDE DEF h
    <3>2. QED
      BY <2>3, <3>1
  <2>5. IsLoop(s, order, m + 1, h)
    BY <2>4 DEF IsLoop
  <2>6. QED
    BY <2>5
<1> HIDE DEF T
<1>3. T = Nat
  BY <1>1, <1>2, Counting DEF T
<1>4. QED
  BY <1>3 DEF T

(* Sweep returns the marks of the loop's last state.                       *)
LEMMA LoopRuns ==
  ASSUME NEW s, NEW order, Len(order) \in Nat
  PROVE  \E f : IsLoop(s, order, Len(order), f) /\ Page!Sweep(s, order) = f[Len(order)].marks
<1> DEFINE f == CHOOSE g : g = [k \in 0..Len(order) |->
                  IF k = 0 THEN Page!Before ELSE Page!After(s, g[k - 1], order[k])]
<1>1. f = [k \in 0..Len(order) |->
             IF k = 0 THEN Page!Before ELSE Page!After(s, f[k - 1], order[k])]
  BY LoopExists DEF IsLoop
<1>2. Page!Sweep(s, order) = f[Len(order)].marks
  BY DEF Page!Sweep
<1>3. QED
  BY <1>1, <1>2 DEF IsLoop
(* What the loop knows after k rules.                                      *)
Knows(s, order, known, k) ==
  /\ k = 0 => known = Page!Before
  /\ k > 0 => \E j \in 1..k :
       /\ known.index = order[j]
       /\ known.end = Page!LastPort(s[order[j]])
       /\ \A l \in 1..k : Page!LastPort(s[order[l]]) <= known.end
  /\ \A i : i \in known.marks <=>
       \E a, b \in 1..k : a # b /\ i = order[a] /\ Meet(s[order[a]], s[order[b]])

(* One more rule: if it begins after the furthest end it meets none of the *)
(* rules before, otherwise it meets the furthest one, and each other rule  *)
(* it meets met the furthest one already.                                  *)
LEMMA Learns ==
  ASSUME NEW s \in Seq(ValidRules), NEW S \in SUBSET DOMAIN s,
         NEW order \in Page!Orders(s, S), NEW k \in Nat, k + 1 <= Len(order),
         NEW known, Knows(s, order, known, k)
  PROVE  Knows(s, order, Page!After(s, known, order[k + 1]), k + 1)
<1> DEFINE i == order[k + 1]
           First(l) == s[order[l]].first
           Last(l) == Page!LastPort(s[order[l]])
           next == Page!After(s, known, i)
<1>1. Len(order) \in Nat /\ k + 1 \in 1..Len(order) /\ 1..k \subseteq 1..Len(order)
  BY OrderOf
<1>2. \A l \in 1..Len(order) : First(l) \in Nat /\ Last(l) \in Nat /\ First(l) <= Last(l)
  <2>1. \A l \in 1..Len(order) : s[order[l]] \in ValidRules
    BY OrderOf
  <2>2. QED
    BY <2>1, SpanOf
<1>3. \A l \in 1..k : First(l) <= First(k + 1)
  BY <1>1, Ascending
<1>4. \A l, m \in 1..Len(order) : order[l] = order[m] => l = m
  BY OrderOf
<1>5. \A l, m : Meet(s[order[l]], s[order[m]]) <=> First(l) <= Last(m) /\ First(m) <= Last(l)
  BY DEF Meet
<1>6. /\ next.marks = IF First(k + 1) <= known.end THEN known.marks \cup {i, known.index}
                       ELSE known.marks
      /\ next.end = IF known.end < Last(k + 1) THEN Last(k + 1) ELSE known.end
      /\ next.index = IF known.end < Last(k + 1) THEN i ELSE known.index
  BY DEF Page!After
<1> HIDE DEF First, Last, next
<1>7. CASE k = 0
  <2>1. known.end = -1 /\ known.marks = {}
    BY <1>7 DEF Knows, Page!Before
  <2>2. next.marks = {} /\ next.end = Last(1) /\ next.index = order[1]
    BY <1>1, <1>2, <1>6, <1>7, <2>1
  <2>3. QED
    BY <1>1, <1>2, <1>7, <2>2 DEF Knows, Last, next, i
<1>8. CASE k # 0
  <2>1. PICK j \in 1..k :
          /\ known.index = order[j]
          /\ known.end = Last(j)
          /\ \A l \in 1..k : Last(l) <= Last(j)
    BY <1>1, <1>8 DEF Knows, Last
  <2>2. \A l : l \in 1..(k + 1) <=> l \in 1..k \/ l = k + 1
    BY <1>1
  <2>3. \E h \in 1..(k + 1) :
          /\ next.index = order[h]
          /\ next.end = Last(h)
          /\ \A l \in 1..(k + 1) : Last(l) <= next.end
    <3>1. Last(j) \in Nat /\ Last(k + 1) \in Nat /\ k + 1 \in 1..(k + 1) /\ j \in 1..(k + 1)
      BY <1>1, <1>2
    <3>2. \A l \in 1..k : Last(l) \in Nat
      BY <1>1, <1>2
    <3>3. CASE Last(j) < Last(k + 1)
      <4>1. next.index = order[k + 1] /\ next.end = Last(k + 1)
        BY <1>6, <2>1, <3>3 DEF i
      <4>2. \A l \in 1..(k + 1) : Last(l) <= Last(k + 1)
        BY <2>1, <2>2, <3>1, <3>2, <3>3
      <4>3. QED
        BY <3>1, <4>1, <4>2
    <3>4. CASE ~ (Last(j) < Last(k + 1))
      <4>1. next.index = order[j] /\ next.end = Last(j)
        BY <1>6, <2>1, <3>4
      <4>2. \A l \in 1..(k + 1) : Last(l) <= Last(j)
        BY <2>1, <2>2, <3>1, <3>2, <3>4
      <4>3. QED
        BY <3>1, <4>1, <4>2
    <3>5. QED
      BY <3>3, <3>4
  <2>4. /\ First(k + 1) \in Nat
        /\ \A l \in 1..k : First(l) \in Nat /\ Last(l) \in Nat
    BY <1>1, <1>2
  <2>5. ASSUME NEW x
        PROVE  x \in next.marks <=>
                 \E a, b \in 1..(k + 1) : a # b /\ x = order[a]
                    /\ Meet(s[order[a]], s[order[b]])
    <3>1. x \in known.marks <=>
            \E a, b \in 1..k : a # b /\ x = order[a] /\ Meet(s[order[a]], s[order[b]])
      BY DEF Knows
    <3>2. \A l \in 1..k : Meet(s[order[l]], s[order[k + 1]]) <=> First(k + 1) <= Last(l)
      BY <1>1, <1>2, <1>3, <1>5
    <3>3. \A l \in 1..k : Meet(s[order[k + 1]], s[order[l]]) <=> First(k + 1) <= Last(l)
      BY <1>1, <1>2, <1>3, <1>5
    <3>4. CASE ~ (First(k + 1) <= Last(j))
      <4>1. \A l \in 1..k : ~ (First(k + 1) <= Last(l))
        BY <2>1, <2>4, <3>4
      <4>2. next.marks = known.marks
        BY <1>6, <2>1, <3>4
      <4>3. QED
        BY <2>2, <3>1, <3>2, <3>3, <4>1, <4>2
    <3>5. CASE First(k + 1) <= Last(j)
      <4>1. next.marks = known.marks \cup {order[k + 1], order[j]}
        BY <1>6, <2>1, <3>5 DEF i
      <4>2. ASSUME NEW l \in 1..k, First(k + 1) <= Last(l), l # j
            PROVE  Meet(s[order[l]], s[order[j]])
        <5>1. First(l) <= First(k + 1) /\ First(j) <= First(k + 1)
          BY <1>3
        <5>2. First(l) <= Last(j) /\ First(j) <= Last(l)
          BY <2>4, <3>5, <4>2, <5>1
        <5>3. QED
          BY <1>5, <5>2
      <4>3. j # k + 1 /\ j \in 1..(k + 1) /\ k + 1 \in 1..(k + 1)
        BY <1>1
      <4>4. ASSUME x \in next.marks
            PROVE  \E a, b \in 1..(k + 1) : a # b /\ x = order[a]
                   /\ Meet(s[order[a]], s[order[b]])
        BY <2>2, <3>1, <3>2, <3>3, <3>5, <4>1, <4>3, <4>4
      <4>5. ASSUME NEW a \in 1..(k + 1), NEW b \in 1..(k + 1), a # b, x = order[a],
                   Meet(s[order[a]], s[order[b]])
            PROVE  x \in next.marks
        <5>1. CASE a = k + 1
          BY <4>1, <4>5, <5>1
        <5>2. CASE a \in 1..k /\ b \in 1..k
          BY <3>1, <4>1, <4>5, <5>2
        <5>3. CASE a \in 1..k /\ b = k + 1
          <6>1. a = j \/ Meet(s[order[a]], s[order[j]])
            BY <3>2, <4>2, <4>5, <5>3
          <6>2. QED
            BY <2>1, <3>1, <4>1, <4>5, <5>3, <6>1
        <5>4. QED
          BY <2>2, <4>5, <5>1, <5>2, <5>3
      <4>6. QED
        BY <4>4, <4>5
    <3>6. QED
      BY <3>4, <3>5
  <2>6. k + 1 # 0 /\ k + 1 > 0
    OBVIOUS
  <2>7. QED
    BY <2>3, <2>5, <2>6 DEF Knows, Last, next, i
<1>9. QED
  BY <1>7, <1>8

(* The sweep of a group marks the rules that meet another one of it.       *)
LEMMA SweepMarks ==
  ASSUME NEW s \in Seq(ValidRules), NEW S \in SUBSET DOMAIN s,
         NEW order \in Page!Orders(s, S), NEW i
  PROVE  i \in Page!Sweep(s, order) <=>
           i \in S /\ \E j \in S : i # j /\ Meet(s[i], s[j])
<1>1. Len(order) \in Nat
  BY OrderOf
<1>2. PICK f : IsLoop(s, order, Len(order), f) /\ Page!Sweep(s, order) = f[Len(order)].marks
  BY <1>1, LoopRuns
<1> DEFINE T == {k \in Nat : k <= Len(order) => Knows(s, order, f[k], k)}
<1>3. 0 \in T
  <2>1. f[0] = Page!Before
    BY <1>1, <1>2 DEF IsLoop
  <2>2. QED
    BY <2>1 DEF Knows, Page!Before
<1>4. ASSUME NEW k \in T
      PROVE  k + 1 \in T
  <2>1. SUFFICES ASSUME k + 1 <= Len(order)
                 PROVE  Knows(s, order, f[k + 1], k + 1)
    OBVIOUS
  <2>2. k \in Nat /\ k <= Len(order) /\ k + 1 \in 0..Len(order) /\ k + 1 # 0
        /\ (k + 1) - 1 = k
    BY <1>1, <2>1
  <2>3. f[k + 1] = Page!After(s, f[k], order[k + 1])
    BY <1>2, <2>2 DEF IsLoop
  <2>4. Knows(s, order, f[k], k)
    BY <2>2
  <2>5. QED
    BY <2>1, <2>2, <2>3, <2>4, Learns
<1> HIDE DEF T
<1>5. T = Nat
  BY <1>3, <1>4, Counting DEF T
<1>6. Knows(s, order, f[Len(order)], Len(order))
  BY <1>1, <1>5 DEF T
<1>7. i \in Page!Sweep(s, order) <=>
        \E a, b \in 1..Len(order) :
          a # b /\ i = order[a] /\ Meet(s[order[a]], s[order[b]])
  BY <1>2, <1>6 DEF Knows
<1>8. /\ \A a \in 1..Len(order) : order[a] \in S
      /\ \A a, b \in 1..Len(order) : a # b => order[a] # order[b]
      /\ \A j \in S : \E b \in 1..Len(order) : order[b] = j
  BY OrderOf
<1>9. ASSUME i \in Page!Sweep(s, order)
      PROVE  i \in S /\ \E j \in S : i # j /\ Meet(s[i], s[j])
  BY <1>7, <1>8, <1>9
<1>10. ASSUME i \in S, NEW j \in S, i # j, Meet(s[i], s[j])
       PROVE  i \in Page!Sweep(s, order)
  <2>1. PICK a \in 1..Len(order), b \in 1..Len(order) : order[a] = i /\ order[b] = j
    BY <1>8, <1>10
  <2>2. QED
    BY <1>7, <1>10, <2>1
<1>11. QED
  BY <1>9, <1>10

(* Two rules are in a common group exactly if they share backend, zone,    *)
(* protocol and an address family.                                         *)
LEMMA MarksAll ==
  ASSUME NEW s \in Seq(ValidRules), NEW m \in Page!Marks(s)
  PROVE  m = {i \in DOMAIN s : \E j \in DOMAIN s \ {i} : Page!Contradicts(s[i], s[j])}
<1> DEFINE sweeps(key) ==
             {<<key, Page!Sweep(s, order)>> : order \in Page!Orders(s, Page!Members(s, key))}
           found == UNION {sweeps(key) : key \in Page!Keys(s)}
<1>1. PICK r \in SUBSET found :
        /\ \A key \in Page!Keys(s) : \E run \in r : run[1] = key
        /\ m = UNION {run[2] : run \in r}
  BY DEF Page!Marks
<1>2. \A run \in r : \E key \in Page!Keys(s) :
        \E order \in Page!Orders(s, Page!Members(s, key)) : run = <<key, Page!Sweep(s, order)>>
  BY <1>1
<1> HIDE DEF found
<1>3. \A key : Page!Members(s, key) \in SUBSET DOMAIN s
  BY DEF Page!Members
<1>4. \A i, j \in DOMAIN s : Page!Contradicts(s[i], s[j]) <=>
        (\E key : i \in Page!Members(s, key) /\ j \in Page!Members(s, key))
           /\ Meet(s[i], s[j])
  <2>1. TAKE i, j \in DOMAIN s
  <2>2. (\E key : key \in Page!KeysOf(s[i]) /\ key \in Page!KeysOf(s[j])) <=>
          s[i].group = s[j].group
             /\ Page!Covers(s[i].family) \cap Page!Covers(s[j].family) # {}
    <3>1. ASSUME NEW key, key \in Page!KeysOf(s[i]), key \in Page!KeysOf(s[j])
          PROVE  s[i].group = s[j].group
                 /\ Page!Covers(s[i].family) \cap Page!Covers(s[j].family) # {}
      <4>1. key[1] = s[i].group /\ key[1] = s[j].group
            /\ key[2] \in Page!Covers(s[i].family) /\ key[2] \in Page!Covers(s[j].family)
        BY <3>1 DEF Page!KeysOf
      <4>2. QED
        BY <4>1
    <3>2. ASSUME s[i].group = s[j].group,
          NEW v \in Page!Covers(s[i].family) \cap Page!Covers(s[j].family)
          PROVE  <<s[i].group, v>> \in Page!KeysOf(s[i])
                 /\ <<s[i].group, v>> \in Page!KeysOf(s[j])
      BY <3>2 DEF Page!KeysOf
    <3>3. QED
      BY <3>1, <3>2
  <2>3. QED
    BY <2>1, <2>2 DEF Page!Contradicts, Page!Members, Meet
<1>5. ASSUME NEW i \in m
      PROVE  i \in DOMAIN s /\ \E j \in DOMAIN s \ {i} : Page!Contradicts(s[i], s[j])
  <2>1. PICK run \in r : i \in run[2]
    BY <1>1
  <2>2. PICK key \in Page!Keys(s) : \E order \in Page!Orders(s, Page!Members(s, key)) :
          run = <<key, Page!Sweep(s, order)>>
    BY <1>2
  <2>3. PICK order \in Page!Orders(s, Page!Members(s, key)) :
               run = <<key, Page!Sweep(s, order)>>
    BY <2>2
  <2>4. i \in Page!Members(s, key) /\ \E j \in Page!Members(s, key) : i # j
        /\ Meet(s[i], s[j])
    BY <1>3, <2>1, <2>3, SweepMarks
  <2>5. QED
    BY <1>3, <1>4, <2>4
<1>6. ASSUME NEW i \in DOMAIN s, NEW j \in DOMAIN s \ {i}, Page!Contradicts(s[i], s[j])
      PROVE  i \in m
  <2>1. PICK key : i \in Page!Members(s, key) /\ j \in Page!Members(s, key)
        /\ Meet(s[i], s[j])
    BY <1>4, <1>6
  <2>2. key \in Page!Keys(s)
    BY <2>1 DEF Page!Members, Page!Keys
  <2>3. PICK run \in r : run[1] = key
    BY <1>1, <2>2
  <2>4. PICK order \in Page!Orders(s, Page!Members(s, key)) : run[2] = Page!Sweep(s, order)
    BY <1>2, <2>3
  <2>5. i \in Page!Sweep(s, order)
    BY <1>3, <2>1, SweepMarks
  <2>6. QED
    BY <1>1, <2>4, <2>5
<1>7. QED
  BY <1>5, <1>6

PageInv == gRules \in Seq(ValidRules) /\ Page!MarkedExactly

LEMMA PageInvariance == PartsSpec => []PageInv
<1>1. Page!Init => PageInv
  BY DEF Page!Init, PageInv, Page!MarkedExactly
<1>2. PageInv /\ [Page!Next]_Page!vars => PageInv'
  <2>1. SUFFICES ASSUME PageInv, [Page!Next]_Page!vars
                 PROVE  PageInv'
    OBVIOUS
  <2>2. ASSUME NEW s \in Seq(ValidRules), Page!Refresh(s)
        PROVE  PageInv'
    <3>1. gRules' = s /\ gConflict' \in Page!Marks(s)
      BY <2>2 DEF Page!Refresh
    <3>2. QED
      BY <3>1, MarksAll DEF PageInv, Page!MarkedExactly
  <2>3. Len(gRules) \in Nat
    BY <2>1 DEF PageInv
  <2>4. CASE Page!Allow
    <3>1. PICK r \in Page!Rules, i \in 1..(Len(gRules) + 1) :
            Page!ValidRule(r) /\ Page!Refresh(Page!InsertAt(gRules, i, r))
      BY <2>4 DEF Page!Allow
    <3>2. r \in ValidRules
      BY <3>1 DEF ValidRules
    <3>3. SubSeq(gRules, 1, i - 1) \in Seq(ValidRules)
          /\ SubSeq(gRules, i, Len(gRules)) \in Seq(ValidRules)
          /\ <<r>> \in Seq(ValidRules)
      BY <2>1, <2>3, <3>2, SubSeqProperties DEF PageInv
    <3>4. Page!InsertAt(gRules, i, r) \in Seq(ValidRules)
      BY <3>3, ConcatProperties DEF Page!InsertAt
    <3>5. QED
      BY <2>2, <3>1, <3>4
  <2>5. CASE Page!Delete
    <3>1. PICK i \in DOMAIN gRules : Page!Refresh(Page!RemoveAt(gRules, i))
      BY <2>5 DEF Page!Delete
    <3>2. SubSeq(gRules, 1, i - 1) \in Seq(ValidRules)
          /\ SubSeq(gRules, i + 1, Len(gRules)) \in Seq(ValidRules)
      BY <2>1, <2>3, <3>1, SubSeqProperties DEF PageInv
    <3>3. Page!RemoveAt(gRules, i) \in Seq(ValidRules)
      BY <3>2, ConcatProperties DEF Page!RemoveAt
    <3>4. QED
      BY <2>2, <3>1, <3>3
  <2>6. CASE UNCHANGED Page!vars
    BY <2>1, <2>6 DEF Page!vars, PageInv, Page!MarkedExactly
  <2>7. QED
    BY <2>1, <2>4, <2>5, <2>6 DEF Page!Next
<1>3. QED
  BY PageRuns, <1>1, <1>2, PTL

(* The rules shown are rules of ParsePortSpec, and the marks are of them.  *)
THEOREM PageTypeCorrect == PartsSpec => []Page!TypeOK
<1>1. PageInv => Page!TypeOK
  <2>1. ASSUME PageInv
        PROVE  gRules \in Seq(Page!Rules)
    BY <2>1 DEF PageInv, ValidRules
  <2>2. QED
    BY <2>1 DEF PageInv, Page!MarkedExactly, Page!TypeOK
<1>2. QED
  BY PageInvariance, <1>1, PTL

(* The sweep of markRuleConflicts, which remembers one rule per group,     *)
(* marks what a comparison of all pairs would, however ties are sorted.    *)
THEOREM MarksExactly == PartsSpec => []MarkedExactly
<1>1. PageInv => MarkedExactly
  BY DEF PageInv, MarkedExactly
<1>2. QED
  BY PageInvariance, <1>1, PTL
================================================================================
