------------------------- MODULE AccountPolicyProofs -------------------------
(***************************************************************************)
(* AccountPolicy for every set of accounts, every calendar and every bound:*)
(* types, single charging, and that a manual disable is respected.         *)
(***************************************************************************)
EXTENDS AccountPolicy, TLAPS

(* An account that the user switched off and that has not been over its    *)
(* quota since is off, and is not off for its quota: this second half is   *)
(* what keeps the monthly reset away from it.                              *)
OffInv ==
  \A i \in present :
    off[i] /\ ~exceeded[i] => ~row[i].enabled /\ row[i].reason # "quota"

IInv == TypeOK /\ ChargedOnce /\ OffInv

Life(i) == IF i \in present THEN row[i].all ELSE 0

USE BoundAssumption

-----------------------------------------------------------------------------
(***************************************************************************)
(* The operators on rows                                                   *)
(***************************************************************************)
(* The months are counted from 1. *)
LEMMA MonthType ==
  ASSUME NEW t \in Nat
  PROVE  Month(t) \in Nat
  BY TimeAssumption DEF Month

(* Starting the cycle of a row changes only its month. *)
LEMMA StartCycleRow ==
  ASSUME now \in Nat, NEW a \in Rows, NEW newly
  PROVE  /\ StartCycle(a, newly) \in Rows
         /\ StartCycle(a, newly).used = a.used /\ StartCycle(a, newly).all = a.all
         /\ StartCycle(a, newly).enabled = a.enabled
         /\ StartCycle(a, newly).reason = a.reason
  <1>1. Month(now) \in Nat
    BY MonthType
  <1> QED BY <1>1 DEF StartCycle, Rows

(* A new row has carried nothing and is not off for its quota. *)
LEMMA NewRowRow ==
  ASSUME now \in Nat, NEW in \in Inputs
  PROVE  /\ NewRow(in) \in Rows
         /\ NewRow(in).used = 0 /\ NewRow(in).all = 0
         /\ NewRow(in).enabled = in.enabled /\ NewRow(in).reason # "quota"
  <1> DEFINE a == [enabled |-> in.enabled, reason |-> IF in.enabled THEN "" ELSE "manual",
                   used |-> 0, all |-> 0, quota |-> in.quota, expiry |-> in.expiry,
                   monthly |-> in.monthly, last |-> NoMonth]
  <1>1. /\ a \in Rows /\ a.used = 0 /\ a.all = 0
        /\ a.enabled = in.enabled /\ a.reason # "quota"
    BY DEF Rows, Inputs, Reasons, NoMonth
  <1>2. NewRow(in) = StartCycle(a, FALSE)
    BY DEF NewRow
  <1> HIDE DEF a
  <1>3. /\ StartCycle(a, FALSE) \in Rows
        /\ StartCycle(a, FALSE).used = a.used /\ StartCycle(a, FALSE).all = a.all
        /\ StartCycle(a, FALSE).enabled = a.enabled
        /\ StartCycle(a, FALSE).reason = a.reason
    BY <1>1, StartCycleRow, Zenon
  <1> QED BY <1>1, <1>2, <1>3, Zenon

(* The row that stands for an account that does not exist. *)
LEMMA BlankRow ==
  ASSUME now \in Nat
  PROVE  Blank \in Rows
  <1>1. PICK q \in Quotas, e \in Expiries : TRUE
    BY DataAssumption
  <1>2. [enabled |-> TRUE, quota |-> q, expiry |-> e, monthly |-> TRUE] \in Inputs
    BY <1>1 DEF Inputs
  <1>3. (CHOOSE in \in Inputs : TRUE) \in Inputs
    BY <1>2
  <1> QED BY <1>3, NewRowRow DEF Blank

(* A copy has carried nothing and gives no reason. *)
LEMMA CopyRow ==
  ASSUME now \in Nat, NEW a \in Rows
  PROVE  /\ Copy(a) \in Rows
         /\ Copy(a).used = 0 /\ Copy(a).all = 0 /\ Copy(a).reason = ""
  <1> DEFINE b == [a EXCEPT !.used = 0, !.all = 0, !.last = NoMonth, !.reason = "",
                            !.enabled = @ \/ a.reason = "quota"]
  <1>2. b \in Rows /\ b.used = 0 /\ b.all = 0 /\ b.reason = ""
    <2>1. CASE a.reason = "quota"
      <3>1. b = [a EXCEPT !.used = 0, !.all = 0, !.last = NoMonth, !.reason = "",
                          !.enabled = TRUE]
        BY <2>1 DEF Rows
      <3> HIDE DEF b
      <3> QED BY <3>1 DEF Rows, Reasons, NoMonth
    <2>2. CASE a.reason # "quota"
      <3>1. b = [a EXCEPT !.used = 0, !.all = 0, !.last = NoMonth, !.reason = ""]
        BY <2>2 DEF Rows
      <3> HIDE DEF b
      <3> QED BY <3>1 DEF Rows, Reasons, NoMonth
    <2> QED BY <2>1, <2>2
  <1>3. Copy(a) = StartCycle(b, TRUE)
    BY DEF Copy
  <1> HIDE DEF b
  <1>4. /\ StartCycle(b, TRUE) \in Rows
        /\ StartCycle(b, TRUE).used = b.used /\ StartCycle(b, TRUE).all = b.all
        /\ StartCycle(b, TRUE).reason = b.reason
    BY <1>2, StartCycleRow, ZenonT(60)
  <1> QED BY <1>2, <1>3, <1>4, Zenon

(* An edit keeps the traffic; it gives no suspension for quota, and keeps  *)
(* one only for an account that was off and stays off.                     *)
LEMMA EditedRow ==
  ASSUME now \in Nat, NEW a \in Rows, NEW in \in Inputs
  PROVE  /\ Edited(a, in) \in Rows
         /\ Edited(a, in).used = a.used /\ Edited(a, in).all = a.all
         /\ Edited(a, in).enabled = in.enabled
         /\ Edited(a, in).reason = "quota" => ~in.enabled /\ ~a.enabled /\ a.reason = "quota"
  <1> DEFINE why == IF in.enabled THEN "" ELSE IF a.enabled THEN "manual" ELSE a.reason
             b == [a EXCEPT !.enabled = in.enabled, !.quota = in.quota,
                            !.expiry = in.expiry, !.monthly = in.monthly, !.reason = why]
  <1>1. /\ why \in Reasons
        /\ why = "quota" => ~in.enabled /\ ~a.enabled /\ a.reason = "quota"
    BY DEF Rows, Inputs, Reasons
  <1>2. Edited(a, in) = StartCycle(b, ~a.monthly)
    BY DEF Edited
  <1> HIDE DEF why
  <1>3. /\ b \in Rows /\ b.used = a.used /\ b.all = a.all
        /\ b.enabled = in.enabled /\ b.reason = why
    BY <1>1 DEF Rows, Inputs
  <1> HIDE DEF b
  <1> QED BY <1>1, <1>2, <1>3, StartCycleRow

(* Only a suspension for quota is lifted; the traffic is left alone. *)
LEMMA ResumedRow ==
  ASSUME NEW a \in Rows, NEW t \in Nat
  PROVE  /\ Resumed(a, t) \in Rows
         /\ Resumed(a, t).used = a.used /\ Resumed(a, t).all = a.all
         /\ a.reason # "quota" => Resumed(a, t) = a
  BY DEF Resumed, Resumes, Rows, Reasons

(* The monthly reset lowers the traffic of the period, keeps the total, and*)
(* switches on only what was off for its quota.                            *)
LEMMA RenewedRow ==
  ASSUME NEW a \in Rows, NEW t \in Nat, a.used <= a.all
  PROVE  /\ Renewed(a, t) \in Rows
         /\ Renewed(a, t).used <= a.used /\ Renewed(a, t).all = a.all
         /\ a.reason # "quota" => /\ Renewed(a, t).enabled = a.enabled
                                  /\ Renewed(a, t).reason = a.reason
  <1> DEFINE m == Month(t)
             b == [a EXCEPT !.used = 0, !.last = m]
  <1>0. m \in Nat
    BY MonthType
  <1> HIDE DEF m
  <1>1. /\ b \in Rows /\ b.used = 0 /\ b.all = a.all
        /\ b.enabled = a.enabled /\ b.reason = a.reason
    BY <1>0 DEF Rows
  <1>2. Renewed(a, t) = IF Due(a, t) THEN Resumed(b, t) ELSE a
    BY DEF Renewed, m
  <1>3. a.used \in Nat /\ 0 <= a.used
    BY DEF Rows
  <1> HIDE DEF b
  <1>4. CASE Due(a, t)
    <2>1. /\ Renewed(a, t) = Resumed(b, t)
          /\ Resumed(b, t) \in Rows
          /\ Resumed(b, t).used = b.used /\ Resumed(b, t).all = b.all
          /\ b.reason # "quota" => Resumed(b, t) = b
      BY <1>1, <1>2, <1>4, ResumedRow
    <2>2. a.reason # "quota" => /\ Renewed(a, t).enabled = a.enabled
                                /\ Renewed(a, t).reason = a.reason
      BY <1>1, <2>1, Zenon
    <2> QED BY <1>1, <1>3, <2>1, <2>2
  <1>5. CASE ~Due(a, t)
    BY <1>2, <1>3, <1>5
  <1> QED BY <1>4, <1>5

(* Judging keeps the traffic, never switches on, and suspends for quota    *)
(* only what is over it.                                                   *)
LEMMA JudgedRow ==
  ASSUME NEW a \in Rows, NEW t \in Nat
  PROVE  /\ Judged(a, t) \in Rows
         /\ Judged(a, t).used = a.used /\ Judged(a, t).all = a.all
         /\ Judged(a, t).enabled => a.enabled
         /\ Judged(a, t).reason = "quota" => OverQuota(Judged(a, t)) \/ a.reason = "quota"
  BY DEF Judged, Expired, OverQuota, Rows, Reasons

-----------------------------------------------------------------------------
(***************************************************************************)
(* Making a table effective                                                *)
(***************************************************************************)
(* A table in which no account has gained traffic, and which keeps the     *)
(* accounts the user switched off in order, may be made effective.         *)
LEMMA PersistStep ==
  ASSUME IInv, Watch,
         NEW p \in SUBSET Ids, NEW r \in [Ids -> Rows], NEW o \in [Ids -> BOOLEAN],
         NEW changed \in BOOLEAN,
         \A i \in p : r[i].used <= r[i].all /\ r[i].all <= Life(i),
         \A i \in p : o[i] => \/ exceeded[i] \/ OverQuota(r[i])
                              \/ ~r[i].enabled /\ r[i].reason # "quota",
         Persist(p, r, o, changed),
         delta' \in [Ids -> 0 .. MaxSent], \A i \in Ids : delta'[i] <= delta[i],
         now' = now, seen' \in Instants, tick' \in {"wait", "read", "charged"}, sent' = sent
  PROVE  IInv'
  <1> DEFINE target == IF changed THEN Enabled(p, r) ELSE serving
  <1>1. target \subseteq Ids
    BY DEF Enabled, IInv, TypeOK
  <1>2. counter' \in {counter, Zero}
    BY DEF Persist
  <1>3. /\ counter' \in [Ids -> 0 .. MaxSent]
        /\ \A i \in Ids : counter'[i] <= counter[i]
    BY <1>2 DEF Zero, IInv, TypeOK
  <1>4. serving' \in {serving, target}
    BY DEF Persist
  <1>5. faults' \in 0 .. MaxFaults
    BY DEF Persist, Fault, IInv, TypeOK
  <1>6. \/ present' = p /\ row' = r /\ off' = o
        \/ UNCHANGED <<present, row, off>>
    BY DEF Persist
  <1>7. present' \subseteq Ids /\ row' \in [Ids -> Rows] /\ off' \in [Ids -> BOOLEAN]
    BY <1>6 DEF IInv, TypeOK
  <1> HIDE DEF target
  <1>8. exceeded' \in [Ids -> BOOLEAN]
    BY DEF Watch
  <1>9. TypeOK'
    BY <1>1, <1>3, <1>4, <1>5, <1>7, <1>8 DEF IInv, TypeOK
  <1>10. \A i \in present' : row'[i].used <= row'[i].all /\ row'[i].all <= Life(i)
    <2>1. \A i \in present : row[i].used <= row[i].all /\ row[i].all <= Life(i)
      <3> SUFFICES ASSUME NEW i \in present
                   PROVE  row[i].used <= row[i].all /\ row[i].all <= Life(i)
        OBVIOUS
      <3>1. i \in Ids /\ row[i].all \in Nat
        BY DEF IInv, TypeOK, Rows
      <3> QED BY <3>1 DEF Life, IInv, ChargedOnce
    <2> QED BY <1>6, <2>1
  <1>11. ChargedOnce'
    <2> SUFFICES ASSUME NEW i \in Ids
                 PROVE  /\ i \in present' => row'[i].used <= row'[i].all
                        /\ (IF i \in present' THEN row'[i].all ELSE 0)
                              + delta'[i] + counter'[i] <= sent'[i]
      BY DEF ChargedOnce
    <2>1. Life(i) + delta[i] + counter[i] <= sent[i]
      BY DEF IInv, ChargedOnce, Life
    <2>2. /\ Life(i) \in Nat /\ delta[i] \in Nat /\ counter[i] \in Nat /\ sent[i] \in Nat
          /\ delta'[i] \in Nat /\ counter'[i] \in Nat
      BY <1>3 DEF IInv, TypeOK, Life, Rows
    <2>3. i \in present' => row'[i].all \in Nat
      BY <1>7 DEF Rows
    <2>4. delta'[i] <= delta[i] /\ counter'[i] <= counter[i]
      BY <1>3
    <2> QED BY <1>10, <2>1, <2>2, <2>3, <2>4
  <1>12. OffInv'
    <2> SUFFICES ASSUME NEW i \in present', off'[i], ~exceeded'[i]
                 PROVE  ~row'[i].enabled /\ row'[i].reason # "quota"
      BY DEF OffInv
    <2>1. i \in Ids
      BY <1>7
    <2>2. ~exceeded[i] /\ ~OverQuota(row'[i])
      BY <2>1 DEF Watch
    <2> QED BY <1>6, <2>1, <2>2 DEF IInv, OffInv
  <1> QED BY <1>9, <1>11, <1>12 DEF IInv

(* A step that leaves the accounts and the user's hand alone leaves OffInv.*)
LEMMA OffKept ==
  ASSUME IInv, Watch, UNCHANGED <<present, row, off>>
  PROVE  OffInv' /\ exceeded' \in [Ids -> BOOLEAN]
  <1>1. exceeded' \in [Ids -> BOOLEAN]
    BY DEF Watch
  <1>2. \A i \in Ids : off[i] /\ ~exceeded'[i] => ~exceeded[i]
    BY DEF Watch
  <1>3. present \subseteq Ids
    BY DEF IInv, TypeOK
  <1> QED BY <1>1, <1>2, <1>3 DEF IInv, OffInv

(* A handler that writes the row a of account i keeps the invariant when a *)
(* has gained no traffic, and respects the user's hand o.                  *)
LEMMA ChangeStep ==
  ASSUME IInv, Watch, NEW i \in Ids, NEW a \in Rows, NEW o \in BOOLEAN,
         NEW changed \in BOOLEAN, Change(i, a, o, changed), Tagged(i) \/ UNCHANGED delta,
         a.used <= row[i].used, a.all = row[i].all,
         o => exceeded[i] \/ OverQuota(a) \/ (~a.enabled /\ a.reason # "quota")
  PROVE  IInv'
  <1> DEFINE r == [row EXCEPT ![i] = a]
             u == [off EXCEPT ![i] = o]
  <1>1. r \in [Ids -> Rows] /\ u \in [Ids -> BOOLEAN] /\ present \in SUBSET Ids
    BY DEF IInv, TypeOK
  <1>2. \A k \in present : r[k].used <= r[k].all /\ r[k].all <= Life(k)
    <2> SUFFICES ASSUME NEW k \in present
                 PROVE  r[k].used <= r[k].all /\ r[k].all <= Life(k)
      OBVIOUS
    <2>1. /\ row[k] \in Rows /\ row[k].used <= row[k].all /\ Life(k) = row[k].all
      BY DEF IInv, TypeOK, ChargedOnce, Life
    <2>2. /\ row[k].used \in Nat /\ row[k].all \in Nat /\ a.used \in Nat /\ a.all \in Nat
      BY <2>1 DEF Rows
    <2>3. CASE k = i
      <3>1. r[k] = a
        BY <2>3 DEF IInv, TypeOK
      <3> QED BY <2>1, <2>2, <2>3, <3>1
    <2>4. CASE k # i
      <3>1. r[k] = row[k]
        BY <2>4 DEF IInv, TypeOK
      <3> QED BY <2>1, <2>2, <3>1
    <2> QED BY <2>3, <2>4
  <1>3. \A k \in present : u[k] => \/ exceeded[k] \/ OverQuota(r[k])
                                   \/ ~r[k].enabled /\ r[k].reason # "quota"
    BY DEF IInv, OffInv, TypeOK
  <1>4. /\ Persist(present, r, u, changed)
        /\ now' = now /\ seen' = seen /\ tick' = tick /\ sent' = sent
        /\ delta' \in {delta, [delta EXCEPT ![i] = 0]}
    BY DEF Change, Tagged
  <1>5. /\ delta' \in [Ids -> 0 .. MaxSent] /\ \A k \in Ids : delta'[k] <= delta[k]
        /\ seen' \in Instants /\ tick' \in {"wait", "read", "charged"}
    BY <1>4 DEF IInv, TypeOK
  <1> HIDE DEF r, u
  <1> QED BY <1>1, <1>2, <1>3, <1>4, <1>5, PersistStep

(* A new account that has carried nothing may be added, and what the loop  *)
(* has read for its tag kept or forgotten.                                 *)
LEMMA AddedStep ==
  ASSUME IInv, Watch, NEW i \in Ids, NEW a \in Rows, NEW o \in BOOLEAN, Added(i, a, o),
         a.used = 0, a.all = 0, o => ~a.enabled /\ a.reason # "quota"
  PROVE  IInv'
  <1> DEFINE p == present \cup {i}
             r == [row EXCEPT ![i] = a]
             u == [off EXCEPT ![i] = o]
  <1>1. /\ p \in SUBSET Ids /\ r \in [Ids -> Rows] /\ u \in [Ids -> BOOLEAN]
        /\ i \notin present
    BY DEF Added, IInv, TypeOK
  <1>2. \A k \in p : r[k].used <= r[k].all /\ r[k].all <= Life(k)
    <2> SUFFICES ASSUME NEW k \in p
                 PROVE  r[k].used <= r[k].all /\ r[k].all <= Life(k)
      OBVIOUS
    <2>1. CASE k = i
      <3>1. r[k] = a /\ Life(k) = 0
        BY <1>1, <2>1 DEF Life, IInv, TypeOK
      <3> QED BY <3>1
    <2>2. CASE k # i
      <3>1. k \in present /\ k \in Ids /\ r[k] = row[k]
        BY <2>2 DEF IInv, TypeOK
      <3>2. row[k].used <= row[k].all /\ Life(k) = row[k].all /\ row[k].all \in Nat
        BY <3>1 DEF IInv, TypeOK, ChargedOnce, Life, Rows
      <3> QED BY <3>1, <3>2
    <2> QED BY <2>1, <2>2
  <1>3. \A k \in p : u[k] => \/ exceeded[k] \/ OverQuota(r[k])
                             \/ ~r[k].enabled /\ r[k].reason # "quota"
    BY DEF IInv, OffInv, TypeOK
  <1>4. /\ Persist(p, r, u, TRUE)
        /\ now' = now /\ seen' = seen /\ tick' = tick /\ sent' = sent
        /\ delta' \in {delta, [delta EXCEPT ![i] = 0]}
    BY DEF Added, Tagged
  <1>5. /\ delta' \in [Ids -> 0 .. MaxSent] /\ \A k \in Ids : delta'[k] <= delta[k]
        /\ seen' \in Instants /\ tick' \in {"wait", "read", "charged"}
    BY <1>4 DEF IInv, TypeOK
  <1> HIDE DEF p, r, u
  <1> QED BY <1>1, <1>2, <1>3, <1>4, <1>5, PersistStep

-----------------------------------------------------------------------------
(***************************************************************************)
(* The steps of Next                                                       *)
(***************************************************************************)
(* A new installation satisfies the invariant. *)
LEMMA Begins == Init => IInv
  <1> SUFFICES ASSUME Init PROVE IInv
    OBVIOUS
  <1>1. PICK p \in SUBSET Ids, in \in [Ids -> Inputs] :
          /\ present = p
          /\ row = [i \in Ids |-> IF i \in p THEN NewRow(in[i]) ELSE Blank]
    BY DEF Init
  <1>2. now = 0 /\ now \in Nat /\ now \in Instants
    BY TimeAssumption DEF Init, Instants
  <1>3. \A i \in Ids : row[i] \in Rows
    BY <1>1, <1>2, NewRowRow, BlankRow
  <1>4. \A i \in present : /\ row[i].used = 0 /\ row[i].all = 0
                           /\ row[i].reason # "quota"
    BY <1>1, <1>2, NewRowRow
  <1>5. row \in [Ids -> Rows]
    BY <1>1, <1>3
  <1>6. TypeOK
    <2>1. /\ Zero \in [Ids -> 0 .. MaxSent]
          /\ off \in [Ids -> BOOLEAN] /\ exceeded \in [Ids -> BOOLEAN]
      BY <1>3 DEF Init, Zero, Rows
    <2>2. present \subseteq Ids /\ serving \subseteq Ids
      BY <1>1 DEF Init
    <2> QED BY <1>2, <1>5, <2>1, <2>2 DEF Init, TypeOK
  <1>7. ChargedOnce
    <2> SUFFICES ASSUME NEW i \in Ids
                 PROVE  /\ i \in present => row[i].used <= row[i].all
                        /\ (IF i \in present THEN row[i].all ELSE 0) + delta[i] + counter[i]
                             <= sent[i]
      BY DEF ChargedOnce
    <2>1. delta[i] = 0 /\ counter[i] = 0 /\ sent[i] = 0
      BY DEF Init, Zero
    <2>2. i \in present => row[i].used = 0 /\ row[i].all = 0
      BY <1>4
    <2> QED BY <2>1, <2>2
  <1>8. OffInv
    BY <1>1, <1>4 DEF Init, OffInv
  <1> QED BY <1>6, <1>7, <1>8 DEF IInv

(* The world: traffic, restarts of Xray, and time. *)
LEMMA WorldSteps ==
  ASSUME IInv, Watch,
         (\E i \in Ids : Transfer(i)) \/ XrayRestarts \/ Clock
  PROVE  IInv'
  <1>1. UNCHANGED <<present, row, serving, tick, seen, delta, faults, off>>
    BY DEF Transfer, XrayRestarts, Clock, loopVars
  <1>2. OffInv' /\ exceeded' \in [Ids -> BOOLEAN]
    BY <1>1, OffKept
  <1>3. \A i \in Ids : counter[i] \in Nat /\ sent[i] \in 0 .. MaxSent /\ delta[i] \in Nat
    BY DEF IInv, TypeOK
  <1>4. \A i \in Ids : i \in present => row[i].all \in Nat
    BY DEF IInv, TypeOK, Rows
  <1>5. /\ now' \in Instants
        /\ counter' \in [Ids -> Nat] /\ sent' \in [Ids -> 0 .. MaxSent]
        /\ \A i \in Ids : counter'[i] <= counter[i] + (sent'[i] - sent[i])
    <2>1. CASE \E i \in Ids : Transfer(i)
      <3>1. PICK i \in Ids : Transfer(i)
        BY <2>1
      <3>2. counter' = [counter EXCEPT ![i] = @ + 1] /\ sent' = [sent EXCEPT ![i] = @ + 1]
        BY <3>1 DEF Transfer
      <3>3. sent[i] < MaxSent /\ now' = now
        BY <3>1 DEF Transfer
      <3> QED BY <1>3, <3>2, <3>3 DEF IInv, TypeOK
    <2>2. CASE XrayRestarts
      BY <1>3, <2>2 DEF XrayRestarts, Zero, IInv, TypeOK
    <2>3. CASE Clock
      BY <1>3, <2>3, TimeAssumption DEF Clock, Instants, IInv, TypeOK
    <2> QED BY <2>1, <2>2, <2>3
  <1>6. ChargedOnce'
    <2> SUFFICES ASSUME NEW i \in Ids
                 PROVE  (IF i \in present THEN row[i].all ELSE 0) + delta[i] + counter'[i]
                          <= sent'[i]
      BY <1>1 DEF ChargedOnce, IInv
    <2>1. (IF i \in present THEN row[i].all ELSE 0) + delta[i] + counter[i] <= sent[i]
      BY DEF IInv, ChargedOnce
    <2>2. counter'[i] \in Nat /\ sent'[i] \in Nat
      BY <1>5
    <2> QED BY <1>3, <1>4, <1>5, <2>1, <2>2
  <1>7. \A i \in Ids : counter'[i] \in 0 .. MaxSent
    <2> SUFFICES ASSUME NEW i \in Ids
                 PROVE  counter'[i] <= MaxSent
      BY <1>5
    <2>1. (IF i \in present THEN row[i].all ELSE 0) + delta[i] + counter'[i] <= sent'[i]
      BY <1>1, <1>6 DEF ChargedOnce
    <2> QED BY <1>3, <1>4, <1>5, <2>1
  <1>8. counter' \in [Ids -> 0 .. MaxSent]
    BY <1>5, <1>7
  <1> QED BY <1>1, <1>2, <1>5, <1>6, <1>8 DEF IInv, TypeOK

(* The handlers that write one row. *)
LEMMA UserSteps ==
  ASSUME IInv, Watch, User
  PROVE  IInv'
  <1>1. now \in Nat
    BY TimeAssumption DEF IInv, TypeOK, Instants
  <1>2. \A i \in Ids : row[i] \in Rows /\ off[i] \in BOOLEAN
    BY DEF IInv, TypeOK
  <1>3. \A i \in present : off[i] /\ ~exceeded[i] => ~row[i].enabled /\ row[i].reason # "quota"
    BY DEF IInv, OffInv
  <1>4. ASSUME NEW i \in Ids, NEW in \in Inputs, Create(i, in)
        PROVE  IInv'
    <2>1. Added(i, NewRow(in), ~in.enabled)
      BY <1>4 DEF Create
    <2> QED BY <1>1, <2>1, NewRowRow, AddedStep
  <1>5. ASSUME NEW i \in Ids, NEW in \in Inputs, Update(i, in)
        PROVE  IInv'
    <2>1. PICK o \in BOOLEAN : o = (~in.enabled /\ (row[i].enabled \/ off[i]))
      OBVIOUS
    <2>2. Change(i, Edited(row[i], in), o, TRUE) /\ Tagged(i) /\ i \in present
      BY <1>5, <2>1 DEF Update, Change
    <2>3. PICK e \in Rows :
            /\ e = Edited(row[i], in) /\ e.used = row[i].used /\ e.all = row[i].all
            /\ e.enabled = in.enabled
            /\ e.reason = "quota" => ~in.enabled /\ ~row[i].enabled /\ row[i].reason = "quota"
      BY <1>1, <1>2, EditedRow, Zenon
    <2>4. o => exceeded[i] \/ OverQuota(e) \/ (~e.enabled /\ e.reason # "quota")
      BY <1>3, <2>1, <2>2, <2>3
    <2>5. Change(i, e, o, TRUE)
      BY <2>2, <2>3, Zenon
    <2>6. row[i].used \in Nat
      BY <1>2 DEF Rows
    <2>7. e.used <= row[i].used
      BY <2>3, <2>6
    <2> QED BY <2>2, <2>3, <2>4, <2>5, <2>7, ChangeStep
  <1>6. ASSUME NEW i \in Ids, NEW j \in Ids, Clone(j, i)
        PROVE  IInv'
    <2>1. PICK o \in BOOLEAN : o = ~Copy(row[j]).enabled
      OBVIOUS
    <2>2. Added(i, Copy(row[j]), o)
      BY <1>6, <2>1 DEF Clone
    <2> QED BY <1>1, <1>2, <2>1, <2>2, CopyRow, AddedStep
  <1>7. ASSUME NEW i \in Ids, Delete(i)
        PROVE  IInv'
    <2> DEFINE p == present \ {i}
               r == [row EXCEPT ![i] = Blank]
               u == [off EXCEPT ![i] = FALSE]
    <2>1. p \in SUBSET Ids /\ r \in [Ids -> Rows] /\ u \in [Ids -> BOOLEAN]
      BY <1>1, BlankRow DEF IInv, TypeOK
    <2>2. \A k \in p : k \in present /\ r[k] = row[k] /\ u[k] = off[k] /\ row[k].all \in Nat
      BY DEF IInv, TypeOK, Rows
    <2>3. \A k \in p : r[k].used <= r[k].all /\ r[k].all <= Life(k)
      BY <2>1, <2>2 DEF IInv, ChargedOnce, Life
    <2>4. \A k \in p : u[k] => \/ exceeded[k] \/ OverQuota(r[k])
                               \/ ~r[k].enabled /\ r[k].reason # "quota"
      BY <1>3, <2>2
    <2>5. /\ Persist(p, r, u, TRUE)
          /\ now' = now /\ seen' = seen /\ tick' = tick /\ delta' = delta /\ sent' = sent
      BY <1>7 DEF Delete, loopVars
    <2>6. /\ delta' \in [Ids -> 0 .. MaxSent] /\ \A k \in Ids : delta'[k] <= delta[k]
          /\ seen' \in Instants /\ tick' \in {"wait", "read", "charged"}
      BY <2>5 DEF IInv, TypeOK
    <2> HIDE DEF p, r, u
    <2> QED BY <2>1, <2>3, <2>4, <2>5, <2>6, PersistStep
  <1>8. ASSUME NEW i \in Ids, ResetTraffic(i)
        PROVE  IInv'
    <2> DEFINE b == [row[i] EXCEPT !.used = 0]
    <2>1. /\ b \in Rows /\ b.used = 0 /\ b.all = row[i].all
          /\ b.enabled = row[i].enabled /\ b.reason = row[i].reason
          /\ row[i].used \in Nat
      BY <1>2 DEF Rows
    <2>2. PICK c \in BOOLEAN : c = Resumes(row[i], now)
      BY <1>2 DEF Resumes, Rows
    <2>3. Change(i, Resumed(b, now), off[i], c) /\ i \in present /\ delta' = delta
      BY <1>8, <2>2 DEF ResetTraffic, Change
    <2> HIDE DEF b
    <2>4. /\ Resumed(b, now) \in Rows
          /\ Resumed(b, now).used = b.used /\ Resumed(b, now).all = b.all
          /\ b.reason # "quota" => Resumed(b, now) = b
      BY <1>1, <2>1, ResumedRow
    <2>5. off[i] => \/ exceeded[i]
                    \/ ~Resumed(b, now).enabled /\ Resumed(b, now).reason # "quota"
      BY <1>3, <2>1, <2>3, <2>4
    <2> QED BY <1>2, <2>1, <2>3, <2>4, <2>5, ChangeStep
  <1>9. ASSUME NEW i \in Ids, NEW on \in BOOLEAN, SetEnabled(i, on)
        PROVE  IInv'
    <2> DEFINE b == [row[i] EXCEPT !.enabled = on, !.reason = IF on THEN "" ELSE "manual"]
    <2>1. /\ b \in Rows /\ b.used = row[i].used /\ b.all = row[i].all
          /\ b.enabled = on /\ b.reason # "quota" /\ row[i].used \in Nat
      BY <1>2 DEF Rows, Reasons
    <2>2. PICK o \in BOOLEAN : o = ~on
      OBVIOUS
    <2>3. Change(i, b, o, TRUE) /\ delta' = delta
      BY <1>9, <2>2, Zenon DEF SetEnabled
    <2> HIDE DEF b
    <2>4. o => ~b.enabled /\ b.reason # "quota"
      BY <2>1, <2>2, Zenon
    <2>5. b.used <= row[i].used
      BY <2>1
    <2> QED BY <2>1, <2>3, <2>4, <2>5, ChangeStep
  <1> QED BY <1>4, <1>5, <1>6, <1>7, <1>8, <1>9 DEF User

(* The loop: what Xray counted moves to the loop, and from there to the    *)
(* accounts, or is lost on the way.                                        *)
LEMMA LoopSteps ==
  ASSUME IInv, Watch, Loop
  PROVE  IInv'
  <1>1. \A i \in Ids : /\ row[i] \in Rows /\ row[i].used \in Nat /\ row[i].all \in Nat
                       /\ delta[i] \in Nat /\ counter[i] \in Nat
    BY DEF IInv, TypeOK, Rows
  <1>2. seen \in Nat /\ present \in SUBSET Ids
    BY TimeAssumption DEF IInv, TypeOK, Instants
  <1>3. CASE ReadAndReset
    <2>1. UNCHANGED <<present, row, serving, now, faults, sent, off>>
      BY <1>3 DEF ReadAndReset
    <2>2. OffInv' /\ exceeded' \in [Ids -> BOOLEAN]
      BY <2>1, OffKept
    <2>3. /\ delta' \in [Ids -> 0 .. MaxSent] /\ counter' \in [Ids -> 0 .. MaxSent]
          /\ tick' \in {"wait", "read", "charged"} /\ seen' \in Instants
      BY <1>3 DEF ReadAndReset, Zero, IInv, TypeOK
    <2>4. \A i \in Ids : /\ delta'[i] \in Nat /\ counter'[i] \in Nat
                         /\ delta'[i] + counter'[i] <= delta[i] + counter[i]
      BY <1>1, <1>3 DEF ReadAndReset, Zero, IInv, TypeOK
    <2>5. ChargedOnce'
      <3> SUFFICES ASSUME NEW i \in Ids
                   PROVE  (IF i \in present THEN row[i].all ELSE 0) + delta'[i] + counter'[i]
                            <= sent[i]
        BY <2>1 DEF ChargedOnce, IInv
      <3>1. (IF i \in present THEN row[i].all ELSE 0) + delta[i] + counter[i] <= sent[i]
        BY DEF IInv, ChargedOnce
      <3>2. sent[i] \in Nat
        BY DEF IInv, TypeOK
      <3> QED BY <1>1, <2>4, <3>1, <3>2
    <2> QED BY <2>1, <2>2, <2>3, <2>5 DEF IInv, TypeOK
  <1>4. CASE AddTraffic
    <2>1. /\ UNCHANGED <<present, serving, counter, now, seen, sent, off>>
          /\ delta' = Zero /\ tick' \in {"wait", "read", "charged"}
          /\ faults' \in 0 .. MaxFaults
      <3>1. /\ UNCHANGED <<present, serving, counter, now, seen, sent, off>>
            /\ delta' = Zero /\ tick' \in {"wait", "read", "charged"}
        BY <1>4 DEF AddTraffic
      <3>2. UNCHANGED faults \/ Fault
        BY <1>4 DEF AddTraffic
      <3> QED BY <3>1, <3>2 DEF Fault, IInv, TypeOK
    <2> DEFINE charged == [i \in Ids |-> IF i \in present
                             THEN [row[i] EXCEPT !.used = @ + delta[i], !.all = @ + delta[i]]
                             ELSE row[i]]
    <2>2. row' = charged \/ row' = row
      BY <1>4 DEF AddTraffic
    <2>3. \A i \in Ids :
            /\ charged[i] \in Rows
            /\ charged[i].used = row[i].used + (IF i \in present THEN delta[i] ELSE 0)
            /\ charged[i].all = row[i].all + (IF i \in present THEN delta[i] ELSE 0)
            /\ charged[i].enabled = row[i].enabled /\ charged[i].reason = row[i].reason
      <3> TAKE i \in Ids
      <3>1. CASE i \in present
        <4> DEFINE c == [row[i] EXCEPT !.used = row[i].used + delta[i],
                                       !.all = row[i].all + delta[i]]
        <4>1. charged[i] = c
          BY <3>1
        <4>2. row[i].used + delta[i] \in Nat /\ row[i].all + delta[i] \in Nat
          BY <1>1
        <4>3. /\ c \in Rows /\ c.used = row[i].used + delta[i] /\ c.all = row[i].all + delta[i]
              /\ c.enabled = row[i].enabled /\ c.reason = row[i].reason
          BY <1>1, <4>2 DEF Rows
        <4> HIDE DEF charged, c
        <4> QED BY <3>1, <4>1, <4>3
      <3>2. CASE i \notin present
        BY <1>1, <3>2
      <3> QED BY <3>1, <3>2
    <2>4. charged \in [Ids -> Rows]
      BY <2>3
    <2> HIDE DEF charged
    <2>5. row' \in [Ids -> Rows]
      BY <2>2, <2>4 DEF IInv, TypeOK
    <2>6. exceeded' \in [Ids -> BOOLEAN]
      BY DEF Watch
    <2>7. TypeOK'
      BY <2>1, <2>5, <2>6 DEF IInv, TypeOK, Zero
    <2>8. ChargedOnce'
      <3> SUFFICES ASSUME NEW i \in Ids
                   PROVE  /\ i \in present => row'[i].used <= row'[i].all
                          /\ (IF i \in present THEN row'[i].all ELSE 0) + 0 + counter[i]
                               <= sent[i]
        BY <2>1 DEF ChargedOnce, Zero
      <3>1. /\ i \in present => row[i].used <= row[i].all
            /\ (IF i \in present THEN row[i].all ELSE 0) + delta[i] + counter[i] <= sent[i]
            /\ sent[i] \in Nat
        BY DEF IInv, ChargedOnce, TypeOK
      <3> QED BY <1>1, <2>2, <2>3, <3>1
    <2>9. OffInv'
      <3> SUFFICES ASSUME NEW i \in present, off[i], ~exceeded'[i]
                   PROVE  ~row'[i].enabled /\ row'[i].reason # "quota"
        BY <2>1 DEF OffInv
      <3>1. i \in Ids /\ ~exceeded[i]
        BY <1>2, <2>1 DEF Watch
      <3>2. row'[i].enabled = row[i].enabled /\ row'[i].reason = row[i].reason
        BY <2>2, <2>3, <3>1
      <3> QED BY <3>1, <3>2 DEF IInv, OffInv
    <2> QED BY <2>7, <2>8, <2>9 DEF IInv
  <1>5. CASE Enforce
    <2> DEFINE judged == [i \in Ids |-> IF i \in present THEN Judged(Renewed(row[i], seen), seen)
                                        ELSE row[i]]
    <2>1. \A i \in Ids : i \in present =>
            /\ judged[i] \in Rows
            /\ judged[i].used <= row[i].used /\ judged[i].all = row[i].all
            /\ row[i].reason # "quota" /\ ~row[i].enabled =>
                 ~judged[i].enabled /\ (judged[i].reason = "quota" => OverQuota(judged[i]))
      <3> SUFFICES ASSUME NEW i \in Ids, i \in present
                   PROVE  /\ judged[i] \in Rows
                          /\ judged[i].used <= row[i].used /\ judged[i].all = row[i].all
                          /\ row[i].reason # "quota" /\ ~row[i].enabled =>
                               /\ ~judged[i].enabled
                               /\ judged[i].reason = "quota" => OverQuota(judged[i])
        OBVIOUS
      <3>1. PICK a : a = Renewed(row[i], seen)
        OBVIOUS
      <3>2. row[i].used <= row[i].all
        BY DEF IInv, ChargedOnce
      <3>3. /\ a \in Rows /\ a.used <= row[i].used /\ a.all = row[i].all
            /\ row[i].reason # "quota" => a.enabled = row[i].enabled /\ a.reason = row[i].reason
        BY <1>1, <1>2, <3>1, <3>2, RenewedRow
      <3>4. PICK b : b = Judged(a, seen)
        OBVIOUS
      <3>5. /\ b \in Rows /\ b.used = a.used /\ b.all = a.all
            /\ b.enabled => a.enabled
            /\ b.reason = "quota" => OverQuota(b) \/ a.reason = "quota"
        BY <1>2, <3>3, <3>4, JudgedRow
      <3>6. judged[i] = b
        BY <3>1, <3>4
      <3> HIDE DEF judged
      <3> QED BY <3>3, <3>5, <3>6
    <2>2. judged \in [Ids -> Rows]
      <3>1. \A i \in Ids : judged[i] \in Rows
        BY <1>1, <2>1
      <3> QED BY <3>1
    <2>3. /\ now' = now /\ seen' = seen /\ tick' = "wait" /\ delta' = delta /\ sent' = sent
          /\ \/ UNCHANGED <<present, row, off, serving, counter, faults>>
             \/ \E c \in BOOLEAN : Persist(present, judged, off, c)
      <3>1. PICK c \in BOOLEAN : c = (\E i \in present : ConfigChanged(row[i], seen))
        OBVIOUS
      <3> QED BY <1>5, <3>1 DEF Enforce
    <2>4. /\ delta' \in [Ids -> 0 .. MaxSent] /\ \A k \in Ids : delta'[k] <= delta[k]
          /\ seen' \in Instants /\ tick' \in {"wait", "read", "charged"}
      BY <1>1, <2>3 DEF IInv, TypeOK
    <2> HIDE DEF judged
    <2>5. \A i \in present : judged[i].used <= judged[i].all /\ judged[i].all <= Life(i)
      <3> SUFFICES ASSUME NEW i \in present
                   PROVE  judged[i].used <= judged[i].all /\ judged[i].all <= Life(i)
        OBVIOUS
      <3>1. /\ i \in Ids /\ row[i].used <= row[i].all /\ Life(i) = row[i].all
        BY <1>2 DEF IInv, ChargedOnce, Life
      <3>2. /\ judged[i].used \in Nat /\ judged[i].used <= row[i].used
            /\ judged[i].all = row[i].all
        BY <2>1, <3>1 DEF Rows
      <3> QED BY <1>1, <3>1, <3>2
    <2>6. \A i \in present : off[i] => \/ exceeded[i] \/ OverQuota(judged[i])
                                       \/ ~judged[i].enabled /\ judged[i].reason # "quota"
      BY <1>2, <2>1 DEF IInv, OffInv
    <2>7. CASE UNCHANGED <<present, row, off, serving, counter, faults>>
      <3>1. OffInv' /\ exceeded' \in [Ids -> BOOLEAN]
        BY <2>7, OffKept
      <3>2. TypeOK'
        BY <2>3, <2>4, <2>7, <3>1 DEF IInv, TypeOK
      <3>3. ChargedOnce'
        BY <2>3, <2>7 DEF IInv, ChargedOnce
      <3> QED BY <3>1, <3>2, <3>3 DEF IInv
    <2>8. CASE \E c \in BOOLEAN : Persist(present, judged, off, c)
      <3>1. PICK c \in BOOLEAN : Persist(present, judged, off, c)
        BY <2>8
      <3>2. off \in [Ids -> BOOLEAN]
        BY DEF IInv, TypeOK
      <3> QED BY <1>2, <2>2, <2>3, <2>4, <2>5, <2>6, <3>1, <3>2, PersistStep
    <2> QED BY <2>3, <2>7, <2>8
  <1> QED BY <1>3, <1>4, <1>5 DEF Loop

(* A crash of the panel forgets what the loop has read. *)
LEMMA RestartStep ==
  ASSUME IInv, Watch, Restart
  PROVE  IInv'
  <1>1. /\ UNCHANGED <<present, row, serving, counter, now, seen, sent, off>>
        /\ tick' = "wait" /\ delta' = Zero /\ faults' \in 0 .. MaxFaults
    BY DEF Restart, Fault, IInv, TypeOK
  <1>2. OffInv' /\ exceeded' \in [Ids -> BOOLEAN]
    BY <1>1, OffKept
  <1>3. TypeOK'
    BY <1>1, <1>2 DEF IInv, TypeOK, Zero
  <1>4. ChargedOnce'
    <2> SUFFICES ASSUME NEW i \in Ids
                 PROVE  (IF i \in present THEN row[i].all ELSE 0) + 0 + counter[i] <= sent[i]
      BY <1>1 DEF ChargedOnce, Zero, IInv
    <2>1. (IF i \in present THEN row[i].all ELSE 0) + delta[i] + counter[i] <= sent[i]
      BY DEF IInv, ChargedOnce
    <2>2. /\ delta[i] \in Nat /\ counter[i] \in Nat /\ sent[i] \in Nat
          /\ i \in present => row[i].all \in Nat
      BY DEF IInv, TypeOK, Rows
    <2> QED BY <2>1, <2>2
  <1> QED BY <1>2, <1>3, <1>4 DEF IInv

-----------------------------------------------------------------------------
(* The invariant is inductive. *)
LEMMA Inductive == Init /\ [][Next]_vars => []IInv
  <1>1. IInv /\ [Next]_vars => IInv'
    <2> SUFFICES ASSUME IInv, [Next]_vars PROVE IInv'
      OBVIOUS
    <2>1. CASE Next
      BY <2>1, WorldSteps, UserSteps, LoopSteps, RestartStep DEF Next
    <2>2. CASE UNCHANGED vars
      BY <2>2 DEF vars, IInv, TypeOK, ChargedOnce, OffInv
    <2> QED BY <2>1, <2>2
  <1> QED BY Begins, <1>1, PTL

THEOREM Invariance == Spec => []IInv
  BY Inductive, PTL DEF Spec

(* TypeOK, for every set of accounts, every calendar and every bound: in   *)
(* particular the rows are what the schema of the table accounts allows.   *)
THEOREM TypeCorrect == Spec => []TypeOK
  <1>1. IInv => TypeOK
    BY DEF IInv
  <1> QED BY Invariance, <1>1, PTL

(* No byte is charged twice by the loop, whatever fails: AddTrafficBatch   *)
(* takes each reading once, and a reset or a clone gives none back.        *)
THEOREM SingleCharge == Spec => []ChargedOnce
  <1>1. IInv => ChargedOnce
    BY DEF IInv
  <1> QED BY Invariance, <1>1, PTL

(* The monthly reset and the reset of the traffic respect a manual disable *)
(* of an account that has not gone over its quota since.                   *)
THEOREM ManualRespected == Spec => []StaysOff
  <1>1. IInv => StaysOff
    BY DEF IInv, OffInv, StaysOff
  <1> QED BY Invariance, <1>1, PTL
=============================================================================
