------------------------ MODULE FirewallRecoveryProofs ------------------------
(***************************************************************************)
(* FirewallRecovery for every set of ports and timers and any number of    *)
(* failures: types, and that an unconfirmed change is always covered.      *)
(***************************************************************************)
EXTENDS FirewallRecovery, SequenceTheorems, TLAPS

(* What a timer may touch: the rule of its change and, of an edit, the new *)
(* one.  This is why stopping it takes the recovery from no other rule.    *)
Within(s, rs) == \A i \in 1 .. Len(s) : s[i].rule \in rs
Touches(u, r, to) == Within(timer[u].todo, {r, to})

Recorded == \A r \in Rules : pending[r].kind # "none" => Touches(pending[r].unit, r, pending[r].to)

Held ==
  job.at \in Changing \cup {"stage", "query", "stop"} => Touches(job.unit, job.rule, job.to)

(* Until a handler has switched its rules its timer is whole and not due.  *)
Armed ==
  job.at \in Changing =>
    /\ job.kind \in Guarded /\ (job.at = "move" => job.kind = "edit-external")
    /\ job.at \in {"change", "move"} =>
         /\ timer[job.unit].waiting /\ timer[job.unit].left >= 2
         /\ timer[job.unit].todo = Recovery(job.kind, job.rule, job.to)

IInv == TypeOK /\ AlwaysGuarded /\ Recorded /\ Held /\ Armed

USE BoundAssumption

-----------------------------------------------------------------------------
(***************************************************************************)
(* The data                                                                *)
(***************************************************************************)
LEMMA Blanks ==
  /\ Idle \in Jobs /\ Idle.at = "idle"
  /\ NoRecord \in Records /\ NoRecord.kind = "none"
  /\ NoTimer \in Timers /\ ~NoTimer.waiting /\ NoTimer.todo = << >>
  <1>1. PICK p \in Slots : TRUE
    BY SlotsAssumption
  <1>2. AnyRule \in Rules
    <2>1. <<p, "allow">> \in Rules
      BY <1>1 DEF Rules
    <2> QED BY <2>1 DEF AnyRule
  <1>3. AnyUnit \in Units
    BY SlotsAssumption DEF AnyUnit
  <1>4. << >> \in Seq(Commands)
    OBVIOUS
  <1> QED BY <1>2, <1>3, <1>4 DEF Idle, NoRecord, NoTimer, Jobs, Records, Timers, Phases

(* A command for the rules in force. *)
Undoes(s, on, r) == \E i \in 1 .. Len(s) : s[i] = [on |-> on, perm |-> FALSE, rule |-> r]

LEMMA RecoveryShape ==
  ASSUME NEW kind, NEW r \in Rules, NEW to \in Rules
  PROVE  /\ Recovery(kind, r, to) \in Seq(Commands)
         /\ Recovery(kind, r, to) # << >>
         /\ Within(Recovery(kind, r, to), {r, to})
         /\ kind = "add-drop" => Undoes(Recovery(kind, r, to), FALSE, r)
         /\ kind # "add-drop" => Undoes(Recovery(kind, r, to), TRUE, r)
         /\ kind = "edit-external" => Undoes(Recovery(kind, r, to), FALSE, to)
  <1> DEFINE s == Recovery(kind, r, to)
  <1>1. ASSUME NEW q \in Rules, NEW on \in BOOLEAN
        PROVE  /\ Both(q, on) \in Seq(Commands) /\ Len(Both(q, on)) = 2
               /\ Both(q, on)[1] = [on |-> on, perm |-> FALSE, rule |-> q]
               /\ Both(q, on)[2] = [on |-> on, perm |-> TRUE, rule |-> q]
    BY DEF Both, Commands
  <1>2. CASE kind = "edit-external"
    <2> DEFINE a == Both(r, TRUE)
               b == Both(to, FALSE)
    <2>1. s = a \o b
      BY <1>2 DEF Recovery
    <2>2. /\ a \in Seq(Commands) /\ Len(a) = 2 /\ a[1] = [on |-> TRUE, perm |-> FALSE, rule |-> r]
          /\ a[2] = [on |-> TRUE, perm |-> TRUE, rule |-> r]
          /\ b \in Seq(Commands) /\ Len(b) = 2 /\ b[1] = [on |-> FALSE, perm |-> FALSE, rule |-> to]
          /\ b[2] = [on |-> FALSE, perm |-> TRUE, rule |-> to]
      BY <1>1
    <2> HIDE DEF a, b, s
    <2>3. /\ s \in Seq(Commands) /\ Len(s) = Len(a) + Len(b)
          /\ \A i \in 1 .. Len(a) + Len(b) : s[i] = IF i <= Len(a) THEN a[i] ELSE b[i - Len(a)]
      BY <2>1, <2>2, ConcatProperties, Zenon
    <2>4. /\ Len(s) = 4 /\ s # << >>
          /\ s[1] = a[1] /\ s[2] = a[2] /\ s[3] = b[1] /\ s[4] = b[2]
      BY <2>2, <2>3
    <2>5. \A i \in 1 .. Len(s) : s[i].rule \in {r, to}
      BY <2>2, <2>4
    <2>6. 1 \in 1 .. Len(s) /\ 3 \in 1 .. Len(s)
      BY <2>4
    <2>7. Within(s, {r, to})
      BY <2>5 DEF Within
    <2>8. Undoes(s, TRUE, r)
      BY <2>2, <2>4, <2>6, Zenon DEF Undoes
    <2>9. Undoes(s, FALSE, to)
      BY <2>2, <2>4, <2>6, Zenon DEF Undoes
    <2> QED BY <1>2, <2>3, <2>4, <2>7, <2>8, <2>9 DEF s
  <1>3. ASSUME NEW on \in BOOLEAN, s = Both(r, on)
        PROVE  s \in Seq(Commands) /\ s # << >> /\ Within(s, {r, to}) /\ Undoes(s, on, r)
    <2> HIDE DEF s
    <2>1. /\ s \in Seq(Commands) /\ Len(s) = 2
          /\ s[1] = [on |-> on, perm |-> FALSE, rule |-> r]
          /\ s[2] = [on |-> on, perm |-> TRUE, rule |-> r]
      BY <1>1, <1>3, Zenon
    <2>2. s # << >> /\ 1 \in 1 .. Len(s)
      <3>1. Len(s) = 2
        BY <2>1
      <3> QED BY <3>1
    <2>3. s[1].rule = r /\ s[2].rule = r
      BY <2>1
    <2>4. \A i \in 1 .. Len(s) : i = 1 \/ i = 2
      BY <2>1
    <2>5. Within(s, {r, to})
      BY <2>3, <2>4 DEF Within
    <2>6. Undoes(s, on, r)
      BY <2>1, <2>2, Zenon DEF Undoes
    <2> QED BY <2>1, <2>2, <2>5, <2>6
  <1>4. CASE kind = "add-drop"
    <2>1. s = Both(r, FALSE)
      BY <1>4 DEF Recovery
    <2> HIDE DEF s
    <2> QED BY <1>3, <1>4, <2>1 DEF s
  <1>5. CASE kind \notin {"add-drop", "edit-external"}
    <2>1. s = Both(r, TRUE)
      BY <1>5 DEF Recovery
    <2> HIDE DEF s
    <2> QED BY <1>3, <1>5, <2>1 DEF s
  <1> QED BY <1>2, <1>4, <1>5

(* A worker that has run one command goes on with the others. *)
LEMMA TailShape ==
  ASSUME NEW s \in Seq(Commands), s # << >>
  PROVE  /\ Head(s) \in Commands /\ Head(s) = s[1]
         /\ Len(s) = 1 \/ Tail(s) # << >>
         /\ Tail(s) \in Seq(Commands)
         /\ \A i \in 1 .. Len(Tail(s)) : i + 1 \in 1 .. Len(s) /\ Tail(s)[i] = s[i + 1]
         /\ \A i \in 1 .. Len(s) : i = 1 \/ (i - 1 \in 1 .. Len(Tail(s)) /\ Tail(s)[i - 1] = s[i])
  <1> DEFINE t == Tail(s)
  <1>1. /\ Head(s) \in Commands /\ Head(s) = s[1]
        /\ t \in Seq(Commands) /\ Len(t) = Len(s) - 1
        /\ \A i \in 1 .. Len(t) : t[i] = s[i + 1]
    BY HeadTailProperties
  <1>2. Len(s) \in Nat /\ Len(s) # 0
    BY EmptySeq
  <1> HIDE DEF t
  <1>3. Len(s) = 1 \/ t # << >>
    BY <1>1, <1>2
  <1> QED BY <1>1, <1>2, <1>3 DEF t

-----------------------------------------------------------------------------
(***************************************************************************)
(* What keeps the coverage                                                 *)
(***************************************************************************)
(* Nothing new is owed, and what was owed has its timer and its state.     *)
LEMMA GuardedStill ==
  ASSUME AlwaysGuarded,
         \A r \in undue' \ forgone' :
            r \in undue \ forgone /\ (r \in runtime' <=> r \in runtime),
         \A r \in undue', u \in Units : Covers(u, r) /\ (r \in runtime' <=> r \in runtime) => Covers(u, r)'
  PROVE  AlwaysGuarded'
  BY Zenon DEF AlwaysGuarded, Covered

(* The rules of the firewall, the timers and the debts stay. *)
LEMMA GuardedQuietly ==
  ASSUME AlwaysGuarded, UNCHANGED <<runtime, timer>>, undue' \subseteq undue, forgone \subseteq forgone'
  PROVE  AlwaysGuarded'
  <1>1. \A r, u : Covers(u, r) => Covers(u, r)'
    BY DEF Covers
  <1> QED BY <1>1, GuardedStill

(* A rule that was switched is owed nothing. *)
LEMMA GuardedAfter ==
  ASSUME AlwaysGuarded, UNCHANGED timer,
         undue' = undue \ Flipped, forgone \ Flipped \subseteq forgone'
  PROVE  AlwaysGuarded'
  <1>1. \A r, u : Covers(u, r) /\ (r \in runtime' <=> r \in runtime) => Covers(u, r)'
    BY DEF Covers
  <1>2. \A r \in undue' \ forgone' : r \in undue \ forgone /\ (r \in runtime' <=> r \in runtime)
    BY DEF Flipped
  <1> QED BY <1>1, <1>2, GuardedStill

(* Timers and records stay. *)
LEMMA RecordedStill ==
  ASSUME Recorded, UNCHANGED <<pending, timer>>
  PROVE  Recorded'
  BY DEF Recorded, Touches

(* No handler holds the lock. *)
LEMMA Released ==
  ASSUME Leave
  PROVE  Held' /\ Armed' /\ job' \in Jobs
  BY Blanks DEF Leave, Held, Armed, Changing

(* The handler goes on with the same change, past its dangerous phases. *)
LEMMA HeldStill ==
  ASSUME TypeOK, Held, NEW p \in Phases, Goto(p), UNCHANGED timer,
         job.at \in Changing \cup {"stage", "query", "stop"}
  PROVE  Held' /\ job' \in Jobs /\ job'.at = p /\ job'.kind = job.kind
         /\ job'.rule = job.rule /\ job'.to = job.to /\ job'.unit = job.unit
  <1>1. /\ job' \in Jobs /\ job'.at = p /\ job'.kind = job.kind
        /\ job'.rule = job.rule /\ job'.to = job.to /\ job'.unit = job.unit
    BY DEF TypeOK, Jobs, Goto
  <1>2. Touches(job.unit, job.rule, job.to)
    BY DEF Held
  <1>3. Touches(job.unit, job.rule, job.to)'
    BY <1>1, <1>2 DEF Touches
  <1> QED BY <1>1, <1>3 DEF Held

(* The handler goes on after its change. *)
LEMMA Onward ==
  ASSUME TypeOK, Held, Armed, NEW p \in Phases \ {"change", "move"}, Goto(p),
         p \in Changing => job.at \in Changing /\ UNCHANGED timer,
         p \in {"stage", "query", "stop"} =>
            job.at \in {"stage", "query", "stop"} /\ UNCHANGED timer
  PROVE  job' \in Jobs /\ Held' /\ Armed'
  <1>1. /\ job' \in Jobs /\ job'.at = p /\ job'.kind = job.kind
    BY DEF TypeOK, Jobs, Goto
  <1>2. Armed'
    BY <1>1 DEF Armed
  <1>3. CASE p \in Changing \cup {"stage", "query", "stop"}
    BY <1>2, <1>3, HeldStill
  <1>4. CASE p \notin Changing \cup {"stage", "query", "stop"}
    BY <1>1, <1>2, <1>4 DEF Held
  <1> QED BY <1>3, <1>4

LEMMA Faulted ==
  ASSUME TypeOK, Fault \/ UNCHANGED faults
  PROVE  faults' \in 0 .. MaxFaults
  BY DEF TypeOK, Fault

(* Neither rules nor timers change. *)
LEMMA Quiet ==
  ASSUME IInv, UNCHANGED <<runtime, permanent, pending, timer, undue, forgone>>,
         owned' \subseteq Rules, paused' \subseteq Rules, Fault \/ UNCHANGED faults,
         job' \in Jobs, Held', Armed'
  PROVE  IInv'
  <1>1. TypeOK'
    BY Faulted DEF IInv, TypeOK
  <1>2. AlwaysGuarded' /\ Recorded'
    BY GuardedQuietly, RecordedStill DEF IInv
  <1> QED BY <1>1, <1>2 DEF IInv

(* A helper switches its rule or nothing. *)
LEMMA SwitchedRule ==
  ASSUME TypeOK, NEW q \in Rules, NEW on \in BOOLEAN, Switch(q, on) \/ SwitchFails(q, on)
  PROVE  /\ runtime' \subseteq Rules /\ permanent' \subseteq Rules /\ faults' \in 0 .. MaxFaults
         /\ Flipped \subseteq {q}
         /\ q \in Flipped => (q \in runtime' <=> on)
  BY DEF TypeOK, Switch, SwitchFails, Set, Fault, Flipped, rules

(* A guarded change may switch a rule that a timer will switch back. *)
LEMMA Owing ==
  ASSUME AlwaysGuarded, UNCHANGED timer, Owe, NEW q, NEW u \in Units,
         Flipped \subseteq {q}, q \in Flipped => Covers(u, q)'
  PROVE  AlwaysGuarded'
  <1>1. \A r, v : Covers(v, r) /\ (r \in runtime' <=> r \in runtime) => Covers(v, r)'
    BY DEF Covers
  <1>2. SUFFICES ASSUME NEW r \in undue' \ forgone'
                 PROVE  Covered(r)'
    BY DEF AlwaysGuarded
  <1>3. CASE r \in Flipped
    BY <1>3, Zenon DEF Covered
  <1>4. CASE r \notin Flipped
    <2>1. r \in undue \ forgone /\ (r \in runtime' <=> r \in runtime)
      BY <1>4 DEF Owe, Flipped
    <2>2. PICK v \in Units : Covers(v, r)
      BY <2>1, Zenon DEF AlwaysGuarded, Covered
    <2> QED BY <1>1, <2>1, <2>2, Zenon DEF Covered
  <1> QED BY <1>3, <1>4

(* A timer that has a command to undo the switch of q covers it. *)
LEMMA CoversAfter ==
  ASSUME NEW u, NEW q, NEW on \in BOOLEAN, UNCHANGED timer, q \in runtime' <=> ~on,
         Undoes(timer[u].todo, on, q)
  PROVE  Covers(u, q)'
  <1>1. on = (q \notin runtime')
    OBVIOUS
  <1> QED BY <1>1, Zenon DEF Covers, Undoes

LEMMA OwingType ==
  ASSUME TypeOK, Owe \/ Settle \/ Abandon({}), Flipped \subseteq Rules
  PROVE  undue' \subseteq Rules /\ forgone' \subseteq Rules
  BY DEF TypeOK, Owe, Settle, Abandon

-----------------------------------------------------------------------------
(***************************************************************************)
(* The steps                                                               *)
(***************************************************************************)
LEMMA InitStep == Init => IInv
  <1> SUFFICES ASSUME Init PROVE IInv
    OBVIOUS
  <1>1. TypeOK
    BY Blanks DEF Init, TypeOK
  <1>2. AlwaysGuarded
    BY DEF Init, AlwaysGuarded
  <1>3. Recorded
    BY Blanks DEF Init, Recorded
  <1>4. Held /\ Armed
    BY Blanks DEF Init, Held, Armed, Changing
  <1> QED BY <1>1, <1>2, <1>3, <1>4 DEF IInv

LEMMA ArmStep ==
  ASSUME IInv, NEW r \in Rules, NEW to \in Rules, NEW kind \in Guarded, Arm(kind, r, to)
  PROVE  IInv'
  <1> DEFINE rec == Recovery(kind, r, to)
  <1>1. PICK u \in Units :
          /\ Fresh(u)
          /\ timer' = [timer EXCEPT ![u] = [todo |-> rec, waiting |-> TRUE, left |-> Delay]]
          /\ \/ job' = [at |-> "change", kind |-> kind, rule |-> r, to |-> to, unit |-> u]
                /\ UNCHANGED faults
             \/ Fault /\ UNCHANGED job
    BY DEF Arm
  <1>2. rec \in Seq(Commands) /\ rec # << >> /\ Within(rec, {r, to})
    BY RecoveryShape
  <1>3. job = Idle /\ UNCHANGED <<runtime, permanent, owned, paused, pending, undue, forgone>>
    BY DEF Arm, rules, settings, history
  <1> HIDE DEF rec
  <1>4. /\ timer' \in [Units -> Timers]
        /\ timer'[u] = [todo |-> rec, waiting |-> TRUE, left |-> Delay]
        /\ \A v \in Units \ {u} : timer'[v] = timer[v]
    BY <1>1, <1>2 DEF IInv, TypeOK, Timers
  <1>5. job' \in Jobs /\ faults' \in 0 .. MaxFaults
    BY <1>1, <1>3, Blanks DEF IInv, TypeOK, Jobs, Phases, Fault
  <1>6. TypeOK'
    BY <1>2, <1>3, <1>4, <1>5 DEF IInv, TypeOK
  <1>7. AlwaysGuarded'
    <2>1. \A v \in Units : \A q : Covers(v, q) => Covers(v, q)'
      BY <1>1, <1>3, <1>4, Blanks DEF Covers, Fresh
    <2> QED BY <1>3, <2>1, GuardedStill DEF IInv
  <1>8. Recorded'
    <2>1. SUFFICES ASSUME NEW q \in Rules, pending[q].kind # "none"
                   PROVE  Touches(pending[q].unit, q, pending[q].to)'
      BY <1>3 DEF Recorded
    <2>2. pending[q].unit \in Units \ {u}
      BY <1>1, <2>1 DEF Fresh, IInv, TypeOK, Records
    <2>3. Touches(pending[q].unit, q, pending[q].to)
      BY <2>1 DEF IInv, Recorded
    <2> QED BY <1>3, <1>4, <2>2, <2>3 DEF Touches
  <1>9. Held' /\ Armed'
    <2>1. CASE job' = [at |-> "change", kind |-> kind, rule |-> r, to |-> to, unit |-> u]
      <3>1. Touches(u, r, to)'
        BY <1>2, <1>4 DEF Touches
      <3>2. Held'
        BY <2>1, <3>1 DEF Held
      <3>3. Armed'
        BY <2>1, <1>4 DEF Armed, rec, Changing
      <3> QED BY <3>2, <3>3
    <2>2. CASE UNCHANGED job
      BY <1>3, <2>2, Blanks DEF Held, Armed, Changing
    <2> QED BY <1>1, <2>1, <2>2
  <1> QED BY <1>6, <1>7, <1>8, <1>9 DEF IInv

LEMMA ChangeRuleStep ==
  ASSUME IInv, ChangeRule
  PROVE  IInv'
  <1> DEFINE todo == timer[job.unit].todo
  <1>1. /\ TypeOK /\ job.at = "change" /\ job \in Jobs /\ job.unit \in Units
        /\ UNCHANGED <<owned, paused, pending, timer>> /\ Owe
    BY DEF ChangeRule, IInv, TypeOK, Jobs, settings
  <1>2. /\ job.kind \in Guarded /\ timer[job.unit].waiting /\ timer[job.unit].left >= 2
        /\ todo = Recovery(job.kind, job.rule, job.to)
    BY <1>1 DEF IInv, Armed, Changing
  <1>3. job.rule \in Rules /\ job.to \in Rules /\ Subject \in Rules /\ Switches \in BOOLEAN
    BY <1>1 DEF Jobs, Subject, Switches
  <1>4. /\ runtime' \subseteq Rules /\ permanent' \subseteq Rules /\ faults' \in 0 .. MaxFaults
        /\ Flipped \subseteq {Subject} /\ (Subject \in Flipped => (Subject \in runtime' <=> Switches))
    BY <1>1, <1>3, SwitchedRule DEF ChangeRule
  <1>5. Undoes(todo, ~Switches, Subject)
    <2> DEFINE rec == Recovery(job.kind, job.rule, job.to)
    <2>1. /\ job.kind = "add-drop" => Undoes(rec, FALSE, job.rule)
          /\ job.kind # "add-drop" => Undoes(rec, TRUE, job.rule)
          /\ job.kind = "edit-external" => Undoes(rec, FALSE, job.to)
      BY <1>3, RecoveryShape
    <2>2. todo = rec
      BY <1>2
    <2> HIDE DEF todo, rec
    <2>3. CASE Switches
      <3>1. (~Switches) = FALSE /\ Undoes(rec, FALSE, Subject)
        BY <2>1, <2>3 DEF Subject, Switches
      <3> QED BY <2>2, <3>1, Zenon
    <2>4. CASE ~Switches
      <3>1. (~Switches) = TRUE /\ Undoes(rec, TRUE, Subject)
        BY <2>1, <2>4 DEF Subject, Switches
      <3> QED BY <2>2, <3>1, Zenon
    <2> QED BY <2>3, <2>4
  <1>6. PICK u \in Units, q \in Rules, on \in BOOLEAN : u = job.unit /\ q = Subject /\ on = ~Switches
    BY <1>1, <1>3
  <1>7. AlwaysGuarded'
    <2>1. q \in Flipped => (q \in runtime' <=> ~on)
      BY <1>4, <1>6
    <2>2. Undoes(timer[u].todo, on, q)
      BY <1>5, <1>6
    <2>3. q \in Flipped => Covers(u, q)'
      BY <1>1, <2>1, <2>2, CoversAfter
    <2> QED BY <1>1, <1>4, <1>6, <2>3, Owing DEF IInv
  <1>8. undue' \subseteq Rules /\ forgone' \subseteq Rules
    BY <1>1, <1>3, <1>4, OwingType
  <1>9. job' \in Jobs /\ Held' /\ Armed'
    <2>1. CASE Leave
      BY <2>1, Released
    <2>2. CASE Goto(IF job.kind = "edit-external" THEN "move" ELSE "save")
      <3>1. CASE job.kind = "edit-external"
        <4>1. Goto("move") /\ "move" \in Phases /\ job.at \in Changing
          BY <1>1, <2>2, <3>1 DEF Phases, Changing
        <4>2. /\ Held' /\ job' \in Jobs /\ job'.at = "move" /\ job'.kind = job.kind
              /\ job'.rule = job.rule /\ job'.to = job.to /\ job'.unit = job.unit
          BY <1>1, <4>1, HeldStill DEF IInv
        <4> QED BY <1>1, <1>2, <3>1, <4>2 DEF Armed
      <3>2. CASE job.kind # "edit-external"
        <4>1. Goto("save") /\ "save" \in Phases /\ job.at \in Changing
          BY <1>1, <2>2, <3>2 DEF Phases, Changing
        <4>2. Held' /\ job' \in Jobs /\ job'.at = "save" /\ job'.kind = job.kind
          BY <1>1, <4>1, HeldStill DEF IInv
        <4> QED BY <1>2, <4>2 DEF Armed
      <3> QED BY <3>1, <3>2
    <2> QED BY <2>1, <2>2 DEF ChangeRule
  <1>10. TypeOK'
    BY <1>1, <1>4, <1>8, <1>9 DEF TypeOK
  <1>11. Recorded'
    BY <1>1, RecordedStill DEF IInv
  <1> QED BY <1>7, <1>9, <1>10, <1>11 DEF IInv

LEMMA MoveStep ==
  ASSUME IInv, Move
  PROVE  IInv'
  <1>1. /\ TypeOK /\ job.at = "move" /\ job \in Jobs
        /\ UNCHANGED <<owned, paused, pending, timer>> /\ Owe
    BY DEF Move, IInv, TypeOK, settings
  <1>2. job.kind = "edit-external" /\ timer[job.unit].todo = Recovery(job.kind, job.rule, job.to)
    BY <1>1 DEF IInv, Armed, Changing
  <1>3. PICK u \in Units, q \in Rules, to \in Rules : u = job.unit /\ q = job.rule /\ to = job.to
    BY <1>1 DEF Jobs
  <1>4. /\ runtime' \subseteq Rules /\ permanent' \subseteq Rules /\ faults' \in 0 .. MaxFaults
        /\ Flipped \subseteq {q} /\ (q \in Flipped => q \notin runtime')
    BY <1>1, <1>3, SwitchedRule DEF Move
  <1>5. Undoes(timer[u].todo, TRUE, q)
    <2>1. Undoes(Recovery("edit-external", q, to), TRUE, q)
      BY RecoveryShape
    <2> QED BY <1>2, <1>3, <2>1
  <1>6. AlwaysGuarded'
    <2>1. q \in Flipped => Covers(u, q)'
      BY <1>1, <1>4, <1>5, CoversAfter
    <2> QED BY <1>1, <1>4, <2>1, Owing DEF IInv
  <1>7. undue' \subseteq Rules /\ forgone' \subseteq Rules
    BY <1>1, <1>4, OwingType
  <1>8. job' \in Jobs /\ Held' /\ Armed'
    <2>1. CASE Leave
      BY <2>1, Released
    <2>2. CASE Goto("check")
      <3>1. "check" \in Phases \ {"change", "move"} /\ job.at \in Changing
        BY <1>1 DEF Phases, Changing
      <3> QED BY <1>1, <2>2, <3>1, Onward DEF IInv, Changing
    <2> QED BY <2>1, <2>2 DEF Move
  <1>9. TypeOK'
    BY <1>1, <1>4, <1>7, <1>8 DEF TypeOK
  <1>10. Recorded'
    BY <1>1, RecordedStill DEF IInv
  <1> QED BY <1>6, <1>8, <1>9, <1>10 DEF IInv

LEMMA CheckMoveStep ==
  ASSUME IInv, CheckMove
  PROVE  IInv'
  <1>1. /\ TypeOK /\ job.at \in Changing /\ (Fault \/ UNCHANGED faults)
        /\ UNCHANGED <<runtime, permanent, owned, paused, pending, timer, undue, forgone>>
    BY DEF CheckMove, IInv, rules, settings, history, Changing
  <1>2. job' \in Jobs /\ Held' /\ Armed'
    <2>1. CASE Leave
      BY <2>1, Released
    <2>2. CASE Goto("save")
      <3>1. "save" \in Phases \ {"change", "move"}
        BY DEF Phases
      <3> QED BY <1>1, <2>2, <3>1, Onward DEF IInv, Changing
    <2> QED BY <2>1, <2>2 DEF CheckMove
  <1> QED BY <1>1, <1>2, Quiet DEF TypeOK

LEMMA SavePendingStep ==
  ASSUME IInv, SavePending
  PROVE  IInv'
  <1>1. /\ TypeOK /\ job.at \in Changing /\ job \in Jobs /\ (Fault \/ UNCHANGED faults)
        /\ UNCHANGED <<runtime, permanent, owned, paused, timer, undue, forgone>>
    BY DEF SavePending, IInv, TypeOK, rules, history, Changing
  <1>2. job' \in Jobs /\ Held' /\ Armed'
    BY Released DEF SavePending
  <1>3. AlwaysGuarded'
    BY <1>1, GuardedQuietly DEF IInv
  <1>4. CASE UNCHANGED pending
    BY <1>1, <1>2, <1>4, Quiet DEF TypeOK
  <1>5. CASE pending' = [pending EXCEPT ![job.rule] =
                           [kind |-> job.kind, to |-> job.to, unit |-> job.unit,
                            left |-> timer[job.unit].left]]
    <2> DEFINE new == [kind |-> job.kind, to |-> job.to, unit |-> job.unit,
                       left |-> timer[job.unit].left]
    <2>1. job.kind \in Guarded
      BY <1>1 DEF IInv, Armed
    <2>2. timer[job.unit].left \in 0 .. Delay /\ job.rule \in Rules
      BY <1>1 DEF TypeOK, Timers, Jobs
    <2>3. new \in Records /\ new.unit = job.unit /\ new.to = job.to
      BY <1>1, <2>1, <2>2 DEF Records, Jobs
    <2> HIDE DEF new
    <2>4. /\ pending' \in [Rules -> Records] /\ pending'[job.rule] = new
          /\ \A q \in Rules \ {job.rule} : pending'[q] = pending[q]
      BY <1>1, <1>5, <2>2, <2>3 DEF TypeOK, new
    <2>5. TypeOK'
      BY <1>1, <1>2, <2>4, Faulted DEF TypeOK
    <2>6. SUFFICES ASSUME NEW q \in Rules, pending'[q].kind # "none"
                   PROVE  Touches(pending[q].unit, q, pending[q].to)'
      BY <1>2, <1>3, <2>5 DEF IInv, Recorded
    <2>7. CASE q = job.rule
      <3>1. Touches(job.unit, job.rule, job.to)
        BY <1>1 DEF IInv, Held
      <3> QED BY <1>1, <2>3, <2>4, <2>7, <3>1 DEF Touches
    <2>8. CASE q # job.rule
      <3>1. pending'[q] = pending[q]
        BY <2>4, <2>8
      <3>2. Touches(pending[q].unit, q, pending[q].to)
        BY <2>6, <3>1 DEF IInv, Recorded
      <3> QED BY <1>1, <3>1, <3>2 DEF Touches
    <2> QED BY <2>7, <2>8
  <1> QED BY <1>4, <1>5 DEF SavePending

LEMMA BeginStep ==
  ASSUME IInv, NEW kind \in Plain, NEW r \in Rules, Begin(kind, r)
  PROVE  IInv'
  <1>1. /\ job' = [Idle EXCEPT !.at = "add", !.kind = kind, !.rule = r, !.to = r]
        /\ UNCHANGED <<runtime, permanent, owned, paused, pending, timer, faults, undue, forgone>>
    BY DEF Begin, rules, settings, history
  <1>2. job' \in Jobs /\ job'.at = "add"
    BY <1>1, Blanks DEF Jobs, Phases
  <1>3. Held' /\ Armed'
    BY <1>2 DEF Held, Armed, Changing
  <1> QED BY <1>1, <1>2, <1>3, Quiet DEF IInv, TypeOK

LEMMA AddRuleStep ==
  ASSUME IInv, AddRule
  PROVE  IInv'
  <1>1. /\ TypeOK /\ job.at = "add" /\ job.rule \in Rules
        /\ UNCHANGED <<owned, paused, pending, timer>> /\ Settle
    BY DEF AddRule, IInv, TypeOK, Jobs, settings
  <1>2. /\ runtime' \subseteq Rules /\ permanent' \subseteq Rules /\ faults' \in 0 .. MaxFaults
        /\ Flipped \subseteq Rules
    BY <1>1, SwitchedRule DEF AddRule
  <1>3. job' \in Jobs /\ Held' /\ Armed'
    <2>1. CASE Leave
      BY <2>1, Released
    <2>2. CASE Goto("record")
      <3>1. "record" \in Phases \ {"change", "move"}
        BY DEF Phases
      <3> QED BY <1>1, <2>2, <3>1, Onward DEF IInv, Changing
    <2> QED BY <2>1, <2>2 DEF AddRule
  <1>4. AlwaysGuarded'
    BY <1>1, GuardedAfter DEF IInv, Settle
  <1>5. TypeOK'
    BY <1>1, <1>2, <1>3, OwingType DEF TypeOK
  <1> QED BY <1>1, <1>3, <1>4, <1>5, RecordedStill DEF IInv

LEMMA RecordStep ==
  ASSUME IInv, Record
  PROVE  IInv'
  <1>1. /\ TypeOK /\ job.at = "record" /\ job.rule \in Rules /\ (Fault \/ UNCHANGED faults)
        /\ UNCHANGED <<runtime, permanent, pending, timer, undue, forgone>>
    BY DEF Record, IInv, TypeOK, Jobs, rules, history
  <1>2. job' \in Jobs /\ Held' /\ Armed'
    <2>1. CASE Leave
      BY <2>1, Released
    <2>2. CASE Goto("undo")
      <3>1. "undo" \in Phases \ {"change", "move"}
        BY DEF Phases
      <3> QED BY <1>1, <2>2, <3>1, Onward DEF IInv, Changing
    <2> QED BY <2>1, <2>2 DEF Record
  <1>3. owned' \subseteq Rules /\ paused' \subseteq Rules
    BY <1>1 DEF Record, TypeOK
  <1> QED BY <1>1, <1>2, <1>3, Quiet

LEMMA UndoAddStep ==
  ASSUME IInv, UndoAdd
  PROVE  IInv'
  <1>1. /\ TypeOK /\ job.rule \in Rules
        /\ UNCHANGED <<owned, paused, pending, timer>> /\ Abandon({})
    BY DEF UndoAdd, IInv, TypeOK, Jobs, settings
  <1>2. /\ runtime' \subseteq Rules /\ permanent' \subseteq Rules /\ faults' \in 0 .. MaxFaults
        /\ Flipped \subseteq Rules
    BY <1>1, SwitchedRule DEF UndoAdd
  <1>3. job' \in Jobs /\ Held' /\ Armed'
    BY Released DEF UndoAdd
  <1>4. AlwaysGuarded'
    BY <1>1, GuardedAfter DEF IInv, Abandon
  <1>5. TypeOK'
    BY <1>1, <1>2, <1>3, OwingType DEF TypeOK
  <1> QED BY <1>1, <1>3, <1>4, <1>5, RecordedStill DEF IInv

LEMMA ConfirmStep ==
  ASSUME IInv, NEW r \in Rules, Confirm(r)
  PROVE  IInv'
  <1>1. /\ pending[r].kind # "none" /\ pending[r] \in Records
        /\ job' = [at |-> "stage", kind |-> pending[r].kind, rule |-> r,
                   to |-> pending[r].to, unit |-> pending[r].unit]
        /\ UNCHANGED <<runtime, permanent, owned, paused, pending, timer, faults, undue, forgone>>
    BY DEF Confirm, Waits, IInv, TypeOK, rules, settings, history
  <1>2. /\ job' \in Jobs /\ job'.at = "stage" /\ job'.rule = r
        /\ job'.to = pending[r].to /\ job'.unit = pending[r].unit
    BY <1>1 DEF Jobs, Phases, Records
  <1>3. Touches(pending[r].unit, r, pending[r].to)
    BY <1>1 DEF IInv, Recorded
  <1>4. Held' /\ Armed'
    BY <1>1, <1>2, <1>3 DEF Held, Armed, Changing, Touches
  <1> QED BY <1>1, <1>2, <1>4, Quiet DEF IInv, TypeOK

LEMMA StageStep ==
  ASSUME IInv, Stage
  PROVE  IInv'
  <1>1. /\ TypeOK /\ job.at = "stage" /\ job.rule \in Rules /\ (Fault \/ UNCHANGED faults)
        /\ UNCHANGED <<runtime, permanent, pending, timer, undue, forgone>>
    BY DEF Stage, IInv, TypeOK, Jobs, rules, history
  <1>2. job' \in Jobs /\ Held' /\ Armed'
    <2>1. CASE Leave
      BY <2>1, Released
    <2>2. CASE Goto("query")
      <3>1. "query" \in Phases \ {"change", "move"}
        BY DEF Phases
      <3> QED BY <1>1, <2>2, <3>1, Onward DEF IInv, Changing
    <2> QED BY <2>1, <2>2 DEF Stage
  <1>3. owned' \subseteq Rules /\ paused' \subseteq Rules
    BY <1>1 DEF Stage, TypeOK
  <1> QED BY <1>1, <1>2, <1>3, Quiet

LEMMA QueryStep ==
  ASSUME IInv, Query
  PROVE  IInv'
  <1>1. /\ TypeOK /\ job.at = "query" /\ (Fault \/ UNCHANGED faults)
        /\ UNCHANGED <<runtime, permanent, pending, timer, undue, forgone>>
    BY DEF Query, IInv, rules, history
  <1>2. job' \in Jobs /\ Held' /\ Armed'
    <2>1. CASE Leave
      BY <2>1, Released
    <2>2. CASE Goto("stop")
      <3>1. "stop" \in Phases \ {"change", "move"}
        BY DEF Phases
      <3> QED BY <1>1, <2>2, <3>1, Onward DEF IInv, Changing
    <2> QED BY <2>1, <2>2 DEF Query, Unstage
  <1>3. owned' \subseteq Rules /\ paused' \subseteq Rules
    BY <1>1 DEF Query, Unstage, TypeOK
  <1> QED BY <1>1, <1>2, <1>3, Quiet

(* The timer that is stopped touches none but the rules of the change. *)
LEMMA StopStep ==
  ASSUME IInv, Stop
  PROVE  IInv'
  <1>1. PICK u \in Units, q \in Rules, to \in Rules : u = job.unit /\ q = job.rule /\ to = job.to
    BY DEF IInv, TypeOK, Jobs
  <1>2. /\ TypeOK /\ job.at = "stop" /\ (Fault \/ UNCHANGED faults)
        /\ UNCHANGED <<runtime, permanent, pending>>
        /\ undue' = undue \ {q, to} /\ forgone \subseteq forgone' /\ forgone' \subseteq Rules
    BY <1>1 DEF Stop, IInv, TypeOK, rules
  <1>3. /\ timer' \in [Units -> Timers]
        /\ timer'[u] = NoTimer \/ timer'[u] = timer[u]
        /\ \A v \in Units \ {u} : timer'[v] = timer[v]
        /\ \A v \in Units : timer'[v].waiting => timer'[v].todo # << >>
    BY <1>1, <1>2, Blanks DEF Stop, TypeOK
  <1>4. job' \in Jobs /\ Held' /\ Armed'
    <2>1. CASE Leave
      BY <2>1, Released
    <2>2. CASE Goto("verify")
      <3>1. "verify" \in Phases \ {"change", "move"} /\ "verify" \notin Changing \cup {"stage", "query", "stop"}
        BY DEF Phases, Changing
      <3> QED BY <1>2, <2>2, <3>1, Onward DEF IInv
    <2> QED BY <2>1, <2>2 DEF Stop, Unstage
  <1>5. owned' \subseteq Rules /\ paused' \subseteq Rules
    BY <1>1, <1>2 DEF Stop, Unstage, TypeOK
  <1>6. TypeOK'
    <2>1. undue' \subseteq Rules
      BY <1>2 DEF TypeOK
    <2> QED BY <1>2, <1>3, <1>4, <1>5, <2>1, Faulted DEF TypeOK
  <1>7. AlwaysGuarded'
    <2>1. SUFFICES ASSUME NEW r \in undue' \ forgone'
                   PROVE  Covered(r)'
      BY DEF AlwaysGuarded
    <2>2. PICK v \in Units : Covers(v, r)
      BY <1>2, <2>1, Zenon DEF IInv, AlwaysGuarded, Covered
    <2>3. v # u
      <3>1. Within(timer[u].todo, {q, to}) /\ r \notin {q, to}
        BY <1>1, <1>2, <2>1 DEF IInv, Held, Touches
      <3>2. SUFFICES ASSUME v = u PROVE FALSE
        OBVIOUS
      <3>3. PICK i \in 1 .. Len(timer[u].todo) :
              timer[u].todo[i] = [on |-> r \notin runtime, perm |-> FALSE, rule |-> r]
        BY <2>2, <3>2, Zenon DEF Covers
      <3>4. timer[u].todo[i].rule = r
        BY <3>3
      <3> QED BY <3>1, <3>4 DEF Within
    <2>4. Covers(v, r)'
      <3>1. timer'[v] = timer[v]
        BY <1>3, <2>3
      <3> QED BY <1>2, <2>2, <3>1 DEF Covers
    <2> QED BY <2>4, Zenon DEF Covered
  <1>8. Recorded'
    <2>1. SUFFICES ASSUME NEW r \in Rules, pending[r].kind # "none"
                   PROVE  Touches(pending[r].unit, r, pending[r].to)'
      BY <1>2 DEF Recorded
    <2>2. pending[r].unit \in Units /\ Touches(pending[r].unit, r, pending[r].to)
      BY <1>2, <2>1 DEF IInv, TypeOK, Records, Recorded
    <2>3. Within(<< >>, {r, pending[r].to})
      BY DEF Within
    <2>4. timer'[pending[r].unit].todo \in {<< >>, timer[pending[r].unit].todo}
      BY <1>3, <2>2, Blanks
    <2> QED BY <1>2, <2>2, <2>3, <2>4 DEF Touches
  <1> QED BY <1>4, <1>6, <1>7, <1>8 DEF IInv

LEMMA VerifyStep ==
  ASSUME IInv, Verify
  PROVE  IInv'
  <1>1. /\ TypeOK /\ (Fault \/ UNCHANGED faults)
        /\ UNCHANGED <<runtime, permanent, owned, paused, pending, timer, undue, forgone>>
    BY DEF Verify, IInv, rules, settings, history
  <1>2. job' \in Jobs /\ Held' /\ Armed'
    <2>1. CASE Leave
      BY <2>1, Released
    <2>2. CASE Goto("finish")
      <3>1. "finish" \in Phases \ {"change", "move"} /\ "finish" \notin Changing \cup {"stage", "query", "stop"}
        BY DEF Phases, Changing
      <3> QED BY <1>1, <2>2, <3>1, Onward DEF IInv
    <2> QED BY <2>1, <2>2 DEF Verify
  <1> QED BY <1>1, <1>2, Quiet DEF TypeOK

LEMMA FinishStep ==
  ASSUME IInv, Finish
  PROVE  IInv'
  <1>1. /\ TypeOK /\ job.rule \in Rules /\ (Fault \/ UNCHANGED faults)
        /\ UNCHANGED <<runtime, permanent, timer, undue, forgone>>
    BY DEF Finish, IInv, TypeOK, Jobs, rules, settings, history
  <1>2. job' \in Jobs /\ Held' /\ Armed'
    BY Released DEF Finish
  <1>3. owned' \subseteq Rules /\ paused' \subseteq Rules
    BY <1>1 DEF Finish, TypeOK, settings
  <1>4. /\ pending' \in [Rules -> Records]
        /\ \A r \in Rules : pending'[r] = pending[r] \/ pending'[r] = NoRecord
    BY <1>1, Blanks DEF Finish, TypeOK, settings
  <1>5. TypeOK'
    BY <1>1, <1>2, <1>3, <1>4, Faulted DEF TypeOK
  <1>6. AlwaysGuarded'
    BY <1>1, GuardedQuietly DEF IInv
  <1>7. Recorded'
    <2>1. SUFFICES ASSUME NEW r \in Rules, pending'[r].kind # "none"
                   PROVE  Touches(pending[r].unit, r, pending[r].to)'
      BY DEF Recorded
    <2>2. pending'[r] = pending[r]
      BY <1>4, <2>1, Blanks
    <2>3. Touches(pending[r].unit, r, pending[r].to)
      BY <2>1, <2>2 DEF IInv, Recorded
    <2> QED BY <1>1, <2>2, <2>3 DEF Touches
  <1> QED BY <1>2, <1>5, <1>6, <1>7 DEF IInv

(* A timer that is due is not that of a handler that still changes rules. *)
LEMMA FireStep ==
  ASSUME IInv, NEW u \in Units, Fire(u)
  PROVE  IInv'
  <1>1. /\ TypeOK /\ timer[u].waiting /\ timer[u].left < 2
        /\ UNCHANGED <<runtime, permanent, owned, paused, pending, job, faults, undue, forgone>>
    BY DEF Fire, IInv, rules, settings, history
  <1>2. /\ timer' \in [Units -> Timers]
        /\ ~timer'[u].waiting
        /\ \A v \in Units : timer'[v].todo = timer[v].todo /\ (v # u => timer'[v] = timer[v])
    BY <1>1 DEF Fire, TypeOK, Timers
  <1>3. TypeOK'
    <2>1. \A v \in Units : timer'[v].waiting => timer'[v].todo # << >>
      BY <1>1, <1>2 DEF TypeOK
    <2> QED BY <1>1, <1>2, <2>1 DEF TypeOK
  <1>4. AlwaysGuarded'
    <2>1. \A v \in Units : \A r : Covers(v, r) => Covers(v, r)'
      BY <1>1, <1>2 DEF Covers
    <2> QED BY <1>1, <2>1, GuardedStill DEF IInv
  <1>5. Recorded'
    BY <1>1, <1>2 DEF IInv, Recorded, Touches, TypeOK, Records
  <1>6. Held'
    BY <1>1, <1>2 DEF IInv, Held, Touches, TypeOK, Jobs
  <1>7. Armed'
    <2>1. job.at \in {"change", "move"} => job.unit \in Units \ {u} /\ timer[job.unit].left >= 2
      <3> HAVE job.at \in {"change", "move"}
      <3>1. job.unit \in Units /\ timer[job.unit].left >= 2
        BY <1>1 DEF IInv, Armed, Changing, TypeOK, Jobs
      <3>2. timer[job.unit].left \in Nat /\ timer[u].left \in Nat
        BY <1>1, <3>1 DEF TypeOK, Timers
      <3> QED BY <1>1, <3>1, <3>2
    <2> QED BY <1>1, <1>2, <2>1 DEF IInv, Armed
  <1> QED BY <1>3, <1>4, <1>5, <1>6, <1>7 DEF IInv

(* A worker switches back the rule of its next command and keeps the rest. *)
LEMMA WorkStep ==
  ASSUME IInv, NEW u \in Units, Work(u)
  PROVE  IInv'
  <1> DEFINE s == timer[u].todo
             c == Head(s)
  <1>1. /\ TypeOK /\ s \in Seq(Commands) /\ s # << >> /\ ~timer[u].waiting
        /\ UNCHANGED <<owned, paused, pending, job, faults>>
    BY DEF Work, IInv, TypeOK, Timers, settings
  <1>2. /\ c \in Commands /\ c = s[1] /\ (Len(s) = 1 \/ Tail(s) # << >>) /\ Tail(s) \in Seq(Commands)
        /\ \A i \in 1 .. Len(Tail(s)) : i + 1 \in 1 .. Len(s) /\ Tail(s)[i] = s[i + 1]
        /\ \A i \in 1 .. Len(s) : i = 1 \/ (i - 1 \in 1 .. Len(Tail(s)) /\ Tail(s)[i - 1] = s[i])
    BY <1>1, TailShape
  <1>3. /\ runtime' = IF c.perm THEN runtime ELSE Set(runtime, c.rule, c.on)
        /\ permanent' = IF c.perm THEN Set(permanent, c.rule, c.on) ELSE permanent
        /\ undue' = undue \ Flipped /\ forgone \ Flipped \subseteq forgone'
        /\ Settle \/ Abandon({})
        /\ timer' = [timer EXCEPT ![u] =
                       IF Len(s) = 1 THEN NoTimer ELSE [timer[u] EXCEPT !.todo = Tail(s)]]
    <2>1. /\ runtime' = IF c.perm THEN runtime ELSE Set(runtime, c.rule, c.on)
          /\ permanent' = IF c.perm THEN Set(permanent, c.rule, c.on) ELSE permanent
          /\ IF c.on THEN Settle ELSE Abandon({})
      BY Zenon DEF Work
    <2>2. timer' = [timer EXCEPT ![u] =
                      IF Len(s) = 1 THEN NoTimer ELSE [timer[u] EXCEPT !.todo = Tail(s)]]
      BY Zenon DEF Work
    <2>3. Settle => undue' = undue \ Flipped /\ forgone \ Flipped \subseteq forgone'
      BY DEF Settle
    <2>4. Abandon({}) => undue' = undue \ Flipped /\ forgone \ Flipped \subseteq forgone'
      BY DEF Abandon
    <2>5. Settle \/ Abandon({})
      BY <2>1
    <2> HIDE DEF s, c
    <2> QED BY <2>1, <2>2, <2>3, <2>4, <2>5
  <1> HIDE DEF s, c
  <1>4. /\ timer' \in [Units -> Timers]
        /\ ~timer'[u].waiting
        /\ timer'[u].todo = (IF Len(s) = 1 THEN << >> ELSE Tail(s))
        /\ \A v \in Units \ {u} : timer'[v] = timer[v]
    BY <1>1, <1>2, <1>3, Blanks DEF TypeOK, Timers
  <1>5. c.rule \in Rules /\ c.on \in BOOLEAN /\ c.perm \in BOOLEAN
    BY <1>2 DEF Commands
  <1>6. TypeOK'
    <2>1. /\ runtime' \subseteq Rules /\ permanent' \subseteq Rules /\ Flipped \subseteq Rules
      BY <1>1, <1>3, <1>5 DEF TypeOK, Set, Flipped
    <2>2. undue' \subseteq Rules /\ forgone' \subseteq Rules
      BY <1>1, <1>3, <2>1, OwingType
    <2>3. \A v \in Units : timer'[v].waiting => timer'[v].todo # << >>
      BY <1>1, <1>4 DEF TypeOK
    <2> QED BY <1>1, <1>4, <2>1, <2>2, <2>3 DEF TypeOK
  <1>7. ASSUME NEW rs, Within(s, rs)
        PROVE  Within(timer'[u].todo, rs)
    <2>1. CASE Len(s) = 1
      BY <1>4, <2>1 DEF Within
    <2>2. CASE Len(s) # 1
      <3>1. timer'[u].todo = Tail(s)
        BY <1>4, <2>2
      <3>2. Within(Tail(s), rs)
        BY <1>2, <1>7, Zenon DEF Within
      <3> QED BY <3>1, <3>2
    <2> QED BY <2>1, <2>2
  <1>8. \A v \in Units : \A r, to : Touches(v, r, to) => Touches(v, r, to)'
    <2>1. SUFFICES ASSUME NEW v \in Units, NEW r, NEW to, Touches(v, r, to)
                   PROVE  Touches(v, r, to)'
      OBVIOUS
    <2>2. CASE v = u
      <3>1. Within(s, {r, to})
        BY <2>1, <2>2 DEF Touches, s
      <3> QED BY <1>7, <2>2, <3>1 DEF Touches
    <2>3. CASE v # u
      BY <1>4, <2>1, <2>3 DEF Touches
    <2> QED BY <2>2, <2>3
  <1>9. Recorded'
    BY <1>1, <1>8 DEF IInv, Recorded, TypeOK, Records
  <1>10. Held'
    <2>1. PICK v \in Units, r \in Rules, to \in Rules : v = job.unit /\ r = job.rule /\ to = job.to
      BY <1>1 DEF TypeOK, Jobs
    <2>2. Touches(v, r, to) => Touches(v, r, to)'
      BY <1>8
    <2> QED BY <1>1, <2>1, <2>2 DEF IInv, Held, Touches
  <1>11. Armed'
    <2>1. job.at \in {"change", "move"} => job.unit \in Units \ {u}
      BY <1>1 DEF IInv, Armed, Changing, TypeOK, Jobs
    <2> QED BY <1>1, <1>4, <2>1 DEF IInv, Armed
  <1>12. AlwaysGuarded'
    <2>1. \A r \in undue' \ forgone' : r \in undue \ forgone /\ (r \in runtime' <=> r \in runtime)
      BY <1>3 DEF Flipped
    <2>2. SUFFICES ASSUME NEW r \in undue', NEW v \in Units, Covers(v, r), r \in runtime' <=> r \in runtime
                   PROVE  Covers(v, r)'
      BY <2>1, GuardedStill DEF IInv
    <2>3. CASE v # u
      BY <1>4, <2>2, <2>3 DEF Covers
    <2>4. CASE v = u
      <3>1. PICK i \in 1 .. Len(s) : s[i] = [on |-> r \notin runtime, perm |-> FALSE, rule |-> r]
        BY <2>2, <2>4, Zenon DEF Covers, s
      <3>2. i # 1
        <4>1. SUFFICES ASSUME i = 1 PROVE FALSE
          OBVIOUS
        <4>2. c = [on |-> r \notin runtime, perm |-> FALSE, rule |-> r]
          BY <1>2, <3>1, <4>1, Zenon
        <4>3. c.rule = r /\ c.perm = FALSE /\ (c.on <=> r \notin runtime)
          BY <4>2
        <4> QED BY <1>3, <2>2, <4>3 DEF Set
      <3>3. i - 1 \in 1 .. Len(Tail(s)) /\ Tail(s)[i - 1] = s[i]
        BY <1>2, <3>1, <3>2
      <3>4. Len(s) # 1
        BY <3>1, <3>2
      <3>5. timer'[u].todo = Tail(s)
        BY <1>4, <3>4
      <3>6. (r \notin runtime) = (r \notin runtime')
        BY <2>2
      <3>7. i - 1 \in 1 .. Len(timer'[u].todo)
        BY <3>3, <3>5
      <3>8. timer'[u].todo[i - 1] = [on |-> r \notin runtime', perm |-> FALSE, rule |-> r]
        BY <3>1, <3>3, <3>5, <3>6, Zenon
      <3> QED BY <2>4, <3>7, <3>8, Zenon DEF Covers
    <2> QED BY <2>3, <2>4
  <1> QED BY <1>6, <1>9, <1>10, <1>11, <1>12 DEF IInv

(* Time does not reach the timer of a handler that still changes rules. *)
LEMMA TickStep ==
  ASSUME IInv, Tick
  PROVE  IInv'
  <1>1. /\ TypeOK
        /\ \A u \in Units : timer[u] = NoTimer \/ (timer[u].waiting /\ timer[u].left > 0)
        /\ job.at \in Changing => timer[job.unit].left > 2
        /\ UNCHANGED <<runtime, permanent, owned, paused, job, faults, undue, forgone>>
    BY DEF Tick, IInv, rules, history
  <1>2. ASSUME NEW u \in Units
        PROVE  /\ timer'[u] \in Timers /\ timer'[u].todo = timer[u].todo
               /\ timer'[u].waiting = timer[u].waiting
               /\ timer[u].waiting => timer'[u].left = timer[u].left - 1
    <2>1. timer[u] \in Timers
      BY <1>1 DEF TypeOK
    <2>2. timer'[u] = IF timer[u].waiting THEN [timer[u] EXCEPT !.left = @ - 1] ELSE timer[u]
      BY DEF Tick
    <2>3. CASE timer[u].waiting
      <3>1. timer[u].left - 1 \in 0 .. Delay
        BY <1>1, <2>1, <2>3, Blanks DEF Timers
      <3> QED BY <2>1, <2>2, <2>3, <3>1 DEF Timers
    <2>4. CASE ~timer[u].waiting
      BY <2>1, <2>2, <2>4
    <2> QED BY <2>3, <2>4
  <1>3. ASSUME NEW r \in Rules
        PROVE  /\ pending'[r] \in Records /\ pending'[r].kind = pending[r].kind
               /\ pending'[r].to = pending[r].to /\ pending'[r].unit = pending[r].unit
    <2>1. pending[r] \in Records
      BY <1>1 DEF TypeOK
    <2>2. pending'[r] = IF Waits(r) THEN [pending[r] EXCEPT !.left = @ - 1] ELSE pending[r]
      BY DEF Tick
    <2>3. CASE Waits(r)
      <3>1. pending[r].left - 1 \in 0 .. Delay
        BY <2>1, <2>3 DEF Records, Waits
      <3> QED BY <2>1, <2>2, <2>3, <3>1 DEF Records
    <2>4. CASE ~Waits(r)
      BY <2>1, <2>2, <2>4
    <2> QED BY <2>3, <2>4
  <1>4. timer' \in [Units -> Timers] /\ pending' \in [Rules -> Records]
    BY <1>2, <1>3 DEF Tick
  <1>5. TypeOK'
    <2>1. \A u \in Units : timer'[u].waiting => timer'[u].todo # << >>
      BY <1>1, <1>2 DEF TypeOK
    <2> QED BY <1>1, <1>4, <2>1 DEF TypeOK
  <1>6. AlwaysGuarded'
    <2>1. \A v \in Units : \A r : Covers(v, r) => Covers(v, r)'
      BY <1>1, <1>2 DEF Covers
    <2> QED BY <1>1, <2>1, GuardedStill DEF IInv
  <1>7. Recorded'
    <2>1. SUFFICES ASSUME NEW r \in Rules, pending'[r].kind # "none"
                   PROVE  Touches(pending[r].unit, r, pending[r].to)'
      BY DEF Recorded
    <2>2. pending[r].unit \in Units /\ Touches(pending[r].unit, r, pending[r].to)
      BY <1>1, <1>3, <2>1 DEF IInv, TypeOK, Records, Recorded
    <2>3. timer'[pending[r].unit].todo = timer[pending[r].unit].todo
      BY <1>2, <2>2
    <2> QED BY <1>3, <2>2, <2>3 DEF Touches
  <1>8. Held'
    BY <1>1, <1>2 DEF IInv, Held, Touches, TypeOK, Jobs
  <1>9. Armed'
    <2>1. job.at \in {"change", "move"} =>
            job.unit \in Units /\ timer[job.unit].waiting /\ timer'[job.unit].left >= 2
      <3> HAVE job.at \in {"change", "move"}
      <3>1. job.unit \in Units /\ timer[job.unit].waiting /\ timer[job.unit].left > 2
        BY <1>1 DEF IInv, Armed, Changing, TypeOK, Jobs
      <3>2. timer[job.unit].left \in Nat
        BY <1>1, <3>1 DEF TypeOK, Timers
      <3> QED BY <1>2, <3>1, <3>2
    <2> QED BY <1>1, <1>2, <2>1 DEF IInv, Armed
  <1> QED BY <1>5, <1>6, <1>7, <1>8, <1>9 DEF IInv

LEMMA CrashStep ==
  ASSUME IInv, Crash
  PROVE  IInv'
  <1>1. Held' /\ Armed' /\ job' \in Jobs
    BY Released DEF Crash
  <1> QED BY <1>1, Quiet DEF Crash, IInv, TypeOK, rules, settings, history

LEMMA RebootStep ==
  ASSUME IInv, Reboot
  PROVE  IInv'
  <1>1. /\ TypeOK /\ Fault /\ runtime' = permanent
        /\ UNCHANGED <<permanent, owned, paused, pending>>
        /\ timer' = [u \in Units |-> NoTimer] /\ Abandon(Rules)
    BY DEF Reboot, IInv, settings
  <1>2. job' \in Jobs /\ Held' /\ Armed'
    BY Released DEF Reboot
  <1>3. undue' \subseteq Rules /\ forgone' = Rules
    BY <1>1 DEF TypeOK, Abandon, Flipped
  <1>4. TypeOK'
    BY <1>1, <1>2, <1>3, Blanks, Faulted DEF TypeOK
  <1>5. AlwaysGuarded'
    BY <1>3 DEF AlwaysGuarded
  <1>6. Recorded'
    <2>1. SUFFICES ASSUME NEW r \in Rules
                   PROVE  Touches(pending[r].unit, r, pending[r].to)'
      BY DEF Recorded
    <2>2. timer'[pending[r].unit].todo = << >>
      BY <1>1, Blanks DEF TypeOK, Records
    <2> QED BY <1>1, <2>2 DEF Touches, Within
  <1> QED BY <1>2, <1>4, <1>5, <1>6 DEF IInv

LEMMA ExternalStep ==
  ASSUME IInv, NEW r \in Rules, External(r)
  PROVE  IInv'
  <1>1. /\ TypeOK /\ Fault /\ Abandon({})
        /\ runtime' \subseteq Rules /\ permanent' \subseteq Rules
        /\ UNCHANGED <<owned, paused, pending, timer, job>>
    BY DEF External, IInv, TypeOK, Set, settings
  <1>2. TypeOK'
    <2>1. Flipped \subseteq Rules
      BY <1>1 DEF Flipped, TypeOK
    <2> QED BY <1>1, <2>1, Faulted, OwingType DEF TypeOK
  <1>3. AlwaysGuarded'
    BY <1>1, GuardedAfter DEF IInv, Abandon
  <1>4. Recorded' /\ Held' /\ Armed'
    BY <1>1 DEF IInv, Recorded, Held, Armed, Touches
  <1> QED BY <1>2, <1>3, <1>4 DEF IInv

LEMMA NextStep ==
  ASSUME IInv, [Next]_vars
  PROVE  IInv'
  <1>1. CASE UNCHANGED vars
    <2>1. UNCHANGED <<runtime, permanent, owned, paused, pending, timer, job, faults, undue, forgone>>
      BY <1>1 DEF vars
    <2>2. TypeOK' /\ Held' /\ Armed'
      BY <2>1 DEF IInv, TypeOK, Held, Armed, Touches
    <2> QED BY <2>1, <2>2, GuardedQuietly, RecordedStill DEF IInv
  <1>2. CASE Request
    BY <1>2, ArmStep, BeginStep, ConfirmStep DEF Request
  <1>3. CASE Handler
    BY <1>3, ChangeRuleStep, MoveStep, CheckMoveStep, SavePendingStep, AddRuleStep, RecordStep,
       UndoAddStep, StageStep, QueryStep, StopStep, VerifyStep, FinishStep DEF Handler
  <1>4. CASE Systemd
    BY <1>4, TickStep, FireStep, WorkStep DEF Systemd
  <1>5. CASE Crash \/ Reboot \/ \E r \in Rules : External(r)
    BY <1>5, CrashStep, RebootStep, ExternalStep
  <1> QED BY <1>1, <1>2, <1>3, <1>4, <1>5 DEF Next

-----------------------------------------------------------------------------
LEMMA Inductive == Init /\ [][Next]_vars => []IInv
  BY InitStep, NextStep, PTL

(* The settings, the timers and the handler are what the code can hold.    *)
THEOREM TypeCorrect == Spec => []TypeOK
  <1>1. IInv => TypeOK
    BY DEF IInv
  <1> QED BY <1>1, Inductive, PTL DEF Spec

(***************************************************************************)
(* Whatever fails and whenever the panel dies, every rule an unconfirmed   *)
(* change has switched has a timer that will switch it back, unless the    *)
(* machine was restarted or another manager changed the rule.              *)
(***************************************************************************)
THEOREM AlwaysCovered == Spec => []AlwaysGuarded
  <1>1. IInv => AlwaysGuarded
    BY DEF IInv
  <1> QED BY <1>1, Inductive, PTL DEF Spec
==============================================================================
