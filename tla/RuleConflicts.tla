---------------------------- MODULE RuleConflicts ----------------------------
(***************************************************************************)
(* The rules the firewall page shows, and which of them contradict each    *)
(* other (Inspect and markRuleConflicts, internal/firewall).  A rule that  *)
(* is marked is not to be edited, paused or removed.                       *)
(*                                                                         *)
(* The marks come from a sweep over the rules of each backend, zone and    *)
(* protocol, once per address family, that keeps one rule only: the one    *)
(* that has reached furthest.                                              *)
(***************************************************************************)
EXTENDS Integers, SequencesExt

CONSTANTS
  Groups,   \* backend, zone and protocol of a rule
  Ports,
  MaxRules  \* bound: rules of the firewall

(* The limits of ParsePortSpec.                                            *)
PortAssumption == Ports \subseteq Nat \ {0}

Families == {"both", "ipv4", "ipv6"}

(* A single port is no range: its RangeEnd is zero.                        *)
Rules == [group : Groups, first : Ports, end : Ports \cup {0}, family : Families]
ValidRule(r) == r.end = 0 \/ r.first < r.end
LastPort(r) == IF r.end = 0 THEN r.first ELSE r.end

VARIABLES
  rules,    \* the rules, in the order of Inspect
  conflict  \* the marks: indices of rules

vars == <<rules, conflict>>

TypeOK == rules \in Seq(Rules) /\ conflict \subseteq DOMAIN rules

(* A key of the code's map of groups, which holds those of the rules only. *)
Covers(family) == IF family = "both" THEN {"ipv4", "ipv6"} ELSE {family}
KeysOf(r) == {r.group} \X Covers(r.family)
Keys(s) == UNION {KeysOf(s[i]) : i \in DOMAIN s}
Members(s, key) == {i \in DOMAIN s : key \in KeysOf(s[i])}

(* sort.Slice leaves the order of equal keys open.                         *)
NotAfter(a, b) == a.first < b.first \/ (a.first = b.first /\ a.end <= b.end)
Sorted(s, order) ==
  \A k \in 1..(Len(order) - 1) : NotAfter(s[order[k]], s[order[k + 1]])
Orders(s, members) ==
  {order \in UNION {Bijection(1..n, members) : n \in 0..Len(s)} : Sorted(s, order)}

(* Mutant of Sweep: a rule is compared with the one before it.             *)
SweepNext(s, order) ==
  UNION {{order[k], order[k + 1]} : k \in {j \in 1..(Len(order) - 1) :
    s[order[j + 1]].first <= LastPort(s[order[j]])}}

(* The loop over one group: what it knows after k rules.                   *)
Before == [marks |-> {}, end |-> -1, index |-> -1]
After(s, known, i) ==
  LET meets == s[i].first <= known.end
      furthest == known.end < LastPort(s[i]) IN
  [marks |-> IF meets THEN known.marks \cup {i, known.index} ELSE known.marks,
   end |-> IF furthest THEN LastPort(s[i]) ELSE known.end,
   index |-> IF furthest THEN i ELSE known.index]
Sweep(s, order) ==
  LET known[k \in 0..Len(order)] ==
        IF k = 0 THEN Before ELSE After(s, known[k - 1], order[k]) IN
  known[Len(order)].marks

(* markRuleConflicts: the loop runs once for each group, each in an order  *)
(* of its own.                                                             *)
Marks(s) ==
  LET found == UNION {{<<key, Sweep(s, order)>> : order \in Orders(s, Members(s, key))} :
                        key \in Keys(s)} IN
  {UNION {run[2] : run \in runs} : runs \in
    {r \in SUBSET found : /\ \A key \in Keys(s) : \E run \in r : run[1] = key
                          /\ \A run1, run2 \in r : run1[1] = run2[1] => run1 = run2}}

Init == rules = << >> /\ conflict = {}

(* Whoever manages the firewall changes a rule, and the page is shown      *)
(* again: Inspect lists the rules by their first ports.                    *)
Refresh(s) == rules' = s /\ conflict' \in Marks(s)

Allow ==
  /\ Len(rules) < MaxRules
  /\ \E r \in Rules, i \in 1..(Len(rules) + 1) :
       /\ ValidRule(r)
       /\ i > 1 => rules[i - 1].first <= r.first
       /\ i <= Len(rules) => r.first <= rules[i].first
       /\ Refresh(InsertAt(rules, i, r))
Delete == \E i \in DOMAIN rules : Refresh(RemoveAt(rules, i))

Next == Allow \/ Delete

Spec == Init /\ [][Next]_vars

(***************************************************************************)
(* The sweep finds what a comparison of all pairs finds: a rule is marked  *)
(* exactly when another one of its group has a port and an address family  *)
(* in common with it.                                                      *)
(***************************************************************************)
Contradicts(a, b) ==
  /\ a.group = b.group
  /\ Covers(a.family) \cap Covers(b.family) # {}
  /\ a.first <= LastPort(b) /\ b.first <= LastPort(a)
MarkedExactly ==
  conflict = {i \in DOMAIN rules : \E j \in DOMAIN rules \ {i} : Contradicts(rules[i], rules[j])}
==============================================================================
