---------------------------- MODULE LoginLimiter ----------------------------
(***************************************************************************)
(* The two login limiters (internal/auth) and the handler that asks them,  *)
(* compares the password and tells them of it (Server.login).              *)
(*                                                                         *)
(* The limiters have a mutex of their own, held for one call; between the  *)
(* call that admits a login and the one that counts it the handler reads   *)
(* the database and compares a hash, and other logins are served.  A point *)
(* in time is kept as its age, which stops mattering after the window.     *)
(***************************************************************************)
EXTENDS Integers, FiniteSets, Functions

CONSTANTS
  Logins,      \* handlers
  Addresses,   \* remote addresses
  Names,       \* user names tried
  Max,         \* failures per address and name, and per address
  IpMax,
  Window,      \* the two windows, in units of the cleanup interval
  IpWindow,
  Capacity     \* entries of a limiter

ASSUME LoginAssumption ==
  /\ IsFiniteSet(Logins)
  /\ Max \in Nat \ {0} /\ IpMax \in Nat \ {0}
  /\ Window \in Nat \ {0} /\ IpWindow \in Nat \ {0}
  /\ Capacity \in Nat

Keys == Addresses \X Names
Interval == 1  \* one minute: both windows are longer

VARIABLES
  tries,    \* loginLimiter
  ips,      \* ipLimiter
  at,       \* at[l]: where a handler stands
  who       \* who[l]: address and name it serves

vars == <<tries, ips, at, who>>

(* A limiter: its entries, and how long ago the last cleanup was.          *)
Attempts(w) == [count : Nat, age : 0..w]
Limiters(K, w) == [entries : UNION {[S -> Attempts(w)] : S \in SUBSET K}, swept : 0..Interval]
Blank == [entries |-> [k \in {} |-> 0], swept |-> Interval]

Init ==
  /\ tries = Blank
  /\ ips = Blank
  /\ at = [l \in Logins |-> "out"]
  /\ who \in [Logins -> Keys]

Counts(lim, k, w) == k \in DOMAIN lim.entries /\ lim.entries[k].age < w
Blocked(lim, k, max, w) == Counts(lim, k, w) /\ lim.entries[k].count >= max

(* cleanupLocked.                                                          *)
Swept(lim, w) ==
  [entries |-> Restrict(lim.entries, {k \in DOMAIN lim.entries : lim.entries[k].age < w}),
   swept |-> 0]

(* Mutant of Cleaned: entries go with the cleanup interval, not the window.*)
CleanedAll(lim, w) ==
  IF lim.swept < Interval THEN lim ELSE Swept(lim, Interval)
Cleaned(lim, w) == IF lim.swept < Interval THEN lim ELSE Swept(lim, w)

(* Allowed, as a change of the limiter; what it returns is ~Blocked.       *)
AfterAllowed(lim, k, w) ==
  LET c == Cleaned(lim, w) IN
  IF k \in DOMAIN c.entries /\ ~Counts(c, k, w)
  THEN [c EXCEPT !.entries = Restrict(c.entries, DOMAIN c.entries \ {k})]
  ELSE c

(* Mutant of Roomy: a full limiter makes room one entry too late.          *)
RoomyLate(lim, k, w) ==
  LET oldest == {o \in DOMAIN lim.entries :
                   \A p \in DOMAIN lim.entries : lim.entries[p].age <= lim.entries[o].age} IN
  IF k \in DOMAIN lim.entries \/ Cardinality(DOMAIN lim.entries) <= Capacity
  THEN {lim}
  ELSE {[lim EXCEPT !.entries = Restrict(lim.entries, DOMAIN lim.entries \ {o})] : o \in oldest}

(* makeRoomLocked: any of the oldest entries may go.                       *)
Roomy(lim, k, w) ==
  LET c == IF k \in DOMAIN lim.entries \/ Cardinality(DOMAIN lim.entries) < Capacity
           THEN lim ELSE Swept(lim, w)
      oldest == {o \in DOMAIN c.entries :
                   \A p \in DOMAIN c.entries : c.entries[p].age <= c.entries[o].age} IN
  IF k \in DOMAIN c.entries \/ Cardinality(DOMAIN c.entries) < Capacity
  THEN {c}
  ELSE {[c EXCEPT !.entries = Restrict(c.entries, DOMAIN c.entries \ {o})] : o \in oldest}

Entered(entries, k) ==
  [j \in DOMAIN entries \cup {k} |-> IF j = k THEN [count |-> 1, age |-> 0] ELSE entries[j]]

(* Fail.                                                                   *)
AfterFail(lim, k, w) ==
  LET c == Cleaned(lim, w) IN
  IF Counts(c, k, w)
  THEN {[c EXCEPT !.entries[k].count = @ + 1]}
  ELSE {[r EXCEPT !.entries = Entered(r.entries, k)] : r \in Roomy(c, k, w)}

(* Success.                                                                *)
AfterSuccess(lim, k) == [lim EXCEPT !.entries = Restrict(@, DOMAIN @ \ {k})]

(***************************************************************************)
(* login: the limiter of the pair is asked only when that of the address   *)
(* admits the login.                                                       *)
(***************************************************************************)
Ask(l, k) ==
  /\ at[l] = "out"
  /\ who' = [who EXCEPT ![l] = k]
  /\ ips' = AfterAllowed(ips, k[1], IpWindow)
  /\ IF Blocked(ips, k[1], IpMax, IpWindow)
     THEN UNCHANGED <<tries, at>>
     ELSE /\ tries' = AfterAllowed(tries, k, Window)
          /\ at' = IF Blocked(tries, k, Max, Window) THEN at ELSE [at EXCEPT ![l] = "compare"]

Wrong(l) ==
  /\ at[l] = "compare"
  /\ tries' \in AfterFail(tries, who[l], Window)
  /\ at' = [at EXCEPT ![l] = "wrong"]
  /\ UNCHANGED <<ips, who>>

WrongIp(l) ==
  /\ at[l] = "wrong"
  /\ ips' \in AfterFail(ips, who[l][1], IpWindow)
  /\ at' = [at EXCEPT ![l] = "out"]
  /\ UNCHANGED <<tries, who>>

Right(l) ==
  /\ at[l] = "compare"
  /\ tries' = AfterSuccess(tries, who[l])
  /\ ips' = AfterSuccess(ips, who[l][1])
  /\ at' = [at EXCEPT ![l] = "out"]
  /\ UNCHANGED who

Older(lim, w) ==
  [entries |-> [k \in DOMAIN lim.entries |->
                 [lim.entries[k] EXCEPT !.age = IF @ < w THEN @ + 1 ELSE @]],
   swept |-> IF lim.swept < Interval THEN lim.swept + 1 ELSE lim.swept]
Tick ==
  /\ tries' = Older(tries, Window)
  /\ ips' = Older(ips, IpWindow)
  /\ UNCHANGED <<at, who>>

Next ==
  \/ Tick
  \/ \E l \in Logins : (\E k \in Keys : Ask(l, k)) \/ Wrong(l) \/ WrongIp(l) \/ Right(l)

Spec == Init /\ [][Next]_vars

(***************************************************************************)
(* A limiter never outgrows its capacity, and logins that were admitted    *)
(* together exceed the limit of a key by no more than the handlers there   *)
(* are: the check and the count are two calls.                             *)
(***************************************************************************)
Bounded ==
  /\ Cardinality(DOMAIN tries.entries) <= Capacity
  /\ Cardinality(DOMAIN ips.entries) <= Capacity
  /\ \A k \in DOMAIN tries.entries : tries.entries[k].count < Max + Cardinality(Logins)
  /\ \A k \in DOMAIN ips.entries : ips.entries[k].count < IpMax + Cardinality(Logins)

(***************************************************************************)
(* A block ends when its window ends.  Not earlier, unless a login that    *)
(* was admitted before it turns out right or a full limiter drops it; and  *)
(* not later, however often a client asks meanwhile: the logins a limiter  *)
(* refuses do not renew the block.                                         *)
(***************************************************************************)
BlockLasts ==
  [][/\ \A k \in Keys :
          Blocked(tries, k, Max, Window) =>
            \/ Blocked(tries, k, Max, Window)' /\ tries'.entries[k].age >= tries.entries[k].age
            \/ tries.entries[k].age = Window - 1
            \/ \E l \in Logins : at[l] = "compare" /\ at'[l] = "out" /\ who[l] = k
            \/ Cardinality(DOMAIN tries.entries) = Capacity
     /\ \A a \in Addresses :
          Blocked(ips, a, IpMax, IpWindow) /\ Blocked(ips, a, IpMax, IpWindow)' =>
            ips'.entries[a].age >= ips.entries[a].age]_vars
=============================================================================
