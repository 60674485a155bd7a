------------------------- MODULE AccountEditorProofs -------------------------
(***************************************************************************)
(* Proofs about AccountEditor, for any documents and any texts.            *)
(*                                                                         *)
(* They go field by field: a lemma says of each operator of a form which   *)
(* fields it writes, drops and leaves alone, and what the forms show and   *)
(* what Xray makes of a document are functions of its fields.  That no     *)
(* field is without its object is the only invariant they need.            *)
(***************************************************************************)
EXTENDS AccountEditor, TLAPS

-----------------------------------------------------------------------------
(* Documents and their fields: what each operator of the forms changes     *)

(* Dropping a field leaves the others.                                     *)
LEMMA HasDrop ==
  ASSUME NEW d, NEW o, NEW k, NEW o2, NEW k2
  PROVE  Has(Drop(d, o, k), o2, k2) <=> Has(d, o2, k2) /\ ~(o2 = o /\ k2 = k)
  BY DEF Has, Drop, Restrict

LEMMA FieldDrop ==
  ASSUME NEW d, NEW o, NEW k, NEW o2, NEW k2
  PROVE  Field(Drop(d, o, k), o2, k2) = IF o2 = o /\ k2 = k THEN Empty ELSE Field(d, o2, k2)
  BY DEF Field, Has, Drop, Restrict

(* An object that is made sure of is there, and no field changes.          *)
LEMMA HasWith ==
  ASSUME NEW d, NEW o, NEW o2, NEW k2
  PROVE  Has(With(d, o), o2, k2) <=> Has(d, o2, k2) \/ (o2 = o /\ k2 = "object")
  BY DEF Has, With

LEMMA FieldWith ==
  ASSUME NEW d, NEW o, NEW o2, NEW k2, k2 # "object"
  PROVE  Field(With(d, o), o2, k2) = Field(d, o2, k2)
  BY DEF Field, Has, With

(* A field that is set is there, in an object that is there.               *)
LEMMA HasSet ==
  ASSUME NEW d, NEW o, NEW k, NEW v, NEW o2, NEW k2
  PROVE  Has(Set(d, o, k, v), o2, k2) <=> Has(d, o2, k2) \/ (o2 = o /\ k2 \in {"object", k})
<1>1. Has(Set(d, o, k, v), o2, k2) <=> Has(With(d, o), o2, k2) \/ (o2 = o /\ k2 = k)
  BY DEF Has, Set
<1>2. QED
  BY <1>1, HasWith

LEMMA FieldSet ==
  ASSUME NEW d, NEW o, NEW k, NEW v, NEW o2, NEW k2, k2 # "object"
  PROVE  Field(Set(d, o, k, v), o2, k2) = IF o2 = o /\ k2 = k THEN v ELSE Field(d, o2, k2)
<1>1. CASE o2 = o /\ k2 = k
  BY <1>1 DEF Field, Has, Set
<1>2. CASE ~(o2 = o /\ k2 = k)
  BY <1>2, FieldWith DEF Field, Has, Set
<1>3. QED
  BY <1>1, <1>2

LEMMA FieldTidy ==
  ASSUME NEW d, NEW o, NEW o2, NEW k2, k2 # "object"
  PROVE  Field(Tidy(d, o), o2, k2) = Field(d, o2, k2)
<1>1. Field(Drop(d, o, "object"), o2, k2) = Field(d, o2, k2)
  BY FieldDrop
<1>2. QED
  BY <1>1 DEF Tidy

(* Tidying drops an object only when it has no field.                      *)
LEMMA HasTidy ==
  ASSUME NEW d, NEW o, NEW o2
  PROVE  /\ Has(Tidy(d, o), o2, "object") => Has(d, o2, "object")
         /\ o2 # o => (Has(Tidy(d, o), o2, "object") <=> Has(d, o2, "object"))
         /\ Has(d, o, "object") /\ ~Has(Tidy(d, o), o, "object")
              => \A k : k # "object" => Field(d, o, k) = Empty
<1>1. Has(d, o, "object") /\ ~Has(Tidy(d, o), o, "object")
        => \A k : k # "object" => Field(d, o, k) = Empty
  <2> SUFFICES ASSUME ~(Tidy(d, o) = d), NEW k, k # "object" PROVE Field(d, o, k) = Empty
    OBVIOUS
  <2>1. \A f \in DOMAIN d : f[1] = o => f[2] = "object"
    BY DEF Tidy
  <2>2. <<o, k>> \in DOMAIN d => FALSE
    BY <2>1
  <2>3. QED
    BY <2>2 DEF Field, Has
<1>2. QED
  BY <1>1, HasDrop DEF Tidy

LEMMA FieldWithout ==
  ASSUME NEW d, NEW o, NEW o2, NEW k2
  PROVE  Field(Without(d, o), o2, k2) = IF o2 = o THEN Empty ELSE Field(d, o2, k2)
  BY DEF Field, Has, Without, Restrict

LEMMA FieldSetOrDelete ==
  ASSUME NEW d, NEW o, NEW k, NEW v, NEW o2, NEW k2, k2 # "object"
  PROVE  Field(SetOrDelete(d, o, k, v), o2, k2) =
           IF o2 = o /\ k2 = k THEN v ELSE Field(d, o2, k2)
  BY FieldDrop, FieldSet DEF SetOrDelete

LEMMA FieldSetIf ==
  ASSUME NEW d, NEW o, NEW k, NEW v, NEW o2, NEW k2, k2 # "object"
  PROVE  Field(SetIf(d, o, k, v), o2, k2) =
           IF o2 = o /\ k2 = k /\ v # Empty THEN v ELSE Field(d, o2, k2)
  BY FieldSet DEF SetIf

LEMMA HasSetIf ==
  ASSUME NEW d, NEW o, NEW k, NEW v, NEW o2, o2 # o
  PROVE  Has(SetIf(d, o, k, v), o2, "object") <=> Has(d, o2, "object")
  BY HasSet DEF SetIf

LEMMA HasSetOrDelete ==
  ASSUME NEW d, NEW o, NEW k, k # "object", NEW v, NEW o2
  PROVE  /\ Has(d, o2, "object") => Has(SetOrDelete(d, o, k, v), o2, "object")
         /\ o2 # o => (Has(SetOrDelete(d, o, k, v), o2, "object") <=> Has(d, o2, "object"))
  BY HasDrop, HasSet DEF SetOrDelete

Gone(d, objects) == Restrict(d, {f \in DOMAIN d : f[1] \in objects => f[2] # "proxy"})

LEMMA FieldGone ==
  ASSUME NEW d, NEW objects, NEW o2, NEW k2
  PROVE  Field(Gone(d, objects), o2, k2) =
           IF o2 \in objects /\ k2 = "proxy" THEN Empty ELSE Field(d, o2, k2)
  BY DEF Field, Has, Gone, Restrict

LEMMA HasGone ==
  ASSUME NEW d, NEW objects, NEW o2
  PROVE  Has(Gone(d, objects), o2, "object") <=> Has(d, o2, "object")
  BY DEF Has, Gone, Restrict

(* The PROXY protocol moves from the transports to sockopt.                *)
LEMMA FieldProxied ==
  ASSUME NEW d, NEW objects, NEW proxy, NEW o2, NEW k2, k2 # "object"
  PROVE  Field(Proxied(d, objects, proxy), o2, k2) =
           IF k2 # "proxy" THEN Field(d, o2, k2)
           ELSE IF o2 = "sockopt" THEN IF proxy = "on" THEN "on" ELSE Empty
           ELSE IF o2 \in objects THEN Empty ELSE Field(d, o2, k2)
<1> DEFINE gone == Gone(d, objects)
<1> HIDE DEF gone
<1>1. Field(gone, o2, k2) = IF o2 \in objects /\ k2 = "proxy" THEN Empty ELSE Field(d, o2, k2)
  BY FieldGone DEF gone
<1>2. CASE proxy = "on"
  <2>1. Proxied(d, objects, proxy) = Set(gone, "sockopt", "proxy", "on")
    BY <1>2 DEF Proxied, gone, Gone
  <2>2. QED
    BY <2>1, <1>1, <1>2, FieldSet
<1>3. CASE proxy # "on"
  <2>1. Proxied(d, objects, proxy) = Tidy(Drop(gone, "sockopt", "proxy"), "sockopt")
    BY <1>3 DEF Proxied, gone, Gone
  <2>2. Field(Proxied(d, objects, proxy), o2, k2) =
          Field(Drop(gone, "sockopt", "proxy"), o2, k2)
    BY <2>1, FieldTidy
  <2>3. QED
    BY <2>2, <1>1, <1>3, FieldDrop
<1>4. QED
  BY <1>2, <1>3

LEMMA HasProxied ==
  ASSUME NEW d, NEW objects, NEW proxy, NEW o2, o2 # "sockopt"
  PROVE  Has(Proxied(d, objects, proxy), o2, "object") <=> Has(d, o2, "object")
<1> DEFINE gone == Gone(d, objects)
<1> HIDE DEF gone
<1>1. Has(gone, o2, "object") <=> Has(d, o2, "object")
  BY HasGone DEF gone
<1>2. CASE proxy = "on"
  <2>1. Proxied(d, objects, proxy) = Set(gone, "sockopt", "proxy", "on")
    BY <1>2 DEF Proxied, gone, Gone
  <2>2. QED
    BY <2>1, <1>1, HasSet
<1>3. CASE proxy # "on"
  <2>1. Proxied(d, objects, proxy) = Tidy(Drop(gone, "sockopt", "proxy"), "sockopt")
    BY <1>3 DEF Proxied, gone, Gone
  <2>2. QED
    BY <2>1, <1>1, HasDrop, HasTidy
<1>4. QED
  BY <1>2, <1>3

(* Of the fields only the header changes; the object may go with it when   *)
(* nothing else is in it.                                                  *)
LEMMA FieldHeaded ==
  ASSUME NEW d, NEW o, NEW header, NEW o2, NEW k2, k2 # "object"
  PROVE  Field(Headed(d, o, header), o2, k2) =
           IF o2 = o /\ k2 = "header" THEN header ELSE Field(d, o2, k2)
  BY FieldTidy, FieldDrop, FieldSet DEF Headed

LEMMA HasHeaded ==
  ASSUME NEW d, NEW o, NEW header, NEW o2
  PROVE  /\ o2 # o => (Has(Headed(d, o, header), o2, "object") <=> Has(d, o2, "object"))
         /\ Has(d, o, "object") /\ ~Has(Headed(d, o, header), o, "object")
              => /\ header = Empty
                 /\ \A k : k \notin {"object", "header"} => Field(d, o, k) = Empty
         /\ Has(Headed(d, o, header), o, "object") => Has(d, o, "object") \/ header # Empty
<1>1. CASE header # Empty
  <2>1. Headed(d, o, header) = Set(d, o, "header", header)
    BY <1>1 DEF Headed
  <2>2. QED
    BY <1>1, <2>1, HasSet
<1>2. CASE header = Empty
  <2> DEFINE e == Drop(d, o, "header")
  <2>1. Headed(d, o, header) = Tidy(e, o)
    BY <1>2 DEF Headed
  <2>2. \A o3 : Has(e, o3, "object") <=> Has(d, o3, "object")
    BY HasDrop
  <2>3. \A k : k # "header" => Field(e, o, k) = Field(d, o, k)
    BY FieldDrop
  <2> HIDE DEF e
  <2>4. QED
    BY <1>2, <2>1, <2>2, <2>3, HasTidy
<1>3. QED
  BY <1>1, <1>2

TransportKeys == {"path", "service", "header", "mode", "padding", "other"}
HostKeys == {"host", "Host", "lowerHost"}
SecureKeys == {"names", "ids", "key", "options", "name", "alpn", "other"}

(* What Xray makes of a document depends on these fields alone.            *)
LEMMA ServesSame ==
  ASSUME NEW d, NEW e,
         Method(e) = Method(d), Security(e) = Security(d), Target(e) = Target(d),
         Field(e, "settings", "flow") = Field(d, "settings", "flow"),
         Field(e, "settings", "fallbacks") = Field(d, "settings", "fallbacks"),
         (\E o \in {"sockopt"} \cup Proxying(e) : Field(e, o, "proxy") = "on")
           <=> \E o \in {"sockopt"} \cup Proxying(d) : Field(d, o, "proxy") = "on",
         \A k \in TransportKeys : Field(e, Active(e), k) = Field(d, Active(d), k),
         Hosts(e, Active(e)) = Hosts(d, Active(d)),
         Security(d) # "none" =>
           \A k \in SecureKeys : Field(e, Security(d), k) = Field(d, Security(d), k)
  PROVE  Serves(e) = Serves(d)
  BY DEF Serves, TransportKeys, SecureKeys

(* What is not there has no fields.                                        *)
LEMMA Absent ==
  ASSUME NEW d, WellFormed(d), NEW o, ~Has(d, o, "object"), NEW k
  PROVE  ~Has(d, o, k) /\ Field(d, o, k) = Empty
<1>1. ~Has(d, o, k)
  BY DEF Has, WellFormed
<1>2. QED
  BY <1>1 DEF Field

LEMMA WellDrop ==
  ASSUME NEW d, WellFormed(d), NEW o, NEW k, k # "object"
  PROVE  WellFormed(Drop(d, o, k))
  BY DEF WellFormed, Drop, Restrict

LEMMA WellAdded ==
  ASSUME NEW d, WellFormed(d), NEW e, NEW o, NEW k,
         DOMAIN e = DOMAIN d \cup {<<o, "object">>, <<o, k>>}
  PROVE  WellFormed(e)
<1> SUFFICES ASSUME NEW f \in DOMAIN e
             PROVE  f = <<f[1], f[2]>> /\ <<f[1], "object">> \in DOMAIN e
  BY DEF WellFormed
<1>1. CASE f \in DOMAIN d
  BY <1>1 DEF WellFormed
<1>2. CASE f = <<o, "object">>
  BY <1>2
<1>3. CASE f = <<o, k>>
  BY <1>3
<1>4. QED
  BY <1>1, <1>2, <1>3

LEMMA WellWith ==
  ASSUME NEW d, WellFormed(d), NEW o
  PROVE  WellFormed(With(d, o))
<1>1. DOMAIN With(d, o) = DOMAIN d \cup {<<o, "object">>, <<o, "object">>}
  BY DEF With
<1>2. QED
  BY <1>1, WellAdded

LEMMA WellSet ==
  ASSUME NEW d, WellFormed(d), NEW o, NEW k, NEW v
  PROVE  WellFormed(Set(d, o, k, v))
<1>1. DOMAIN Set(d, o, k, v) = DOMAIN d \cup {<<o, "object">>, <<o, k>>}
  BY DEF Set, With
<1>2. QED
  BY <1>1, WellAdded

LEMMA WellSetOrDelete ==
  ASSUME NEW d, WellFormed(d), NEW o, NEW k, k # "object", NEW v
  PROVE  WellFormed(SetOrDelete(d, o, k, v))
  BY WellDrop, WellSet DEF SetOrDelete

LEMMA WellSetIf ==
  ASSUME NEW d, WellFormed(d), NEW o, NEW k, NEW v
  PROVE  WellFormed(SetIf(d, o, k, v))
  BY WellSet DEF SetIf

LEMMA WellTidy ==
  ASSUME NEW d, WellFormed(d), NEW o
  PROVE  WellFormed(Tidy(d, o))
<1>1. CASE \A f \in DOMAIN d : f[1] = o => f[2] = "object"
  <2>1. Tidy(d, o) = Drop(d, o, "object")
    BY <1>1 DEF Tidy
  <2>2. DOMAIN Drop(d, o, "object") = DOMAIN d \ {<<o, "object">>}
    BY DEF Drop, Restrict
  <2>3. QED
    BY <1>1, <2>1, <2>2 DEF WellFormed
<1>2. QED
  BY <1>1 DEF Tidy

LEMMA WellWithout ==
  ASSUME NEW d, WellFormed(d), NEW o
  PROVE  WellFormed(Without(d, o))
  BY DEF WellFormed, Without, Restrict

LEMMA WellProxied ==
  ASSUME NEW d, WellFormed(d), NEW objects, NEW proxy
  PROVE  WellFormed(Proxied(d, objects, proxy))
<1>1. WellFormed(Gone(d, objects))
  BY DEF WellFormed, Gone, Restrict
<1>2. QED
  BY <1>1, WellSet, WellDrop, WellTidy DEF Proxied, Gone

LEMMA WellHeaded ==
  ASSUME NEW d, WellFormed(d), NEW o, NEW header
  PROVE  WellFormed(Headed(d, o, header))
  BY WellSet, WellDrop, WellTidy DEF Headed

LEMMA WellCleared ==
  ASSUME NEW d, WellFormed(d), NEW o, NEW keys, "object" \notin keys
  PROVE  WellFormed(Cleared(d, o, keys))
<1>1. WellFormed(Restrict(d, DOMAIN d \ ({o} \X keys)))
  BY DEF WellFormed, Restrict
<1>2. QED
  BY <1>1, WellTidy DEF Cleared

LEMMA EmptiedKeys ==
  ASSUME NEW in
  PROVE  Emptied(in) \subseteq {"path", "service"} \cup HostKeys
  BY DEF Emptied, ShownKeys, HostKeys

(* Each form saves a document.                                             *)
LEMMA WellUpdate ==
  ASSUME NEW p, NEW d, WellFormed(d), NEW in, AfterUpdate(p, d, in) # Refused
  PROVE  WellFormed(AfterUpdate(p, d, in))
<1> DEFINE base == Sanitized(p, d, in)
           all == Merged(in, ToView(base))
           one == Protocoled(p, base, all)
           two == Secured(one, all)
           three == Transported(two, all)
<1>1. WellFormed(base)
  <2>1. "object" \notin Emptied(in)
    BY EmptiedKeys DEF HostKeys
  <2>2. QED
    BY <2>1, WellDrop, WellCleared DEF Sanitized
<1>2. AfterUpdate(p, d, in) = Stream(one, all)
  BY DEF AfterUpdate
<1> HIDE DEF base, all
<1>3. WellFormed(one)
  BY <1>1, WellSetOrDelete DEF Protocoled
<1> HIDE DEF one
<1>4. WellFormed(two)
  <2>1. CASE all.security = "reality"
    <3> DEFINE t == Drop(Set(one, "reality", "target", all.target), "reality", "dest")
               n == Set(t, "reality", "names", AsList(all.name))
    <3>1. two = Set(Set(n, "reality", "key", all.key), "reality", "ids", AsList(all.id))
      BY <2>1 DEF Secured
    <3>2. WellFormed(n)
      BY <1>3, WellDrop, WellSet
    <3> HIDE DEF n
    <3>3. QED
      BY <3>1, <3>2, WellSet
  <2>2. CASE all.security # "reality"
    BY <1>3, <2>2, WellSetIf, WellWithout DEF Secured
  <2>3. QED
    BY <2>1, <2>2
<1> HIDE DEF two
<1>5. WellFormed(three)
  BY <1>4, WellSetIf, WellWith DEF Transported, Filled
<1>6. Stream(one, all) = Set(Set(three, "stream", "network", all.network),
                              "stream", "security", all.security)
  BY DEF Stream, two, three
<1> HIDE DEF three
<1>7. QED
  BY <1>2, <1>5, <1>6, WellSet

LEMMA WellAdvanced ==
  ASSUME NEW p, NEW d, WellFormed(d), NEW in, AfterAdvanced(p, d, in) # Refused
  PROVE  WellFormed(AfterAdvanced(p, d, in))
<1> DEFINE e == Proxied(SetOrDelete(d, "settings", "fallbacks", in.fallbacks),
                        AdvancedTransports, in.proxy)
<1>1. WellFormed(e)
  BY WellProxied, WellSetOrDelete
<1>2. AfterAdvanced(p, d, in) =
        IF AdvancedRaw(d) THEN Headed(e, AdvancedKey(e), in.header) ELSE e
  BY DEF AfterAdvanced
<1> HIDE DEF e
<1>3. QED
  BY <1>1, <1>2, WellHeaded

LEMMA WellExpert ==
  ASSUME NEW p, NEW d, WellFormed(d), NEW in, AfterExpert(p, d, in) # Refused
  PROVE  WellFormed(AfterExpert(p, d, in))
<1> DEFINE e == Proxied(SetOrDelete(d, "settings", "fallbacks", in.fallbacks),
                        Proxying(d), in.proxy)
           h == IF Method(d) = "raw" THEN Headed(e, RawKey(e), in.header) ELSE e
           x == ExpertSecured(h, in)
<1>1. WellFormed(e)
  BY WellProxied, WellSetOrDelete
<1>2. AfterExpert(p, d, in) = ExpertTransported(x, in)
  BY DEF AfterExpert
<1> HIDE DEF e
<1>3. WellFormed(h)
  BY <1>1, WellHeaded
<1> HIDE DEF h
<1>4. WellFormed(x)
  <2> DEFINE t == IF in.target = Empty THEN h
                  ELSE Drop(Set(h, "reality", "target", in.target), "reality", "dest")
             n == SetIf(t, "reality", "names", in.names)
             i == SetIf(SetIf(n, "reality", "key", in.key), "reality", "ids", in.ids)
             a == SetOrDelete(h, "tls", "alpn", in.alpn)
  <2>1. x \in {h, With(SetOrDelete(a, "tls", "options", in.options), "tls"),
               With(SetOrDelete(i, "reality", "options", in.options), "reality")}
    BY DEF ExpertSecured
  <2>2. WellFormed(t)
    BY <1>3, WellSet, WellDrop
  <2> HIDE DEF t
  <2>3. WellFormed(i) /\ WellFormed(a)
    BY <1>3, <2>2, WellSetIf, WellSetOrDelete
  <2> HIDE DEF i, a, x
  <2>4. QED
    BY <1>3, <2>1, <2>3, WellWith, WellSetOrDelete
<1> HIDE DEF x
<1>5. WellFormed(ExpertTransported(x, in))
  <2> DEFINE m == SetOrDelete(x, XHTTPKey(x), "mode", in.mode)
  <2>1. WellFormed(m)
    BY <1>4, WellSetOrDelete
  <2> HIDE DEF m
  <2>2. WellFormed(With(SetOrDelete(m, XHTTPKey(x), "padding", in.padding), XHTTPKey(x)))
    BY <2>1, WellWith, WellSetOrDelete
  <2>3. QED
    BY <1>4, <2>2 DEF ExpertTransported, m
<1>6. QED
  BY <1>2, <1>5

(* Whatever the forms save is a document: no key without its object.       *)
THEOREM DocumentWell == ASSUME DocumentAssumption PROVE Spec => []WellFormed(doc)
<1>1. Init => WellFormed(doc)
  BY DEF DocumentAssumption, Init
<1>2. WellFormed(doc) /\ [Next]_vars => WellFormed(doc)'
  <2> SUFFICES ASSUME WellFormed(doc), [Next]_vars PROVE WellFormed(doc')
    BY DEF WellFormed
  <2>1. CASE Update
    BY <2>1, WellUpdate DEF Update, Saves
  <2>2. CASE UpdateAdvanced
    BY <2>2, WellAdvanced DEF UpdateAdvanced, Saves
  <2>3. CASE UpdateExpert
    BY <2>3, WellExpert DEF UpdateExpert, Saves
  <2>4. CASE UNCHANGED vars
    BY <2>4 DEF vars
  <2>5. QED
    BY <2>1, <2>2, <2>3, <2>4 DEF Next
<1>3. QED
  BY <1>1, <1>2, PTL DEF Spec

-----------------------------------------------------------------------------
(* The expert form                                                         *)

(* The transport in use depends on the method and on the objects that are  *)
(* there.                                                                  *)
LEMMA ActiveSame ==
  ASSUME NEW d, NEW e, Method(e) = Method(d),
         Method(d) = "raw" => RawKey(e) = RawKey(d),
         Method(d) = "xhttp" => XHTTPKey(e) = XHTTPKey(d)
  PROVE  Active(e) = Active(d) /\ Proxying(e) = Proxying(d)
<1>1. Active(e) = Active(d)
  BY DEF Active
<1>2. QED
  BY <1>1 DEF Proxying

(* The host that counts depends on three fields.                           *)
LEMMA HostsSame ==
  ASSUME NEW d, NEW e, NEW o, NEW o2, \A k \in HostKeys : Field(e, o2, k) = Field(d, o, k)
  PROVE  Hosts(e, o2) = Hosts(d, o)
  BY DEF Hosts, HostKeys

LEMMA FieldsGive ==
  ASSUME NEW d, NEW e,
     \A k \in {"network", "method", "security"} : Field(e, "stream", k) = Field(d, "stream", k)
  PROVE  Method(e) = Method(d) /\ Security(e) = Security(d)
  BY DEF Method, Security

(* The expert form writes every field that it can show as it was read,     *)
(* except that the PROXY protocol moves and that "dest" becomes "target".  *)
(* Of the objects only one that is left empty goes.                        *)
LEMMA ExpertKeeps ==
  ASSUME NEW p, NEW d, WellFormed(d), ~(Has(d, "raw", "object") /\ Has(d, "tcp", "object")),
         Readable(d),
         AfterExpert(p, d, ExpertView(d)) # Refused
  PROVE  Serves(AfterExpert(p, d, ExpertView(d))) = Serves(d)
<1> DEFINE in == ExpertView(d)
           f == AfterExpert(p, d, in)
           one == SetOrDelete(d, "settings", "fallbacks", in.fallbacks)
           e == Proxied(one, Proxying(d), in.proxy)
           h == IF Method(d) = "raw" THEN Headed(e, RawKey(e), in.header) ELSE e
           x == ExpertSecured(h, in)
<1>1. /\ in.fallbacks = Field(d, "settings", "fallbacks")
      /\ in.proxy = "on" <=> \E o \in {"sockopt"} \cup Proxying(d) : Field(d, o, "proxy") = "on"
      /\ Method(d) = "raw" => in.header = Field(d, RawKey(d), "header")
      /\ Security(d) = "reality" =>
           /\ in.target \in {Target(d), Empty}
           /\ in.names \in {Field(d, "reality", "names"), Empty}
           /\ in.ids \in {Field(d, "reality", "ids"), Empty}
           /\ in.key = Field(d, "reality", "key")
           /\ in.options = Field(d, "reality", "options")
      /\ Security(d) = "tls" =>
           in.alpn = Field(d, "tls", "alpn") /\ in.options = Field(d, "tls", "options")
      /\ Method(d) = "xhttp" =>
           /\ in.mode = Field(d, XHTTPKey(d), "mode")
           /\ in.padding = Field(d, XHTTPKey(d), "padding")
  BY DEF ExpertView, ProxyShown, Shown, Readable, Scalar, Empty
<1>2. f = ExpertTransported(x, in)
  BY DEF AfterExpert
<1>w. WellFormed(f)
  BY WellExpert
<1> HIDE DEF in, f
<1>3. /\ \A o, k : k # "object" => Field(one, o, k) = Field(d, o, k)
      /\ \A o : o # "settings" => (Has(one, o, "object") <=> Has(d, o, "object"))
  BY <1>1, FieldSetOrDelete, HasSetOrDelete
<1> HIDE DEF one
<1>4. /\ \A o, k : k \notin {"object", "proxy"} => Field(e, o, k) = Field(d, o, k)
      /\ \A o \in Proxying(d) : o # "sockopt" => Field(e, o, "proxy") = Empty
      /\ \A o : o \notin Proxying(d) \cup {"sockopt"} =>
           Field(e, o, "proxy") = Field(d, o, "proxy")
      /\ Field(e, "sockopt", "proxy") = "on" <=> in.proxy = "on"
      /\ \A o : o \notin {"settings", "sockopt"} =>
           (Has(e, o, "object") <=> Has(d, o, "object"))
  BY <1>3, FieldProxied, HasProxied DEF Empty
<1>e. RawKey(e) = RawKey(d) /\ XHTTPKey(e) = XHTTPKey(d)
  BY <1>4 DEF RawKey, XHTTPKey
<1> HIDE DEF e
<1>5. \A o, k : k # "object" => Field(h, o, k) = Field(e, o, k)
  BY <1>1, <1>4, <1>e, FieldHeaded
<1>6. \A o : Method(d) # "raw" \/ o # RawKey(d) =>
      (Has(h, o, "object") <=> Has(e, o, "object"))
  BY <1>e, HasHeaded
<1>7. Method(d) = "raw" /\ Has(e, RawKey(d), "object") /\ ~Has(h, RawKey(d), "object")
        => \A k : k \notin {"object"} => Field(e, RawKey(d), k) = Empty
  BY <1>1, <1>4, <1>e, HasHeaded
<1>h. Security(h) = Security(d)
  BY <1>4, <1>5, FieldsGive
<1> HIDE DEF h
<1>8. /\ \A o, k : k # "object"
           /\ <<o, k>> \notin {<<"reality", "target">>, <<"reality", "dest">>}
            => Field(x, o, k) = Field(h, o, k)
      /\ Security(d) = "reality" =>
           First(Field(x, "reality", "target"), Field(x, "reality", "dest")) = Target(d)
      /\ \A o : o \notin {"reality", "tls"} => (Has(x, o, "object") <=> Has(h, o, "object"))
  <2>1. CASE Security(d) = "reality"
    <3> DEFINE t == IF in.target = Empty THEN h
                    ELSE Drop(Set(h, "reality", "target", in.target), "reality", "dest")
               n == SetIf(t, "reality", "names", in.names)
               y == SetIf(n, "reality", "key", in.key)
               i == SetIf(y, "reality", "ids", in.ids)
               u == SetOrDelete(i, "reality", "options", in.options)
    <3>1. x = With(u, "reality")
      BY <1>h, <2>1 DEF ExpertSecured
    <3>2. /\ \A o, k : k # "object"
               /\ <<o, k>> \notin {<<"reality", "target">>, <<"reality", "dest">>}
              => Field(t, o, k) = Field(h, o, k)
          /\ First(Field(t, "reality", "target"), Field(t, "reality", "dest")) = Target(d)
          /\ \A o : o # "reality" => (Has(t, o, "object") <=> Has(h, o, "object"))
      <4>1. CASE in.target = Empty
        BY <1>1, <1>4, <1>5, <2>1, <4>1 DEF Target
      <4>2. CASE in.target # Empty
        <5> DEFINE s == Set(h, "reality", "target", in.target)
        <5>1. /\ \A o, k : k # "object" => Field(s, o, k) =
                      IF o = "reality" /\ k = "target" THEN in.target ELSE Field(h, o, k)
              /\ \A o : o # "reality" => (Has(s, o, "object") <=> Has(h, o, "object"))
          BY FieldSet, HasSet
        <5>2. t = Drop(s, "reality", "dest")
          BY <4>2
        <5> HIDE DEF s
        <5>3. QED
          BY <1>1, <2>1, <4>2, <5>1, <5>2, FieldDrop, HasDrop DEF First
      <4>3. QED
        BY <4>1, <4>2
    <3> HIDE DEF t
    <3>3. /\ \A o, k : k # "object" => Field(n, o, k) = Field(t, o, k)
          /\ \A o : o # "reality" => (Has(n, o, "object") <=> Has(t, o, "object"))
      BY <1>1, <1>4, <1>5, <2>1, <3>2, FieldSetIf, HasSetIf
    <3> HIDE DEF n
    <3>4. /\ \A o, k : k # "object" => Field(y, o, k) = Field(n, o, k)
          /\ \A o : o # "reality" => (Has(y, o, "object") <=> Has(n, o, "object"))
      BY <1>1, <1>4, <1>5, <2>1, <3>2, <3>3, FieldSetIf, HasSetIf
    <3> HIDE DEF y
    <3>5. /\ \A o, k : k # "object" => Field(i, o, k) = Field(y, o, k)
          /\ \A o : o # "reality" => (Has(i, o, "object") <=> Has(y, o, "object"))
      BY <1>1, <1>4, <1>5, <2>1, <3>2, <3>3, <3>4, FieldSetIf, HasSetIf
    <3> HIDE DEF i
    <3>6. /\ \A o, k : k # "object" => Field(u, o, k) = Field(i, o, k)
          /\ \A o : o # "reality" => (Has(u, o, "object") <=> Has(i, o, "object"))
      BY <1>1, <1>4, <1>5, <2>1, <3>2, <3>3, <3>4, <3>5, FieldSetOrDelete, HasSetOrDelete
    <3> HIDE DEF u
    <3>7. QED
      BY <3>1, <3>2, <3>3, <3>4, <3>5, <3>6, FieldWith, HasWith
  <2>2. CASE Security(d) = "tls"
    <3> DEFINE a == SetOrDelete(h, "tls", "alpn", in.alpn)
               u == SetOrDelete(a, "tls", "options", in.options)
    <3>1. x = With(u, "tls")
      BY <1>h, <2>2 DEF ExpertSecured
    <3>2. /\ \A o, k : k # "object" => Field(a, o, k) = Field(h, o, k)
          /\ \A o : o # "tls" => (Has(a, o, "object") <=> Has(h, o, "object"))
      BY <1>1, <1>4, <1>5, <2>2, FieldSetOrDelete, HasSetOrDelete
    <3> HIDE DEF a
    <3>3. /\ \A o, k : k # "object" => Field(u, o, k) = Field(a, o, k)
          /\ \A o : o # "tls" => (Has(u, o, "object") <=> Has(a, o, "object"))
      BY <1>1, <1>4, <1>5, <2>2, <3>2, FieldSetOrDelete, HasSetOrDelete
    <3> HIDE DEF u
    <3>4. QED
      BY <2>2, <3>1, <3>2, <3>3, FieldWith, HasWith
  <2>3. CASE Security(d) \notin {"reality", "tls"}
    BY <1>h, <2>3 DEF ExpertSecured
  <2>4. QED
    BY <2>1, <2>2, <2>3
<1>x. XHTTPKey(x) = XHTTPKey(e) \/ Method(d) # "xhttp"
  BY <1>6, <1>8 DEF XHTTPKey
<1>m. Method(x) = Method(d)
  BY <1>4, <1>5, <1>8, FieldsGive
<1> HIDE DEF x
<1>9. /\ \A o, k : k # "object" => Field(f, o, k) = Field(x, o, k)
      /\ \A o : Method(d) # "xhttp" \/ o # XHTTPKey(d) =>
           (Has(f, o, "object") <=> Has(x, o, "object"))
      /\ \A o : Has(x, o, "object") => Has(f, o, "object")
  <2>1. CASE Method(d) = "xhttp"
    <3> DEFINE K == XHTTPKey(d)
               m == SetOrDelete(x, K, "mode", in.mode)
               q == SetOrDelete(m, K, "padding", in.padding)
    <3>0. K \notin {"reality", "settings", "sockopt"}
      BY DEF XHTTPKey
    <3>1. f = With(q, K)
      BY <1>2, <1>e, <1>m, <1>x, <2>1 DEF ExpertTransported
    <3>2. /\ \A o, k : k # "object" => Field(m, o, k) = Field(x, o, k)
          /\ \A o : o # K => (Has(m, o, "object") <=> Has(x, o, "object"))
          /\ \A o : Has(x, o, "object") => Has(m, o, "object")
      BY <1>1, <1>4, <1>5, <1>8, <2>1, <3>0, FieldSetOrDelete, HasSetOrDelete
    <3> HIDE DEF m
    <3>3. /\ \A o, k : k # "object" => Field(q, o, k) = Field(m, o, k)
          /\ \A o : o # K => (Has(q, o, "object") <=> Has(m, o, "object"))
          /\ \A o : Has(m, o, "object") => Has(q, o, "object")
      BY <1>1, <1>4, <1>5, <1>8, <2>1, <3>0, <3>2, FieldSetOrDelete, HasSetOrDelete
    <3> HIDE DEF q
    <3>4. QED
      BY <2>1, <3>1, <3>2, <3>3, FieldWith, HasWith
  <2>2. QED
    BY <1>2, <1>m, <2>1 DEF ExpertTransported
<1>10. /\ Method(f) = Method(d) /\ Security(f) = Security(d) /\ Target(f) = Target(d)
  <2>1. Method(f) = Method(d) /\ Security(f) = Security(d)
    BY <1>4, <1>5, <1>8, <1>9, FieldsGive
  <2>2. Security(d) = "reality" =>
        First(Field(f, "reality", "target"), Field(f, "reality", "dest")) = Target(d)
    BY <1>8, <1>9
  <2>3. QED
    BY <2>1, <2>2 DEF Target
<1>11. Method(d) = "xhttp" => XHTTPKey(f) = XHTTPKey(d)
  BY <1>4, <1>6, <1>8, <1>9 DEF XHTTPKey
<1>12. \A o, k : k # "object" /\ k \notin {"proxy", "target", "dest"} =>
       Field(f, o, k) = Field(d, o, k)
  BY <1>4, <1>5, <1>8, <1>9
<1>13. \A o : Field(f, o, "proxy") = Field(e, o, "proxy")
  BY <1>5, <1>8, <1>9
<1>14. Method(d) = "raw" =>
         \/ RawKey(f) = RawKey(d)
         \/ /\ RawKey(d) = "tcp" /\ RawKey(f) = "raw" /\ ~Has(f, "raw", "object")
            /\ \A k : k \notin {"object"} => Field(e, "tcp", k) = Empty
  <2> SUFFICES ASSUME Method(d) = "raw" PROVE \/ RawKey(f) = RawKey(d)
         \/ /\ RawKey(d) = "tcp" /\ RawKey(f) = "raw" /\ ~Has(f, "raw", "object")
            /\ \A k : k \notin {"object"} => Field(e, "tcp", k) = Empty
    OBVIOUS
  <2>1. \A o \in {"raw", "tcp"} :
           /\ Has(f, o, "object") <=> Has(h, o, "object")
           /\ Has(e, o, "object") <=> Has(d, o, "object")
           /\ o # RawKey(d) => (Has(h, o, "object") <=> Has(e, o, "object"))
    BY <1>4, <1>6, <1>8, <1>9
  <2>2. RawKey(d) \in {"raw", "tcp"}
        /\ (RawKey(d) = "tcp" => Has(d, "tcp", "object") /\ ~Has(d, "raw", "object"))
    BY DEF RawKey
  <2>3. CASE RawKey(d) = "tcp"
    BY <1>7, <2>1, <2>2, <2>3 DEF RawKey
  <2>4. CASE RawKey(d) = "raw"
    BY <2>1, <2>4 DEF RawKey
  <2>5. QED
    BY <2>2, <2>3, <2>4
<1>15. \/ Active(f) = Active(d) /\ Proxying(f) = Proxying(d)
       \/ /\ Active(d) = "tcp" /\ Active(f) = "raw" /\ ~Has(f, "raw", "object")
          /\ Proxying(d) = {"tcp"} /\ Proxying(f) = {"raw"}
          /\ \A k : k \notin {"object"} => Field(e, "tcp", k) = Empty
  BY <1>10, <1>11, <1>14, ActiveSame DEF Active, Proxying
<1>16. Proxying(d) \subseteq {Active(d)} /\ "sockopt" \notin Proxying(d) \cup Proxying(f)
  BY DEF Proxying, Active, RawKey, XHTTPKey
<1>17. (\E o \in {"sockopt"} \cup Proxying(f) : Field(f, o, "proxy") = "on")
           <=> \E o \in {"sockopt"} \cup Proxying(d) : Field(d, o, "proxy") = "on"
  <2>1. \A o \in Proxying(f) : Field(f, o, "proxy") = Empty
    BY <1>w, <1>4, <1>13, <1>15, <1>16, Absent
  <2>2. QED
    BY <1>1, <1>4, <1>13, <2>1 DEF Empty
<1>18. \A k \in TransportKeys : Field(f, Active(f), k) = Field(d, Active(d), k)
  BY <1>w, <1>4, <1>12, <1>15, Absent DEF TransportKeys
<1>19. Hosts(f, Active(f)) = Hosts(d, Active(d))
  <2>1. \A k \in HostKeys : Field(f, Active(f), k) = Field(d, Active(d), k)
    BY <1>w, <1>4, <1>12, <1>15, Absent DEF HostKeys
  <2>2. QED
    BY <2>1, HostsSame
<1>20. QED
  BY <1>10, <1>12, <1>17, <1>18, <1>19, ServesSame DEF SecureKeys, f, in

(* Saving the expert form as it is shown changes nothing that Xray sees,   *)
(* for any document that it can show, with settings of RAW in one          *)
(* spelling.                                                               *)
THEOREM ExpertAlways == ASSUME DocumentAssumption PROVE Spec => []ExpertFaithful
<1>1. WellFormed(doc) => ExpertFaithful
  BY ExpertKeeps DEF ExpertFaithful, OneRaw
<1>2. QED
  BY <1>1, DocumentWell, PTL

-----------------------------------------------------------------------------
(* The advanced form                                                       *)

(* These are spellings of "network" only.                                  *)
LEMMA Canonicals ==
  ASSUME NEW d
  PROVE  Method(d) \notin {"tcp", "ws"}
  BY DEF Method, Canonical

(* The advanced form writes the header where it was read, and takes the    *)
(* PROXY protocol from the transport in use alone.                         *)
LEMMA AdvancedKeeps ==
  ASSUME NEW p, NEW d, WellFormed(d), ~(Has(d, "raw", "object") /\ Has(d, "tcp", "object")),
         Field(d, "stream", "network") = "raw" => ~Has(d, "tcp", "object"),
         \A o \in AdvancedTransports \ {Active(d)} : Field(d, o, "proxy") = Empty,
         AfterAdvanced(p, d, AdvancedView(d)) # Refused
  PROVE  Serves(AfterAdvanced(p, d, AdvancedView(d))) = Serves(d)
<1> DEFINE in == AdvancedView(d)
           f == AfterAdvanced(p, d, in)
           one == SetOrDelete(d, "settings", "fallbacks", in.fallbacks)
           e == Proxied(one, AdvancedTransports, in.proxy)
           K == AdvancedKey(e)
<1>1. /\ in.fallbacks = Field(d, "settings", "fallbacks")
      /\ in.proxy = "on" <=>
           \E o \in AdvancedTransports \cup {"sockopt"} : Field(d, o, "proxy") = "on"
      /\ AdvancedRaw(d) =>
           in.header = First(Field(d, "raw", "header"), Field(d, "tcp", "header"))
  BY DEF AdvancedView, Empty
<1>2. f = IF AdvancedRaw(d) THEN Headed(e, K, in.header) ELSE e
  BY DEF AfterAdvanced
<1>w. WellFormed(f)
  BY WellAdvanced
<1> HIDE DEF in, f
<1>3. /\ \A o, k : k # "object" => Field(one, o, k) = Field(d, o, k)
      /\ \A o : o # "settings" => (Has(one, o, "object") <=> Has(d, o, "object"))
  BY <1>1, FieldSetOrDelete, HasSetOrDelete
<1> HIDE DEF one
<1>4. /\ \A o, k : k \notin {"object", "proxy"} => Field(e, o, k) = Field(d, o, k)
      /\ \A o \in AdvancedTransports : o # "sockopt" => Field(e, o, "proxy") = Empty
      /\ \A o : o \notin AdvancedTransports \cup {"sockopt"} =>
           Field(e, o, "proxy") = Field(d, o, "proxy")
      /\ Field(e, "sockopt", "proxy") = "on" <=> in.proxy = "on"
      /\ \A o : o \notin {"settings", "sockopt"} =>
           (Has(e, o, "object") <=> Has(d, o, "object"))
  BY <1>3, FieldProxied, HasProxied DEF Empty
<1>5. K = AdvancedKey(d) /\ RawKey(e) = RawKey(d) /\ XHTTPKey(e) = XHTTPKey(d)
  BY <1>4 DEF AdvancedKey, RawKey, XHTTPKey
<1> HIDE DEF e, K
<1>6. /\ K \in {"raw", "tcp"}
      /\ Has(d, "tcp", "object") => K = "tcp"
      /\ K = "tcp" => ~Has(d, "raw", "object")
  BY <1>5 DEF AdvancedKey
<1>7. AdvancedRaw(d) => in.header = Field(d, K, "header")
  BY <1>1, <1>6, Absent DEF First
<1>8. \A o, k : k # "object" => Field(f, o, k) = Field(e, o, k)
  BY <1>2, <1>4, <1>7, FieldHeaded
<1>9. \A o : o # K => (Has(f, o, "object") <=> Has(e, o, "object"))
  BY <1>2, HasHeaded
<1>10. /\ Has(f, K, "object") => Has(d, K, "object") \/ Field(d, K, "header") # Empty
       /\ Has(d, K, "object") /\ ~Has(f, K, "object")
            => \A k : k # "object" => Field(e, K, k) = Empty
  BY <1>2, <1>4, <1>6, <1>7, HasHeaded
<1>11. \/ RawKey(f) = RawKey(d)
       \/ /\ RawKey(d) = "tcp" /\ RawKey(f) = "raw" /\ ~Has(f, "raw", "object")
          /\ \A k : k # "object" => Field(e, "tcp", k) = Empty
  <2>1. CASE K = "tcp"
    <3>1. ~Has(d, "raw", "object") /\ ~Has(f, "raw", "object")
      BY <1>4, <1>6, <1>9, <2>1
    <3>2. CASE Has(d, "tcp", "object")
      BY <1>10, <2>1, <3>1, <3>2 DEF RawKey
    <3>3. CASE ~Has(d, "tcp", "object")
      BY <1>10, <2>1, <3>1, <3>3, Absent DEF RawKey
    <3>4. QED
      BY <3>2, <3>3
  <2>2. CASE K = "raw"
    BY <1>4, <1>6, <1>9, <2>2 DEF RawKey
  <2>3. QED
    BY <1>6, <2>1, <2>2
<1>12. XHTTPKey(f) = XHTTPKey(d)
  BY <1>4, <1>6, <1>9 DEF XHTTPKey
<1>13. Method(f) = Method(d) /\ Security(f) = Security(d)
  BY <1>4, <1>8, FieldsGive
<1>14. \/ Active(f) = Active(d) /\ Proxying(f) = Proxying(d)
       \/ /\ Active(d) = "tcp" /\ Active(f) = "raw" /\ ~Has(f, "raw", "object")
          /\ Proxying(d) = {"tcp"} /\ Proxying(f) = {"raw"}
          /\ \A k : k # "object" => Field(e, "tcp", k) = Empty
  BY <1>11, <1>12, <1>13, ActiveSame DEF Active, Proxying
<1>15. /\ Proxying(d) \subseteq {Active(d)} /\ "sockopt" \notin Proxying(d) \cup Proxying(f)
       /\ Active(d) \in AdvancedTransports => Proxying(d) = {Active(d)}
  BY Canonicals DEF Proxying, Active, RawKey, XHTTPKey, AdvancedTransports
<1>16. (\E o \in {"sockopt"} \cup Proxying(f) : Field(f, o, "proxy") = "on")
           <=> \E o \in {"sockopt"} \cup Proxying(d) : Field(d, o, "proxy") = "on"
  <2>1. in.proxy = "on" => \E o \in {"sockopt"} \cup Proxying(d) : Field(d, o, "proxy") = "on"
    BY <1>1, <1>15 DEF Empty
  <2>2. \A o \in Proxying(f) :
          \/ Field(f, o, "proxy") = Empty
          \/ /\ o \in Proxying(d) \ AdvancedTransports
             /\ Field(f, o, "proxy") = Field(d, o, "proxy")
    BY <1>w, <1>4, <1>8, <1>14, <1>15, Absent
  <2>3. \A o \in Proxying(d) \ AdvancedTransports : o \in Proxying(f)
        /\ Field(f, o, "proxy") = Field(d, o, "proxy")
    BY <1>4, <1>8, <1>14, <1>15 DEF AdvancedTransports
  <2>4. Field(f, "sockopt", "proxy") = "on" <=> in.proxy = "on"
    BY <1>4, <1>8
  <2>5. \A o \in {"sockopt"} \cup Proxying(d) :
          Field(d, o, "proxy") = "on" => in.proxy = "on"
             \/ o \in Proxying(d) \ AdvancedTransports
    BY <1>1
  <2>6. QED
    BY <2>1, <2>2, <2>3, <2>4, <2>5 DEF Empty
<1>17. \A k \in TransportKeys : Field(f, Active(f), k) = Field(d, Active(d), k)
  BY <1>w, <1>4, <1>8, <1>14, Absent DEF TransportKeys
<1>18. Target(f) = Target(d)
  BY <1>4, <1>8, <1>13 DEF Target
<1>19. Hosts(f, Active(f)) = Hosts(d, Active(d))
  <2>1. \A k \in HostKeys : Field(f, Active(f), k) = Field(d, Active(d), k)
    BY <1>w, <1>4, <1>8, <1>14, Absent DEF HostKeys
  <2>2. QED
    BY <2>1, HostsSame
<1>20. QED
  BY <1>4, <1>8, <1>13, <1>16, <1>17, <1>18, <1>19, ServesSame DEF SecureKeys, f, in

(* Nor does saving the advanced form, unless an idle transport has kept a  *)
(* PROXY protocol setting or the header would move to another spelling of  *)
(* RAW.                                                                    *)
THEOREM AdvancedAlways == ASSUME DocumentAssumption PROVE Spec => []AdvancedFaithful
<1>1. WellFormed(doc) => AdvancedFaithful
  BY AdvancedKeeps DEF AdvancedFaithful, OneRaw
<1>2. QED
  BY <1>1, DocumentWell, PTL

-----------------------------------------------------------------------------
(* What Accounts.Update does to each field                                 *)

FormKeys ==
  {"network", "security", "flow", "name", "target", "key", "id", "path", "host", "service"}

LEMMA FieldCleared ==
  ASSUME NEW d, NEW o, NEW keys, NEW o2, NEW k2, k2 # "object"
  PROVE  Field(Cleared(d, o, keys), o2, k2) =
           IF o2 = o /\ k2 \in keys THEN Empty ELSE Field(d, o2, k2)
<1> DEFINE e == Restrict(d, DOMAIN d \ ({o} \X keys))
<1>1. Field(e, o2, k2) = IF o2 = o /\ k2 \in keys THEN Empty ELSE Field(d, o2, k2)
  BY DEF Field, Has, Restrict
<1> HIDE DEF e
<1>2. Field(Tidy(e, o), o2, k2) = Field(e, o2, k2)
  BY FieldTidy
<1>3. QED
  BY <1>1, <1>2 DEF Cleared, e

LEMMA HasCleared ==
  ASSUME NEW d, NEW o, NEW keys, NEW o2, o2 # o
  PROVE  Has(Cleared(d, o, keys), o2, "object") <=> Has(d, o2, "object")
<1> DEFINE e == Restrict(d, DOMAIN d \ ({o} \X keys))
<1>1. Has(e, o2, "object") <=> Has(d, o2, "object")
  BY DEF Has, Restrict
<1> HIDE DEF e
<1>2. Has(Tidy(e, o), o2, "object") <=> Has(e, o2, "object")
  BY HasTidy
<1>3. QED
  BY <1>1, <1>2 DEF Cleared, e

(* What an empty field of the form stands for.                             *)
LEMMA EmptiedIs ==
  ASSUME NEW in
  PROVE  /\ "path" \in Emptied(in) <=> in.network \in PathNetworks /\ in.path = Empty
         /\ "host" \in Emptied(in) <=> in.network \in PathNetworks /\ in.host = Empty
         /\ "Host" \in Emptied(in) <=> in.network = "ws" /\ in.host = Empty
         /\ "lowerHost" \in Emptied(in) <=> in.network = "ws" /\ in.host = Empty
         /\ "service" \in Emptied(in) <=> in.network = "grpc" /\ in.service = Empty
  BY DEF Emptied, ShownKeys, PathNetworks

(* What is cleared before the merge: the flow, and the fields that came    *)
(* empty of the transport that was sent.                                   *)
LEMMA SanitizedFields ==
  ASSUME NEW p, NEW d, NEW in
  PROVE  LET base == Sanitized(p, d, in) IN
         /\ \A o, k : k # "object" => Field(base, o, k) =
              IF \/ o = "settings" /\ k = "flow" /\ p = "vless" /\ in.flow = Empty
                 \/ /\ o = IF in.network = "xhttp" THEN XHTTPKey(d) ELSE in.network
                    /\ k \in Emptied(in)
              THEN Empty ELSE Field(d, o, k)
         /\ \A o \in {"raw", "tcp"} : Has(base, o, "object") <=> Has(d, o, "object")
<1> DEFINE b == IF p = "vless" /\ in.flow = Empty THEN Drop(d, "settings", "flow") ELSE d
           t == IF in.network = "xhttp" THEN XHTTPKey(b) ELSE in.network
           base == Sanitized(p, d, in)
<1>1. /\ \A o, k : k # "object" => Field(b, o, k) =
            IF o = "settings" /\ k = "flow" /\ p = "vless" /\ in.flow = Empty
            THEN Empty ELSE Field(d, o, k)
      /\ \A o : Has(b, o, "object") <=> Has(d, o, "object")
  BY FieldDrop, HasDrop
<1>2. XHTTPKey(b) = XHTTPKey(d) /\ XHTTPKey(d) \in {"xhttp", "splithttp"}
  BY <1>1 DEF XHTTPKey
<1>3. base = IF ShownKeys(in.network) = {} THEN b ELSE Cleared(b, t, Emptied(in))
  BY DEF Sanitized
<1> HIDE DEF b, base
<1>4. CASE ShownKeys(in.network) = {}
  <2>1. Emptied(in) = {}
    BY <1>4 DEF Emptied, ShownKeys, PathNetworks
  <2>2. base = b
    BY <1>3, <1>4
  <2>3. QED
    BY <1>1, <2>1, <2>2 DEF base
<1>5. CASE ShownKeys(in.network) # {}
  <2>1. base = Cleared(b, t, Emptied(in))
    BY <1>3, <1>5
  <2>2. t = (IF in.network = "xhttp" THEN XHTTPKey(d) ELSE in.network) /\ t \notin {"raw", "tcp"}
    BY <1>2, <1>5 DEF ShownKeys, PathNetworks
  <2> HIDE DEF t
  <2>3. \A o, k : k # "object" =>
          Field(base, o, k) = IF o = t /\ k \in Emptied(in) THEN Empty ELSE Field(b, o, k)
    BY <2>1, FieldCleared
  <2>4. \A o \in {"raw", "tcp"} : Has(base, o, "object") <=> Has(b, o, "object")
    BY <2>1, <2>2, HasCleared
  <2>5. QED
    BY <1>1, <2>2, <2>3, <2>4 DEF base
<1>6. QED
  BY <1>4, <1>5

(* What buildStream does to the security settings.                         *)
LEMMA SecuredFields ==
  ASSUME NEW d, NEW in, in.security \in {"none", "tls", "reality"}
  PROVE  LET e == Secured(d, in) IN
         /\ \A o, k : k # "object" /\ o \notin {"reality", "tls"} =>
              Field(e, o, k) = Field(d, o, k)
         /\ \A k : k # "object" => Field(e, "tls", k) =
              IF in.security = "tls" /\ in.name # Empty /\ k = "name"
              THEN in.name ELSE Field(d, "tls", k)
         /\ in.security = "reality" =>
              /\ Field(e, "reality", "target") = in.target
              /\ Field(e, "reality", "dest") = Empty
              /\ Field(e, "reality", "names") = AsList(in.name)
              /\ Field(e, "reality", "key") = in.key
              /\ Field(e, "reality", "ids") = AsList(in.id)
              /\ \A k : k \notin {"object", "target", "dest", "names", "key", "ids"} =>
                    Field(e, "reality", k) = Field(d, "reality", k)
         /\ \A o \in {"raw", "tcp"} : Has(e, o, "object") <=> Has(d, o, "object")
<1> DEFINE e == Secured(d, in)
<1>0. \A d1, o, o2 : o2 # o => (Has(Without(d1, o), o2, "object") <=> Has(d1, o2, "object"))
  BY DEF Has, Without, Restrict
<1>1. CASE in.security = "reality"
  <2> DEFINE s == Set(d, "reality", "target", in.target)
             t == Drop(s, "reality", "dest")
             n == Set(t, "reality", "names", AsList(in.name))
             k1 == Set(n, "reality", "key", in.key)
  <2>1. e = Set(k1, "reality", "ids", AsList(in.id))
    BY <1>1 DEF Secured
  <2>2. /\ \A o, k : k # "object" => Field(s, o, k) =
                IF o = "reality" /\ k = "target" THEN in.target ELSE Field(d, o, k)
        /\ \A o \in {"raw", "tcp"} : Has(s, o, "object") <=> Has(d, o, "object")
    BY FieldSet, HasSet
  <2> HIDE DEF s
  <2>3. /\ \A o, k : k # "object" => Field(t, o, k) =
                IF o = "reality" /\ k = "dest" THEN Empty ELSE Field(s, o, k)
        /\ \A o \in {"raw", "tcp"} : Has(t, o, "object") <=> Has(s, o, "object")
    BY FieldDrop, HasDrop
  <2> HIDE DEF t
  <2>4. /\ \A o, k : k # "object" => Field(n, o, k) =
                IF o = "reality" /\ k = "names" THEN AsList(in.name) ELSE Field(t, o, k)
        /\ \A o \in {"raw", "tcp"} : Has(n, o, "object") <=> Has(t, o, "object")
    BY FieldSet, HasSet
  <2> HIDE DEF n
  <2>5. /\ \A o, k : k # "object" => Field(k1, o, k) =
                IF o = "reality" /\ k = "key" THEN in.key ELSE Field(n, o, k)
        /\ \A o \in {"raw", "tcp"} : Has(k1, o, "object") <=> Has(n, o, "object")
    BY FieldSet, HasSet
  <2> HIDE DEF k1
  <2>6. /\ \A o, k : k # "object" => Field(e, o, k) =
                IF o = "reality" /\ k = "ids" THEN AsList(in.id) ELSE Field(k1, o, k)
        /\ \A o \in {"raw", "tcp"} : Has(e, o, "object") <=> Has(k1, o, "object")
    BY <2>1, FieldSet, HasSet
  <2> HIDE DEF e
  <2>7. QED
    BY <1>1, <2>2, <2>3, <2>4, <2>5, <2>6 DEF e
<1>2. CASE in.security = "tls"
  <2>1. e = SetIf(Without(d, "reality"), "tls", "name", in.name)
    BY <1>2 DEF Secured
  <2>2. QED
    BY <1>0, <1>2, <2>1, FieldSetIf, HasSetIf, FieldWithout
<1>3. CASE in.security = "none"
  <2>1. e = Without(d, "reality")
    BY <1>3 DEF Secured
  <2>2. QED
    BY <1>0, <1>3, <2>1, FieldWithout
<1>4. QED
  BY <1>1, <1>2, <1>3

(* What applyTransport writes into the transport of the form.              *)
Written(in, k) ==
  CASE in.network \in PathNetworks /\ k = "path" -> in.path
    [] in.network \in PathNetworks /\ k = HostKey(in.network) -> in.host
    [] in.network = "grpc" /\ k = "service" -> in.service
    [] OTHER -> Empty

LEMMA TransportedFields ==
  ASSUME NEW d, NEW in, in.network \in Networks
  PROVE  LET e == Transported(d, in) IN
         /\ \A o, k : k # "object" => Field(e, o, k) =
              IF o = in.network THEN First(Written(in, k), Field(d, o, k)) ELSE Field(d, o, k)
         /\ \A o \in {"raw", "tcp"} : Has(e, o, "object") <=> Has(d, o, "object")
         /\ in.network = "xhttp" => Has(e, "xhttp", "object")
<1> DEFINE e == Transported(d, in)
           o1 == in.network
<1>1. CASE o1 = "tcp"
  <2>1. e = d /\ \A k : Written(in, k) = Empty
    BY <1>1 DEF Transported, Written, PathNetworks
  <2>2. QED
    BY <2>1, <1>1 DEF First
<1>2. CASE o1 = "grpc"
  <2> DEFINE s == SetIf(d, o1, "service", in.service)
  <2>1. e = With(s, o1)
    BY <1>2 DEF Transported, Filled
  <2>2. \A k : Written(in, k) = IF k = "service" THEN in.service ELSE Empty
    BY <1>2 DEF Written, PathNetworks
  <2>3. /\ \A o, k : k # "object" => Field(s, o, k) =
             IF o = o1 /\ k = "service" /\ in.service # Empty
             THEN in.service ELSE Field(d, o, k)
        /\ \A o : o # o1 => (Has(s, o, "object") <=> Has(d, o, "object"))
    BY FieldSetIf, HasSetIf
  <2> HIDE DEF s, e
  <2>4. \A o, k : k # "object" => Field(e, o, k) = Field(s, o, k)
    BY <2>1, FieldWith
  <2>5. \A o : o # o1 => (Has(e, o, "object") <=> Has(s, o, "object"))
    BY <2>1, HasWith
  <2>6. QED
    BY <1>2, <2>2, <2>3, <2>4, <2>5 DEF First, e
<1>3. CASE o1 \in PathNetworks
  <2> DEFINE h == HostKey(o1)
             s == SetIf(d, o1, "path", in.path)
             t == SetIf(s, o1, h, in.host)
  <2>0. o1 \notin {"tcp", "grpc", "raw"} /\ h \notin {"path", "object"}
    BY <1>3 DEF PathNetworks, HostKey
  <2>1. e = With(t, o1)
    BY <2>0 DEF Transported, Filled
  <2>2. \A k : Written(in, k) =
          IF k = "path" THEN in.path ELSE IF k = h THEN in.host ELSE Empty
    BY <1>3, <2>0 DEF Written
  <2> HIDE DEF h
  <2>3. /\ \A o, k : k # "object" => Field(s, o, k) =
             IF o = o1 /\ k = "path" /\ in.path # Empty THEN in.path ELSE Field(d, o, k)
        /\ \A o : o # o1 => (Has(s, o, "object") <=> Has(d, o, "object"))
    BY FieldSetIf, HasSetIf
  <2> HIDE DEF s
  <2>4. /\ \A o, k : k # "object" => Field(t, o, k) =
             IF o = o1 /\ k = h /\ in.host # Empty THEN in.host ELSE Field(s, o, k)
        /\ \A o : o # o1 => (Has(t, o, "object") <=> Has(s, o, "object"))
    BY FieldSetIf, HasSetIf
  <2> HIDE DEF t, e
  <2>5. \A o, k : k # "object" => Field(e, o, k) = Field(t, o, k)
    BY <2>1, FieldWith
  <2>6. /\ \A o : o # o1 => (Has(e, o, "object") <=> Has(t, o, "object"))
        /\ Has(e, o1, "object")
    BY <2>1, HasWith
  <2>7. \A o, k : k # "object" => Field(e, o, k) =
          IF o = in.network THEN First(Written(in, k), Field(d, o, k)) ELSE Field(d, o, k)
    BY <2>0, <2>2, <2>3, <2>4, <2>5 DEF First
  <2>8. QED
    BY <2>0, <2>3, <2>4, <2>6, <2>7 DEF e
<1>4. QED
  BY <1>1, <1>2, <1>3 DEF Networks

(* What buildStream leaves behind.                                         *)
LEMMA StreamFields ==
  ASSUME NEW d, NEW in, in.network \in Networks, in.security \in {"none", "tls", "reality"}
  PROVE  LET e == Stream(d, in) IN
         /\ Field(e, "stream", "network") = in.network
         /\ Field(e, "stream", "security") = in.security
         /\ \A k : k \notin {"object", "network", "security"} =>
              Field(e, "stream", k) = Field(d, "stream", k)
         /\ \A o, k : k # "object" /\ o \notin {"stream", "reality", "tls"} =>
              Field(e, o, k) =
              IF o = in.network THEN First(Written(in, k), Field(d, o, k)) ELSE Field(d, o, k)
         /\ \A k : k # "object" => Field(e, "tls", k) =
              IF in.security = "tls" /\ in.name # Empty /\ k = "name"
              THEN in.name ELSE Field(d, "tls", k)
         /\ in.security = "reality" =>
              /\ Field(e, "reality", "target") = in.target
              /\ Field(e, "reality", "dest") = Empty
              /\ Field(e, "reality", "names") = AsList(in.name)
              /\ Field(e, "reality", "key") = in.key
              /\ Field(e, "reality", "ids") = AsList(in.id)
              /\ \A k : k \notin {"object", "target", "dest", "names", "key", "ids"} =>
                    Field(e, "reality", k) = Field(d, "reality", k)
         /\ \A o \in {"raw", "tcp"} : Has(e, o, "object") <=> Has(d, o, "object")
         /\ in.network = "xhttp" => Has(e, "xhttp", "object")
<1> DEFINE s == Secured(d, in)
           t == Transported(s, in)
           n == Set(t, "stream", "network", in.network)
           e == Stream(d, in)
<1>0. in.network \notin {"stream", "reality", "tls"}
  BY DEF Networks, PathNetworks
<1>1. e = Set(n, "stream", "security", in.security)
  BY DEF Stream
<1>2. /\ \A o, k : k # "object" => Field(t, o, k) =
            IF o = in.network THEN First(Written(in, k), Field(s, o, k)) ELSE Field(s, o, k)
      /\ \A o \in {"raw", "tcp"} : Has(t, o, "object") <=> Has(s, o, "object")
      /\ in.network = "xhttp" => Has(t, "xhttp", "object")
  BY TransportedFields
<1> HIDE DEF t
<1>3. /\ \A o, k : k # "object" => Field(n, o, k) =
              IF o = "stream" /\ k = "network" THEN in.network ELSE Field(t, o, k)
      /\ \A o \in {"raw", "tcp", "xhttp"} : Has(n, o, "object") <=> Has(t, o, "object")
  BY FieldSet, HasSet
<1> HIDE DEF n
<1>4. /\ \A o, k : k # "object" => Field(e, o, k) =
              IF o = "stream" /\ k = "security" THEN in.security ELSE Field(n, o, k)
      /\ \A o \in {"raw", "tcp", "xhttp"} : Has(e, o, "object") <=> Has(n, o, "object")
  BY <1>1, FieldSet, HasSet
<1> HIDE DEF e, s
<1>5. /\ \A o, k : k # "object" /\ o \notin {"reality", "tls"} =>
           Field(s, o, k) = Field(d, o, k)
      /\ \A k : k # "object" => Field(s, "tls", k) =
              IF in.security = "tls" /\ in.name # Empty /\ k = "name"
              THEN in.name ELSE Field(d, "tls", k)
      /\ in.security = "reality" =>
           /\ Field(s, "reality", "target") = in.target
           /\ Field(s, "reality", "dest") = Empty
           /\ Field(s, "reality", "names") = AsList(in.name)
           /\ Field(s, "reality", "key") = in.key
           /\ Field(s, "reality", "ids") = AsList(in.id)
           /\ \A k : k \notin {"object", "target", "dest", "names", "key", "ids"} =>
                 Field(s, "reality", k) = Field(d, "reality", k)
      /\ \A o \in {"raw", "tcp"} : Has(s, o, "object") <=> Has(d, o, "object")
  BY SecuredFields DEF s
<1>6. /\ Field(e, "stream", "network") = in.network
      /\ Field(e, "stream", "security") = in.security
      /\ \A k : k \notin {"object", "network", "security"} =>
           Field(e, "stream", k) = Field(d, "stream", k)
      /\ \A o, k : k # "object" /\ o \notin {"stream", "reality", "tls"} => Field(e, o, k) =
              IF o = in.network THEN First(Written(in, k), Field(d, o, k)) ELSE Field(d, o, k)
      /\ \A o \in {"raw", "tcp"} : Has(e, o, "object") <=> Has(d, o, "object")
      /\ in.network = "xhttp" => Has(e, "xhttp", "object")
  BY <1>0, <1>2, <1>3, <1>4, <1>5
<1>7. \A k : k # "object" =>
        /\ Field(e, "reality", k) = Field(s, "reality", k)
        /\ Field(e, "tls", k) = Field(s, "tls", k)
  BY <1>0, <1>2, <1>3, <1>4
<1>8. QED
  BY <1>5, <1>6, <1>7 DEF e

-----------------------------------------------------------------------------
(* The ordinary form shows what it was sent, and can edit what it accepted *)

(* The steps of Accounts.Update.                                           *)
LEMMA Updates ==
  ASSUME NEW p, NEW d, NEW in, AfterUpdate(p, d, in) # Refused
  PROVE  LET base == Sanitized(p, d, in)
             all  == Merged(in, ToView(base))
             one  == Protocoled(p, base, all)
             f    == AfterUpdate(p, d, in) IN
         /\ f = Stream(one, all)
         /\ Valid(p, all)
         /\ all.network \in Networks
         /\ all.security \in {"none", "tls", "reality"}
         /\ \A o, k : k # "object" => Field(one, o, k) =
               IF p = "vless" /\ o = "settings" /\ k = "flow"
               THEN all.flow ELSE Field(base, o, k)
         /\ \A o \in {"raw", "tcp"} : Has(one, o, "object") <=> Has(base, o, "object")
<1> DEFINE base == Sanitized(p, d, in)
           all  == Merged(in, ToView(base))
<1>1. Valid(p, all) /\ AfterUpdate(p, d, in) = Stream(Protocoled(p, base, all), all)
  BY DEF AfterUpdate
<1> HIDE DEF base, all
<1>2. all.network \in Networks /\ all.security \in {"none", "tls", "reality"}
  BY <1>1 DEF Valid, SecurityFits
<1>3. /\ \A o, k : k # "object" => Field(Protocoled(p, base, all), o, k) =
               IF p = "vless" /\ o = "settings" /\ k = "flow"
               THEN all.flow ELSE Field(base, o, k)
      /\ \A o \in {"raw", "tcp"} :
           Has(Protocoled(p, base, all), o, "object") <=> Has(base, o, "object")
  BY FieldSetOrDelete, HasSetOrDelete DEF Protocoled
<1>4. QED
  BY <1>1, <1>2, <1>3 DEF base, all

(* The two names of a transport go together.                               *)
LEMMA Spelling ==
  /\ \A n \in Networks : NetworkOf(Canonical(n)) = n /\ n # Empty
  /\ \A d : NetworkOf(Method(d)) \in Networks => Canonical(NetworkOf(Method(d))) = Method(d)
<1>1. \A n \in Networks : NetworkOf(Canonical(n)) = n /\ n # Empty
  BY DEF Networks, PathNetworks, NetworkOf, Canonical, Empty
<1>2. ASSUME NEW d, NetworkOf(Method(d)) \in Networks
      PROVE  Canonical(NetworkOf(Method(d))) = Method(d)
  <2>1. Method(d) \in {"raw", "websocket", "xhttp", "grpc", "httpupgrade"}
    BY <1>2, Canonicals DEF Networks, PathNetworks, NetworkOf
  <2>2. QED
    BY <2>1 DEF NetworkOf, Canonical, Empty
<1>3. QED
  BY <1>1, <1>2

(* What Accounts.Update leaves behind when the document has no "method":   *)
(* what was sent or else kept is in the object of the transport that was   *)
(* sent, and the document can be edited again.                             *)
LEMMA Updated ==
  ASSUME NEW p, NEW d, NEW in, ~Has(d, "stream", "method"), AfterUpdate(p, d, in) # Refused
  PROVE  LET base == Sanitized(p, d, in)
             all  == Merged(in, ToView(base))
             f    == AfterUpdate(p, d, in) IN
         /\ NetworkOf(Method(f)) = all.network /\ Security(f) = all.security
         /\ all.network \in PathNetworks => Active(f) = all.network
         /\ p = "vless" => Field(f, "settings", "flow") = all.flow
         /\ all.network \in PathNetworks \cup {"grpc"} => \A k : k # "object" =>
              Field(f, all.network, k) = First(Written(all, k), Field(base, all.network, k))
         /\ all.security = "tls" => Field(f, "tls", "name") =
              IF all.name # Empty THEN all.name ELSE Field(base, "tls", "name")
         /\ all.security = "reality" =>
              /\ Field(f, "reality", "target") = all.target
              /\ Field(f, "reality", "dest") = Empty
              /\ Field(f, "reality", "names") = AsList(all.name)
              /\ Field(f, "reality", "key") = all.key
              /\ Field(f, "reality", "ids") = AsList(all.id)
         /\ Editable(p, f)
<1> DEFINE base == Sanitized(p, d, in)
           all  == Merged(in, ToView(base))
           one  == Protocoled(p, base, all)
           f    == AfterUpdate(p, d, in)
<1>1. /\ f = Stream(one, all) /\ Valid(p, all)
      /\ all.network \in Networks /\ all.security \in {"none", "tls", "reality"}
      /\ \A o, k : k # "object" => Field(one, o, k) =
            IF p = "vless" /\ o = "settings" /\ k = "flow"
            THEN all.flow ELSE Field(base, o, k)
  BY Updates
<1>2. Field(base, "stream", "method") = Empty
  <2>1. Field(d, "stream", "method") = Empty
    BY DEF Field
  <2>2. QED
    BY <2>1, SanitizedFields
<1> HIDE DEF base, all, one, f
<1>3. all.network \notin {"settings", "stream", "reality", "tls"}
  BY <1>1 DEF Networks, PathNetworks
<1>4. /\ Field(f, "stream", "network") = all.network
      /\ Field(f, "stream", "security") = all.security
      /\ Field(f, "stream", "method") = Empty
      /\ Field(f, "settings", "flow") = Field(one, "settings", "flow")
      /\ \A k : k # "object" =>
           Field(f, all.network, k) = First(Written(all, k), Field(one, all.network, k))
      /\ all.security = "tls" => Field(f, "tls", "name") =
           IF all.name # Empty THEN all.name ELSE Field(one, "tls", "name")
      /\ all.security = "reality" =>
           /\ Field(f, "reality", "target") = all.target
           /\ Field(f, "reality", "dest") = Empty
           /\ Field(f, "reality", "names") = AsList(all.name)
           /\ Field(f, "reality", "key") = all.key
           /\ Field(f, "reality", "ids") = AsList(all.id)
      /\ all.network = "xhttp" => Has(f, "xhttp", "object")
  <2>1. Field(one, "stream", "method") = Empty
    BY <1>1, <1>2
  <2>2. QED
    BY <1>1, <1>3, <2>1, StreamFields
<1>5. Method(f) = Canonical(all.network) /\ NetworkOf(Method(f)) = all.network
      /\ Security(f) = all.security
  BY <1>1, <1>4, Spelling DEF Method, Security, First, Empty
<1>6. all.network \in PathNetworks => Active(f) = all.network
  BY <1>4, <1>5 DEF Active, XHTTPKey, PathNetworks, Canonical, Empty
<1>7. p = "vless" => Field(f, "settings", "flow") = all.flow
  BY <1>1, <1>4
<1>8. Editable(p, f)
  BY <1>1, <1>5, <1>7 DEF Editable, Valid
<1>9. \A k : k # "object" => Field(one, all.network, k) = Field(base, all.network, k)
  BY <1>1, <1>3
<1>10. Field(one, "tls", "name") = Field(base, "tls", "name")
  BY <1>1
<1>11. QED
  BY <1>4, <1>5, <1>6, <1>7, <1>8, <1>9, <1>10 DEF base, all, f

(* A text comes back from the list it is written into, and what is read is *)
(* a text or Empty.                                                        *)
LEMMA TextsComeBack ==
  /\ \A x : x \notin NoTexts \ {Empty} => FirstOf(AsList(x)) = x /\ Text(x) = x
  /\ \A v : FirstOf(v) \notin NoTexts \ {Empty} /\ Text(v) \notin NoTexts \ {Empty}
<1>1. \A x : x \notin NoTexts \ {Empty} => FirstOf(AsList(x)) = x
  BY DEF NoTexts, Empty, FirstOf, AsList
<1>2. \A x : x \notin NoTexts \ {Empty} => Text(x) = x
  BY DEF Text
<1>3. \A v : FirstOf(v) \notin NoTexts \ {Empty}
  BY DEF NoTexts, Empty, FirstOf
<1>4. \A v : Text(v) \notin NoTexts \ {Empty}
  BY DEF NoTexts, Empty, Text
<1>5. QED
  BY <1>1, <1>2, <1>3, <1>4

(* What the merge reads for the security is what the form showed: clearing *)
(* touches none of it.                                                     *)
LEMMA OldSecurity ==
  ASSUME NEW p, NEW d, NEW in
  PROVE  LET old    == ToView(Sanitized(p, d, in))
             before == EditorView(p, d) IN
         /\ old.security = before.security
         /\ old.name = before.name /\ old.target = before.target
         /\ old.key = before.key /\ old.id = before.id
<1> DEFINE base == Sanitized(p, d, in)
           old == ToView(base)
<1>1. \A o, k : k \notin {"object", "flow", "path", "service"} \cup HostKeys =>
        Field(base, o, k) = Field(d, o, k)
  BY SanitizedFields, EmptiedKeys DEF HostKeys
<1> HIDE DEF base
<1>2. Security(base) = Security(d) /\ ShownTarget(base) = ShownTarget(d)
  BY <1>1 DEF Security, ShownTarget, HostKeys
<1>3. /\ \A k \in {"names", "key", "ids"} :
           Field(base, "reality", k) = Field(d, "reality", k)
      /\ Field(base, "tls", "name") = Field(d, "tls", "name")
  BY <1>1 DEF HostKeys
<1>4. QED
  BY <1>2, <1>3 DEF EditorView, ToView, base

(* What was emptied of a transport that stays is found empty by the merge  *)
(* and left empty in what is built on.                                     *)
LEMMA EmptiedIsEmpty ==
  ASSUME NEW p, NEW d, WellFormed(d), ~Has(d, "stream", "method"), NEW in,
         in.network \in Networks
  PROVE  LET base == Sanitized(p, d, in)
             old  == ToView(base) IN
         /\ in.network \in PathNetworks /\ in.path = Empty =>
              /\ Field(base, in.network, "path") = Empty
              /\ in.network = EditorView(p, d).network => old.path = Empty
         /\ in.network \in PathNetworks /\ in.host = Empty =>
              /\ ShownHost(base, in.network) = Empty
              /\ in.network = EditorView(p, d).network => old.host = Empty
         /\ in.network = "grpc" /\ in.service = Empty =>
              Field(base, "grpc", "service") = Empty /\ old.service = Empty
<1> DEFINE base == Sanitized(p, d, in)
           old == ToView(base)
           m == First(Field(d, "stream", "network"), "tcp")
           o == IF in.network = "xhttp" THEN XHTTPKey(d) ELSE in.network
<1>1. /\ \A o1, k : k # "object" => Field(base, o1, k) =
           IF \/ o1 = "settings" /\ k = "flow" /\ p = "vless" /\ in.flow = Empty
              \/ o1 = o /\ k \in Emptied(in)
           THEN Empty ELSE Field(d, o1, k)
  BY SanitizedFields
<1>2. First(Field(base, "stream", "network"), "tcp") = m
  BY <1>1, EmptiedKeys DEF HostKeys
<1>3. /\ old.path = IF m \in PathNetworks THEN Field(base, m, "path") ELSE Empty
      /\ old.host = IF m \in PathNetworks THEN ShownHost(base, m) ELSE Empty
      /\ old.service = IF m = "grpc" THEN Field(base, m, "service") ELSE Empty
  BY <1>2 DEF ToView
<1>4. m \in PathNetworks => EditorView(p, d).network = m
  <2> SUFFICES ASSUME m \in PathNetworks PROVE EditorView(p, d).network = m
    OBVIOUS
  <2>1. Field(d, "stream", "method") = Empty
    BY DEF Field
  <2>2. Method(d) = Canonical(m) /\ m \in Networks
    BY <2>1 DEF Method, First, PathNetworks, Networks
  <2>3. NetworkOf(Method(d)) = m
    BY <2>2, Spelling
  <2>4. QED
    BY <2>2, <2>3 DEF EditorView, ToView
<1> HIDE DEF base, old, m
<1>5. ASSUME NEW k \in Emptied(in), k # "object", in.network \in PathNetworks \cup {"grpc"}
      PROVE  Field(base, in.network, k) = Empty
  <2>1. CASE in.network = "xhttp" /\ XHTTPKey(d) = "splithttp"
    <3>1. Field(d, "xhttp", k) = Empty
      BY <2>1, Absent DEF XHTTPKey
    <3>2. QED
      BY <1>1, <1>5, <2>1, <3>1
  <2>2. CASE ~(in.network = "xhttp" /\ XHTTPKey(d) = "splithttp")
    <3>1. o = in.network
      BY <2>2 DEF XHTTPKey
    <3>2. QED
      BY <1>1, <1>5, <3>1
  <2>3. QED
    BY <2>1, <2>2
<1>6. ASSUME in.network \in PathNetworks, in.path = Empty
      PROVE  /\ Field(base, in.network, "path") = Empty
             /\ in.network = EditorView(p, d).network => old.path = Empty
  <2>1. Field(base, in.network, "path") = Empty
    BY <1>5, <1>6, EmptiedIs
  <2>2. QED
    BY <1>3, <1>4, <2>1
<1>7. ASSUME in.network \in PathNetworks, in.host = Empty
      PROVE  /\ ShownHost(base, in.network) = Empty
             /\ in.network = EditorView(p, d).network => old.host = Empty
  <2>1. Field(base, in.network, "host") = Empty
    BY <1>5, <1>7, EmptiedIs
  <2>2. in.network = "ws" =>
          Field(base, in.network, "Host") = Empty /\ Field(base, in.network, "lowerHost") = Empty
    BY <1>5, <1>7, EmptiedIs
  <2>3. ShownHost(base, in.network) = Empty
    BY <2>1, <2>2 DEF ShownHost, First
  <2>4. QED
    BY <1>3, <1>4, <2>3
<1>8. ASSUME in.network = "grpc", in.service = Empty
      PROVE  Field(base, "grpc", "service") = Empty /\ old.service = Empty
  <2>1. Field(base, "grpc", "service") = Empty
    BY <1>5, <1>8, EmptiedIs
  <2>2. QED
    BY <1>3, <2>1
<1>9. QED
  BY <1>6, <1>7, <1>8 DEF base, old

(* A text that was sent is written, and shown unless a host goes before    *)
(* it; an empty one of a transport that stays was cleared before the       *)
(* merge; an empty one of the security is what the form showed before.     *)
LEMMA Sent ==
  ASSUME NEW p, NEW d, WellFormed(d), ~Has(d, "stream", "method"),
         NEW in, DOMAIN in = FormKeys,
         in.network \in Networks, in.security \in {"none", "tls", "reality"},
         \A k \in {"name", "target", "id"} : in[k] \notin NoTexts \ {Empty},
         AfterUpdate(p, d, in) # Refused
  PROVE  LET before == EditorView(p, d)
             view   == EditorView(p, AfterUpdate(p, d, in)) IN
         /\ view.network = in.network /\ view.security = in.security
         /\ p = "vless" => view.flow = in.flow
         /\ \A k \in ShownKeys(in.network) :
              /\ in.network = before.network \/ in[k] # Empty
              /\ k = "host" => ~HidesHost(d, in)
              => view[k] = in[k]
         /\ in.security = "reality" =>
              \A k \in {"name", "target", "key", "id"} : view[k] = First(in[k], before[k])
         /\ in.security = "tls" =>
              view.name = First(in.name, First(before.name, Text(Field(d, "tls", "name"))))
<1> DEFINE before == EditorView(p, d)
           base == Sanitized(p, d, in)
           old  == ToView(base)
           all  == Merged(in, old)
           f    == AfterUpdate(p, d, in)
           view == EditorView(p, f)
<1>1. /\ NetworkOf(Method(f)) = all.network /\ Security(f) = all.security
      /\ all.network \in PathNetworks => Active(f) = all.network
      /\ p = "vless" => Field(f, "settings", "flow") = all.flow
      /\ all.network \in PathNetworks \cup {"grpc"} => \A k : k # "object" =>
           Field(f, all.network, k) = First(Written(all, k), Field(base, all.network, k))
      /\ all.security = "tls" => Field(f, "tls", "name") =
           IF all.name # Empty THEN all.name ELSE Field(base, "tls", "name")
      /\ all.security = "reality" =>
           /\ Field(f, "reality", "target") = all.target
           /\ Field(f, "reality", "dest") = Empty
           /\ Field(f, "reality", "names") = AsList(all.name)
           /\ Field(f, "reality", "key") = all.key
           /\ Field(f, "reality", "ids") = AsList(all.id)
      /\ Editable(p, f)
  BY Updated
<1>2. \A k \in FormKeys : all[k] = First(in[k], old[k])
  BY DEF Merged
<1>3. all.network = in.network /\ all.security = in.security
  <2>1. in.network # Empty /\ in.security # Empty
    BY Spelling DEF Empty
  <2> HIDE DEF all, old
  <2>2. QED
    BY <1>2, <2>1 DEF First, FormKeys
<1>4. /\ \A k : k # "object" /\ k \notin {"path", "service", "flow"} \cup HostKeys =>
           \A o : Field(base, o, k) = Field(d, o, k)
      /\ Field(base, "settings", "flow") =
           IF p = "vless" /\ in.flow = Empty THEN Empty ELSE Field(d, "settings", "flow")
      /\ old.flow = Field(base, "settings", "flow")
  <2>1. old.flow = Field(base, "settings", "flow")
    BY DEF ToView
  <2>2. "flow" \notin Emptied(in)
    BY EmptiedKeys DEF HostKeys
  <2>3. QED
    BY <2>1, <2>2, SanitizedFields, EmptiedKeys DEF HostKeys
<1>5. /\ view.network = in.network /\ view.security = Security(f)
      /\ view.flow = Field(f, "settings", "flow")
      /\ in.network \in PathNetworks =>
           /\ view.path = Field(f, in.network, "path")
           /\ view.host = ShownHost(f, in.network)
      /\ in.network = "grpc" => view.service = Field(f, "grpc", "service")
      /\ in.security = "reality" =>
           /\ view.name = FirstOf(Field(f, "reality", "names"))
           /\ view.target = ShownTarget(f)
           /\ view.key = Field(f, "reality", "key")
           /\ view.id = FirstOf(Field(f, "reality", "ids"))
      /\ in.security = "tls" => view.name = Text(Field(f, "tls", "name"))
  <2> HIDE DEF f, all
  <2>1. Security(f) = in.security /\ NetworkOf(Method(f)) = in.network
        /\ (in.network \in PathNetworks => Active(f) = in.network)
    BY <1>1, <1>3
  <2>2. QED
    BY <1>1, <2>1 DEF EditorView, ToView
<1>6. p = "vless" => view.flow = in.flow
  <2> HIDE DEF f, view, all, old, base
  <2>1. all.flow = First(in.flow, old.flow)
    BY <1>2 DEF FormKeys
  <2>2. QED
    BY <1>1, <1>4, <1>5, <2>1 DEF First
<1>7. ASSUME NEW k \in ShownKeys(in.network), in.network = before.network \/ in[k] # Empty,
             k = "host" => ~HidesHost(d, in)
      PROVE  view[k] = in[k]
  <2>0. /\ in.network \in PathNetworks /\ in.path = Empty =>
             /\ Field(base, in.network, "path") = Empty
             /\ in.network = before.network => old.path = Empty
        /\ in.network \in PathNetworks /\ in.host = Empty =>
             /\ ShownHost(base, in.network) = Empty
             /\ in.network = before.network => old.host = Empty
        /\ in.network = "grpc" /\ in.service = Empty =>
             Field(base, "grpc", "service") = Empty /\ old.service = Empty
    BY EmptiedIsEmpty
  <2> HIDE DEF f, view, all, old, base, before
  <2>1. /\ all.path = First(in.path, old.path) /\ all.host = First(in.host, old.host)
        /\ all.service = First(in.service, old.service)
    BY <1>2 DEF FormKeys
  <2>2. CASE k = "path"
    <3>1. in.network \in PathNetworks
      BY <1>7, <2>2 DEF ShownKeys
    <3>2. Written(all, "path") = all.path
      BY <1>3, <3>1 DEF Written, HostKey
    <3>3. view.path = First(all.path, Field(base, in.network, "path"))
      BY <1>1, <1>3, <1>5, <3>1, <3>2
    <3>4. in.network = before.network \/ in.path # Empty
      BY <1>7, <2>2
    <3>5. view.path = in.path
      BY <2>0, <2>1, <3>1, <3>3, <3>4 DEF First
    <3>6. QED
      BY <2>2, <3>5
  <2>3. CASE k = "service"
    <3>1. in.network = "grpc"
      BY <1>7, <2>3 DEF ShownKeys, PathNetworks
    <3>2. Written(all, "service") = all.service
      BY <1>3, <3>1 DEF Written, PathNetworks
    <3>3. view.service = First(all.service, Field(base, "grpc", "service"))
      BY <1>1, <1>3, <1>5, <3>1, <3>2
    <3>4. view.service = in.service
      BY <2>0, <2>1, <3>1, <3>3 DEF First
    <3>5. QED
      BY <2>3, <3>4
  <2>4. CASE k = "host"
    <3>1. in.network \in PathNetworks
      BY <1>7, <2>4 DEF ShownKeys
    <3>2. in.network = before.network \/ in.host # Empty
      BY <1>7, <2>4
    <3>3. view.host = ShownHost(f, in.network)
      BY <1>5, <3>1
    <3>4. \A j : j # "object" =>
            Field(f, in.network, j) = First(Written(all, j), Field(base, in.network, j))
      BY <1>1, <1>3, <3>1
    <3>5. CASE in.network # "ws"
      <4>1. Written(all, "host") = all.host
        BY <1>3, <3>1, <3>5 DEF Written, HostKey
      <4>2. /\ view.host = First(all.host, Field(base, in.network, "host"))
            /\ ShownHost(base, in.network) = Field(base, in.network, "host")
        BY <3>3, <3>4, <3>5, <4>1 DEF ShownHost
      <4>3. view.host = in.host
        BY <2>0, <2>1, <3>1, <3>2, <4>2 DEF First
      <4>4. QED
        BY <2>4, <4>3
    <3>6. CASE in.network = "ws"
      <4>1. /\ Written(all, "Host") = all.host
            /\ Written(all, "host") = Empty /\ Written(all, "lowerHost") = Empty
        BY <1>3, <3>1, <3>6 DEF Written, HostKey, PathNetworks
      <4>2. /\ Field(f, "ws", "Host") = First(all.host, Field(base, "ws", "Host"))
            /\ Field(f, "ws", "host") = Field(base, "ws", "host")
            /\ Field(f, "ws", "lowerHost") = Field(base, "ws", "lowerHost")
        BY <3>4, <3>6, <4>1 DEF First
      <4>3. view.host = First(Field(f, "ws", "host"),
                              First(Field(f, "ws", "Host"), Field(f, "ws", "lowerHost")))
        BY <3>3, <3>6 DEF ShownHost
      <4>4. CASE in.host = Empty
        <5>1. ShownHost(base, "ws") = Empty /\ all.host = Empty
          BY <2>0, <2>1, <3>1, <3>2, <3>6, <4>4 DEF First
        <5>2. /\ Field(base, "ws", "host") = Empty /\ Field(base, "ws", "Host") = Empty
              /\ Field(base, "ws", "lowerHost") = Empty
          BY <5>1 DEF ShownHost, First
        <5>3. view.host = Empty
          BY <4>2, <4>3, <5>1, <5>2 DEF First
        <5>4. QED
          BY <2>4, <4>4, <5>3
      <4>5. CASE in.host # Empty
        <5>1. Field(d, "ws", "host") \in {Empty, in.host}
          BY <1>7, <2>4, <3>6, <4>5 DEF HidesHost
        <5>2. Field(base, "ws", "host") = Field(d, "ws", "host")
          BY <3>6, <4>5, SanitizedFields, EmptiedIs DEF base
        <5>3. all.host = in.host
          BY <2>1, <4>5 DEF First
        <5>4. view.host = in.host
          BY <4>2, <4>3, <4>5, <5>1, <5>2, <5>3 DEF First
        <5>5. QED
          BY <2>4, <5>4
      <4>6. QED
        BY <4>4, <4>5
    <3>7. QED
      BY <3>5, <3>6
  <2>5. QED
    BY <1>7, <2>2, <2>3, <2>4 DEF ShownKeys
<1>8. /\ old.name = before.name /\ old.target = before.target
      /\ old.key = before.key /\ old.id = before.id
  BY OldSecurity
<1>9. /\ all.name = First(in.name, before.name) /\ all.target = First(in.target, before.target)
      /\ all.key = First(in.key, before.key) /\ all.id = First(in.id, before.id)
  <2> HIDE DEF all, old, before
  <2>1. QED
    BY <1>2, <1>8 DEF FormKeys
<1>10. \A k \in {"name", "target", "id"} : all[k] \notin NoTexts \ {Empty}
  <2>1. /\ before.name \notin NoTexts \ {Empty} /\ before.target \notin NoTexts \ {Empty}
        /\ before.id \notin NoTexts \ {Empty}
    <3>1. /\ before.name \in {FirstOf(Field(d, "reality", "names")),
                              Text(Field(d, "tls", "name")), Empty}
          /\ before.target = ShownTarget(d)
          /\ before.id \in {FirstOf(Field(d, "reality", "ids")), Empty}
      BY DEF EditorView, ToView
    <3>2. ShownTarget(d) \in {Text(Field(d, "reality", "target")),
                              Text(Field(d, "reality", "dest")), Empty}
      BY DEF ShownTarget, First
    <3> HIDE DEF before
    <3>3. QED
      BY <3>1, <3>2, TextsComeBack
  <2> HIDE DEF all, before
  <2>2. QED
    BY <1>9, <2>1 DEF First
<1>11. in.security = "reality" =>
         \A k \in {"name", "target", "key", "id"} : view[k] = First(in[k], before[k])
  <2> HIDE DEF f, view, all, old, base, before
  <2> SUFFICES ASSUME in.security = "reality"
               PROVE  \A k \in {"name", "target", "key", "id"} :
                        view[k] = First(in[k], before[k])
    OBVIOUS
  <2>1. view.name = all.name /\ view.id = all.id
    BY <1>1, <1>3, <1>5, <1>10, TextsComeBack
  <2>2. view.key = all.key
    BY <1>1, <1>3, <1>5
  <2>3. view.target = all.target
    <3>1. ShownTarget(f) = First(Text(all.target), Text(Empty))
      BY <1>1, <1>3 DEF ShownTarget
    <3>2. Text(Empty) = Empty /\ Text(all.target) = all.target
      BY <1>10, TextsComeBack
    <3>3. QED
      BY <1>5, <3>1, <3>2 DEF First
  <2>4. QED
    BY <1>9, <2>1, <2>2, <2>3
<1>12. in.security = "tls" =>
         view.name = First(in.name, First(before.name, Text(Field(d, "tls", "name"))))
  <2> HIDE DEF f, view, all, old, base, before
  <2>1. Field(base, "tls", "name") = Field(d, "tls", "name")
    BY <1>4 DEF HostKeys
  <2>2. in.security = "tls" => view.name =
          Text(IF all.name # Empty THEN all.name ELSE Field(d, "tls", "name"))
    BY <1>1, <1>3, <1>5, <2>1
  <2>3. Text(all.name) = all.name
    BY <1>10, TextsComeBack
  <2>4. QED
    BY <1>9, <2>2, <2>3 DEF First
<1>13. view.security = in.security
  BY <1>1, <1>3, <1>5
<1> HIDE DEF view, before, f
<1>14. QED
  BY <1>5, <1>6, <1>7, <1>11, <1>12, <1>13 DEF view, before, f

(* What Accounts.Update accepts it can edit again.                         *)
LEMMA UpdateEditable ==
  ASSUME NEW p, NEW d, NEW in, ~Has(d, "stream", "method"), AfterUpdate(p, d, in) # Refused
  PROVE  Editable(p, AfterUpdate(p, d, in))
  BY Updated

(* The other two forms leave alone what decides that.                      *)
LEMMA SameEditable ==
  ASSUME NEW p, NEW d, NEW e, Editable(p, d),
         \A k : k \notin {"object", "proxy"} => Field(e, "stream", k) = Field(d, "stream", k),
         Field(e, "settings", "flow") = Field(d, "settings", "flow")
  PROVE  Editable(p, e)
  BY FieldsGive DEF Editable

LEMMA AdvancedEditable ==
  ASSUME NEW p, NEW d, NEW in, Editable(p, d), AfterAdvanced(p, d, in) # Refused
  PROVE  Editable(p, AfterAdvanced(p, d, in))
<1> DEFINE one == SetOrDelete(d, "settings", "fallbacks", in.fallbacks)
           e == Proxied(one, AdvancedTransports, in.proxy)
           f == AfterAdvanced(p, d, in)
<1>1. f = IF AdvancedRaw(d) THEN Headed(e, AdvancedKey(e), in.header) ELSE e
  BY DEF AfterAdvanced
<1>2. \A o, k : k # "object" /\ <<o, k>> # <<"settings", "fallbacks">> =>
      Field(one, o, k) = Field(d, o, k)
  BY FieldSetOrDelete
<1> HIDE DEF one
<1>3. \A o, k : k \notin {"object", "proxy"} => Field(e, o, k) = Field(one, o, k)
  BY FieldProxied
<1> HIDE DEF e, f
<1>4. AdvancedKey(e) \in {"raw", "tcp"}
  BY DEF AdvancedKey
<1>5. \A o, k : k # "object" /\ o \notin {"raw", "tcp"} => Field(f, o, k) = Field(e, o, k)
  BY <1>1, <1>4, FieldHeaded
<1>6. QED
  BY <1>2, <1>3, <1>5, SameEditable DEF f

LEMMA ExpertEditable ==
  ASSUME NEW p, NEW d, NEW in, Editable(p, d), AfterExpert(p, d, in) # Refused
  PROVE  Editable(p, AfterExpert(p, d, in))
<1> DEFINE one == SetOrDelete(d, "settings", "fallbacks", in.fallbacks)
           e == Proxied(one, Proxying(d), in.proxy)
           h == IF Method(d) = "raw" THEN Headed(e, RawKey(e), in.header) ELSE e
           x == ExpertSecured(h, in)
           f == AfterExpert(p, d, in)
<1>1. f = ExpertTransported(x, in)
  BY DEF AfterExpert
<1>2. \A o, k : k # "object" /\ <<o, k>> # <<"settings", "fallbacks">> =>
      Field(one, o, k) = Field(d, o, k)
  BY FieldSetOrDelete
<1> HIDE DEF one
<1>3. \A o, k : k \notin {"object", "proxy"} => Field(e, o, k) = Field(one, o, k)
  BY FieldProxied
<1> HIDE DEF e, f
<1>4. RawKey(e) \in {"raw", "tcp"}
  BY DEF RawKey
<1>5. \A o, k : k # "object" /\ o \notin {"raw", "tcp"} => Field(h, o, k) = Field(e, o, k)
  BY <1>4, FieldHeaded
<1> HIDE DEF h
<1>6. \A o, k : k # "object" /\ o \notin {"reality", "tls"} => Field(x, o, k) = Field(h, o, k)
  <2> DEFINE s == Set(h, "reality", "target", in.target)
             t == IF in.target = Empty THEN h ELSE Drop(s, "reality", "dest")
             n == SetIf(t, "reality", "names", in.names)
             i == SetIf(SetIf(n, "reality", "key", in.key), "reality", "ids", in.ids)
             u == SetOrDelete(i, "reality", "options", in.options)
             a == SetOrDelete(h, "tls", "alpn", in.alpn)
             w == SetOrDelete(a, "tls", "options", in.options)
  <2>1. x \in {h, With(w, "tls"), With(u, "reality")}
    BY DEF ExpertSecured
  <2>2. \A o, k : k # "object" /\ o # "reality" => Field(s, o, k) = Field(h, o, k)
    BY FieldSet
  <2> HIDE DEF s
  <2>3. \A o, k : k # "object" /\ o # "reality" => Field(t, o, k) = Field(h, o, k)
    BY <2>2, FieldDrop
  <2> HIDE DEF t
  <2>4. \A o, k : k # "object" /\ o # "reality" => Field(i, o, k) = Field(t, o, k)
    BY FieldSetIf
  <2> HIDE DEF i
  <2>5. \A o, k : k # "object" /\ o # "reality" => Field(u, o, k) = Field(i, o, k)
    BY FieldSetOrDelete
  <2>6. \A o, k : k # "object" /\ o # "tls" => Field(w, o, k) = Field(h, o, k)
    BY FieldSetOrDelete
  <2> HIDE DEF u, w, x
  <2>7. QED
    BY <2>1, <2>3, <2>4, <2>5, <2>6, FieldWith
<1> HIDE DEF x
<1>7. XHTTPKey(x) \in {"xhttp", "splithttp"}
  BY DEF XHTTPKey
<1>8. \A o, k : k # "object" /\ o \notin {"xhttp", "splithttp"} =>
      Field(f, o, k) = Field(x, o, k)
  BY <1>1, <1>7, FieldSetOrDelete, FieldWith DEF ExpertTransported
<1>9. QED
  BY <1>2, <1>3, <1>5, <1>6, <1>8, SameEditable DEF f

(* The ordinary form shows afterwards what it was sent; a value of the     *)
(* transport that came empty is cleared, one of the security kept.         *)
THEOREM SentIsShown ==
  ASSUME DocumentAssumption, FormAssumption PROVE Spec => []ShownAsSent
<1>1. WellFormed(doc) => ShownAsSent
  <2> SUFFICES ASSUME WellFormed(doc), Plain, NEW in \in Forms,
                      AfterUpdate(protocol, doc, in) # Refused
               PROVE  LET before == EditorView(protocol, doc)
                          view == EditorView(protocol, AfterUpdate(protocol, doc, in)) IN
         /\ view.network = in.network /\ view.security = in.security
         /\ protocol = "vless" => view.flow = in.flow
         /\ \A k \in ShownKeys(in.network) :
              /\ in.network = before.network \/ in[k] # Empty
              /\ k = "host" => ~HidesHost(doc, in)
              => view[k] = in[k]
         /\ in.security = "reality" =>
              \A k \in {"name", "target", "key", "id"} : view[k] = First(in[k], before[k])
         /\ in.security = "tls" =>
              view.name = First(in.name, First(before.name, Text(Field(doc, "tls", "name"))))
    BY DEF ShownAsSent
  <2>1. in \in Inputs
    BY DEF FormAssumption
  <2>2. DOMAIN in = FormKeys /\ in.network \in Networks
        /\ in.security \in {"none", "tls", "reality"}
    BY <2>1 DEF Inputs, FormKeys
  <2>3. \A k \in {"name", "target", "id"} : in[k] \in OrEmpty
    <3>1. \E n \in Networks, s \in {"none", "tls", "reality"}, fl \in {Empty, "vision"} :
            \E r \in SecureInputs(s), t \in TransportInputs(n) :
              in = [network |-> n, security |-> s, flow |-> fl, target |-> r.target,
                    name |-> r.name, key |-> r.key, id |-> r.id, path |-> t.path,
                    host |-> t.host, service |-> t.service]
      BY <2>1 DEF Inputs
    <3>2. PICK s \in {"none", "tls", "reality"} : \E r \in SecureInputs(s) :
            in.target = r.target /\ in.name = r.name /\ in.id = r.id
      BY <3>1
    <3>3. PICK r \in SecureInputs(s) :
            in.target = r.target /\ in.name = r.name /\ in.id = r.id
      BY <3>2
    <3>4. r.target \in OrEmpty /\ r.name \in OrEmpty /\ r.id \in OrEmpty
      BY DEF SecureInputs, OrEmpty
    <3>5. QED
      BY <3>3, <3>4
  <2>4. \A k \in {"name", "target", "id"} : in[k] \notin NoTexts \ {Empty}
    BY <2>3 DEF OrEmpty, DocumentAssumption
  <2>5. QED
    BY <2>2, <2>4, Sent DEF Plain
<1>2. QED
  BY <1>1, DocumentWell, PTL

(* No form takes an account out of the reach of the ordinary editor.       *)
THEOREM NeverOutOfReach == Spec => StaysEditable
<1>1. [Next]_vars => [Plain /\ Editable(protocol, doc) => Editable(protocol, doc)']_vars
  <2> SUFFICES ASSUME Next, Plain, Editable(protocol, doc) PROVE Editable(protocol', doc')
    OBVIOUS
  <2>1. CASE Update
    BY <2>1, UpdateEditable DEF Update, Saves, Plain
  <2>2. CASE UpdateAdvanced
    BY <2>2, AdvancedEditable DEF UpdateAdvanced, Saves
  <2>3. CASE UpdateExpert
    BY <2>3, ExpertEditable DEF UpdateExpert, Saves
  <2>4. QED
    BY <2>1, <2>2, <2>3 DEF Next
<1>2. QED
  BY <1>1, PTL DEF Spec, StaysEditable

-----------------------------------------------------------------------------
(* The ordinary form saved as it is shown                                  *)

(* What the ordinary form shows is what it is read from: clearing clears   *)
(* nothing, the merge finds what was sent, and each field is written as it *)
(* was, but for the spelling of the header Host.                           *)
LEMMA OrdinaryKeeps ==
  ASSUME NEW p, NEW d, AfterUpdate(p, d, EditorView(p, d)) # Refused,
         Has(d, "stream", "network") => Canonical(Field(d, "stream", "network")) = Method(d),
         Security(d) = "reality" =>
           /\ ShownTarget(d) = Target(d)
           /\ \A k \in {"names", "ids"} :
                AsList(FirstOf(Field(d, "reality", k))) = Field(d, "reality", k),
         Method(d) = "xhttp" => XHTTPKey(d) = "xhttp"
  PROVE  Serves(AfterUpdate(p, d, EditorView(p, d))) = Serves(d)
<1> DEFINE in   == EditorView(p, d)
           base == Sanitized(p, d, in)
           old  == ToView(base)
           all  == Merged(in, old)
           one  == Protocoled(p, base, all)
           f    == AfterUpdate(p, d, in)
           m    == Field(d, "stream", "network")
           n    == NetworkOf(Method(d))
<1>1. /\ f = Stream(one, all)
      /\ Valid(p, all)
      /\ all.network \in Networks /\ all.security \in {"none", "tls", "reality"}
      /\ \A o, k : k # "object" => Field(one, o, k) =
            IF p = "vless" /\ o = "settings" /\ k = "flow"
            THEN all.flow ELSE Field(base, o, k)
      /\ \A o \in {"raw", "tcp"} : Has(one, o, "object") <=> Has(base, o, "object")
  BY Updates
<1>2. /\ in.network = IF n \in Networks THEN n ELSE First(m, "tcp")
      /\ in.security = Security(d)
      /\ in.flow = Field(d, "settings", "flow")
      /\ in.name = CASE Security(d) = "reality" -> FirstOf(Field(d, "reality", "names"))
                     [] Security(d) = "tls" -> Text(Field(d, "tls", "name"))
                     [] OTHER -> Empty
      /\ in.target = ShownTarget(d)
      /\ in.key = IF Security(d) = "reality" THEN Field(d, "reality", "key") ELSE Empty
      /\ in.id = IF Security(d) = "reality" THEN FirstOf(Field(d, "reality", "ids")) ELSE Empty
      /\ Editable(p, d) /\ n \in PathNetworks =>
           in.path = Field(d, Active(d), "path") /\ in.host = ShownHost(d, Active(d))
      /\ Editable(p, d) /\ n = "grpc" => in.service = Field(d, "grpc", "service")
      /\ DOMAIN in = FormKeys
  BY DEF EditorView, ToView, FormKeys
<1>3. m \in Networks => m = n
  <2>1. m # Empty => Has(d, "stream", "network")
    BY DEF Field
  <2>2. QED
    BY <2>1, Spelling
<1>4. n \in PathNetworks => Active(d) = n /\ n \in Networks /\ n \notin {"tcp", "grpc"}
  BY Canonicals DEF NetworkOf, Active, PathNetworks, Networks
<1>5. in.network \in Networks =>
        \/ n \in Networks /\ in.network = n
        \/ n \notin Networks /\ in.network = "tcp" /\ m = Empty
  BY <1>2, <1>3 DEF First
<1>6. /\ all.network = in.network /\ in.network \in Networks
      /\ all.security = Security(d) /\ Security(d) \in {"none", "tls", "reality"}
      /\ in.flow # Empty => all.flow = in.flow
  <2>1. \A k \in FormKeys : all[k] = First(in[k], old[k])
    BY <1>2 DEF Merged
  <2>2. in.network # Empty /\ in.security # Empty
    <3>1. Security(d) # Empty
      BY DEF Security, First, Empty
    <3>2. in.network # Empty
      BY <1>2, Spelling DEF First, Empty
    <3>3. QED
      BY <1>2, <3>1, <3>2
  <2> HIDE DEF all, in, old
  <2>3. all.network = in.network /\ all.security = in.security
        /\ (in.flow # Empty => all.flow = in.flow)
    BY <2>1, <2>2 DEF First, FormKeys
  <2>4. QED
    BY <1>1, <1>2, <2>3
<1>7. n \in Networks => Editable(p, d)
  <2> HIDE DEF in, all, n
  <2>1. n \in Networks => in.network = n
    BY <1>2
  <2>2. QED
    BY <1>1, <1>2, <1>6, <2>1 DEF Editable, Valid, n
<1>8. /\ n \in PathNetworks => in.path = Field(d, n, "path") /\ in.host = ShownHost(d, n)
      /\ n = "grpc" => in.service = Field(d, "grpc", "service")
      /\ in.network \in PathNetworks \cup {"grpc"} => in.network = n
  BY <1>2, <1>4, <1>5, <1>6, <1>7 DEF Networks, PathNetworks
<1>9. /\ \A o, k : k # "object" => Field(base, o, k) = Field(d, o, k)
      /\ \A o \in {"raw", "tcp"} : Has(base, o, "object") <=> Has(d, o, "object")
  <2> DEFINE t == IF in.network = "xhttp" THEN XHTTPKey(d) ELSE in.network
  <2>1. /\ \A o, k : k # "object" => Field(base, o, k) =
             IF \/ o = "settings" /\ k = "flow" /\ p = "vless" /\ in.flow = Empty
                \/ o = t /\ k \in Emptied(in)
             THEN Empty ELSE Field(d, o, k)
        /\ \A o \in {"raw", "tcp"} : Has(base, o, "object") <=> Has(d, o, "object")
    BY SanitizedFields
  <2> HIDE DEF in, base, m, n
  <2>2. t = in.network
    <3>1. n = "xhttp" => Method(d) = "xhttp"
      BY Canonicals DEF n, NetworkOf
    <3>2. QED
      BY <1>8, <3>1 DEF PathNetworks
  <2>3. \A k \in Emptied(in) : Field(d, in.network, k) = Empty
    <3>1. CASE in.network \in PathNetworks
      <4>1. /\ in.path = Field(d, in.network, "path")
            /\ in.host = ShownHost(d, in.network)
        BY <1>8, <3>1
      <4>2. in.host = Empty =>
              /\ Field(d, in.network, "host") = Empty
              /\ in.network = "ws" => /\ Field(d, "ws", "Host") = Empty
                                     /\ Field(d, "ws", "lowerHost") = Empty
        BY <4>1 DEF ShownHost, First
      <4>3. QED
        BY <3>1, <4>1, <4>2, EmptiedKeys, EmptiedIs DEF HostKeys, PathNetworks
    <3>2. CASE in.network = "grpc"
      BY <1>8, <3>2, EmptiedKeys, EmptiedIs DEF HostKeys, PathNetworks
    <3>3. CASE in.network = "tcp"
      BY <3>3, EmptiedKeys, EmptiedIs DEF HostKeys, PathNetworks
    <3>4. QED
      BY <1>6, <3>1, <3>2, <3>3 DEF Networks
  <2> HIDE DEF t
  <2>4. QED
    BY <1>2, <2>1, <2>2, <2>3
<1>10. old = ToView(d)
  <2> HIDE DEF base
  <2>1. Security(base) = Security(d)
    BY <1>9, FieldsGive
  <2>2. ShownTarget(base) = ShownTarget(d)
    BY <1>9, <2>1 DEF ShownTarget
  <2>3. \A net \in PathNetworks : /\ Field(base, net, "path") = Field(d, net, "path")
                                  /\ ShownHost(base, net) = ShownHost(d, net)
    BY <1>9 DEF ShownHost
  <2>4. QED
    BY <1>9, <2>1, <2>2, <2>3 DEF ToView
<1>11. /\ all.flow = Field(d, "settings", "flow")
       /\ all.name = in.name /\ all.key = in.key /\ all.id = in.id
       /\ all.target = in.target
       /\ n \in PathNetworks => all.path = Field(d, n, "path") /\ all.host = ShownHost(d, n)
       /\ n = "grpc" => all.service = Field(d, "grpc", "service")
  <2> DEFINE view == ToView(d)
  <2>1. \A k \in FormKeys : all[k] = First(in[k], view[k])
    BY <1>2, <1>10 DEF Merged
  <2>2. /\ view.flow = in.flow /\ view.name = in.name /\ view.key = in.key
        /\ view.id = in.id /\ view.target = in.target
        /\ view.path = IF First(m, "tcp") \in PathNetworks
                       THEN Field(d, First(m, "tcp"), "path") ELSE Empty
        /\ view.host = IF First(m, "tcp") \in PathNetworks
                       THEN ShownHost(d, First(m, "tcp")) ELSE Empty
        /\ view.service =
             IF First(m, "tcp") = "grpc" THEN Field(d, "grpc", "service") ELSE Empty
    BY DEF ToView, EditorView
  <2>3. First(m, "tcp") \in PathNetworks \cup {"grpc"} => First(m, "tcp") = n
    BY <1>3 DEF First, PathNetworks, Networks
  <2> HIDE DEF all, in, view, m, n
  <2>4. /\ all.flow = Field(d, "settings", "flow")
        /\ all.name = in.name /\ all.key = in.key /\ all.id = in.id
        /\ all.target = in.target
    BY <1>2, <2>1, <2>2 DEF First, FormKeys
  <2>5. n \in PathNetworks => all.path = Field(d, n, "path") /\ all.host = ShownHost(d, n)
    BY <1>8, <2>1, <2>2, <2>3 DEF First, FormKeys
  <2>6. n = "grpc" => all.service = Field(d, "grpc", "service")
    BY <1>8, <2>1, <2>2, <2>3 DEF First, FormKeys
  <2>7. QED
    BY <2>4, <2>5, <2>6
<1>12. /\ Security(d) = "reality" =>
            /\ AsList(all.name) = Field(d, "reality", "names")
            /\ AsList(all.id) = Field(d, "reality", "ids")
            /\ all.key = Field(d, "reality", "key") /\ all.target = Target(d)
       /\ Security(d) = "tls" => all.name \in {Field(d, "tls", "name"), Empty}
  <2> HIDE DEF in, all
  <2>1. QED
    BY <1>2, <1>11 DEF Text
<1> HIDE DEF in, base, old, all, one, f
<1>13. /\ \A o, k : k # "object" => Field(one, o, k) = Field(d, o, k)
       /\ \A o \in {"raw", "tcp"} : Has(one, o, "object") <=> Has(d, o, "object")
  BY <1>1, <1>9, <1>11
<1>14. /\ \A k : k \notin {"object", "Host"} =>
             First(Written(all, k), Field(d, all.network, k)) = Field(d, all.network, k)
       /\ all.network # "ws" => Written(all, "Host") = Empty
       /\ all.network = "ws" => Written(all, "Host") = ShownHost(d, "ws")
  <2>1. CASE all.network \in PathNetworks
    <3>1. /\ all.path = Field(d, all.network, "path")
          /\ all.host = ShownHost(d, all.network)
      BY <1>6, <1>8, <1>11, <2>1
    <3>2. \A k : Written(all, k) = IF k = "path" THEN all.path
                                 ELSE IF k = HostKey(all.network) THEN all.host ELSE Empty
      BY <2>1 DEF Written, HostKey, PathNetworks
    <3>3. HostKey(all.network) = "host" => all.host = Field(d, all.network, "host")
      BY <3>1 DEF HostKey, ShownHost
    <3>4. QED
      BY <3>1, <3>2, <3>3 DEF First, HostKey
  <2>2. CASE all.network = "grpc"
    BY <1>6, <1>8, <1>11, <2>2 DEF Written, First, PathNetworks
  <2>3. CASE all.network = "tcp"
    BY <2>3 DEF Written, First, PathNetworks
  <2>4. QED
    BY <1>1, <2>1, <2>2, <2>3 DEF Networks
<1>15. /\ Field(f, "stream", "network") = all.network
       /\ Field(f, "stream", "security") = all.security
       /\ Field(f, "stream", "method") = Field(d, "stream", "method")
       /\ \A o, k : /\ k # "object" /\ o \notin {"stream", "reality", "tls"}
                    /\ ~(o = "ws" /\ k = "Host")
                    => Field(f, o, k) = Field(d, o, k)
       /\ Field(f, "ws", "Host") =
            IF all.network = "ws" THEN First(ShownHost(d, "ws"), Field(d, "ws", "Host"))
            ELSE Field(d, "ws", "Host")
  <2>1. /\ Field(f, "stream", "network") = all.network
        /\ Field(f, "stream", "security") = all.security
        /\ Field(f, "stream", "method") = Field(one, "stream", "method")
        /\ \A o, k : k # "object" /\ o \notin {"stream", "reality", "tls"} =>
              Field(f, o, k) =
              IF o = all.network THEN First(Written(all, k), Field(one, o, k))
              ELSE Field(one, o, k)
    BY <1>1, StreamFields
  <2>2. \A o, k : /\ k # "object" /\ o \notin {"stream", "reality", "tls"}
                 /\ ~(o = "ws" /\ k = "Host")
                 => Field(f, o, k) = Field(d, o, k)
    <3> SUFFICES ASSUME NEW o, NEW k, k # "object", o \notin {"stream", "reality", "tls"},
                        ~(o = "ws" /\ k = "Host")
                 PROVE  Field(f, o, k) = Field(d, o, k)
      OBVIOUS
    <3>1. Field(f, o, k) = IF o = all.network THEN First(Written(all, k), Field(d, o, k))
                           ELSE Field(d, o, k)
      BY <1>13, <2>1
    <3>2. CASE k # "Host"
      BY <1>14, <3>1, <3>2
    <3>3. CASE k = "Host"
      BY <1>14, <3>1, <3>3 DEF First
    <3>4. QED
      BY <3>2, <3>3
  <2>3. Field(f, "ws", "Host") =
          IF all.network = "ws" THEN First(ShownHost(d, "ws"), Field(d, "ws", "Host"))
          ELSE Field(d, "ws", "Host")
    BY <1>13, <1>14, <2>1
  <2>4. QED
    BY <1>13, <2>1, <2>2, <2>3
<1>16. /\ \A k : k # "object" /\ Security(d) = "tls" =>
            Field(f, "tls", k) = Field(d, "tls", k)
       /\ Security(d) = "reality" =>
            /\ First(Field(f, "reality", "target"), Field(f, "reality", "dest")) = Target(d)
            /\ \A k : k \notin {"object", "target", "dest"} =>
                 Field(f, "reality", k) = Field(d, "reality", k)
  <2>1. /\ \A k : k # "object" => Field(f, "tls", k) =
              IF all.security = "tls" /\ all.name # Empty /\ k = "name"
              THEN all.name ELSE Field(one, "tls", k)
        /\ all.security = "reality" =>
              /\ Field(f, "reality", "target") = all.target
              /\ Field(f, "reality", "dest") = Empty
              /\ Field(f, "reality", "names") = AsList(all.name)
              /\ Field(f, "reality", "key") = all.key
              /\ Field(f, "reality", "ids") = AsList(all.id)
              /\ \A k : k \notin {"object", "target", "dest", "names", "key", "ids"} =>
                    Field(f, "reality", k) = Field(one, "reality", k)
    BY <1>1, StreamFields
  <2>2. QED
    BY <1>6, <1>12, <1>13, <2>1 DEF First
<1>17. Security(f) = Security(d)
  BY <1>6, <1>15 DEF Security, First, Empty
<1>18. Method(f) = Method(d)
  <2>1. CASE Field(d, "stream", "method") # Empty
    BY <1>15, <2>1 DEF Method, First
  <2>2. CASE Field(d, "stream", "method") = Empty
    <3>1. Method(d) = Canonical(m) /\ Method(f) = Canonical(all.network)
      BY <1>15, <2>2 DEF Method, First
    <3>2. n \notin Networks => m # Empty
      BY <3>1 DEF Canonical, NetworkOf, Networks, Empty
    <3>3. all.network = n /\ n \in Networks
      BY <1>1, <1>5, <1>6, <3>2
    <3>4. QED
      BY <3>1, <3>3, Spelling
  <2>3. QED
    BY <2>1, <2>2
<1>19. Method(d) = "xhttp" => XHTTPKey(f) = XHTTPKey(d)
  <2> SUFFICES ASSUME Method(d) = "xhttp" PROVE XHTTPKey(f) = "xhttp"
    OBVIOUS
  <2>1. n = "xhttp"
    BY DEF NetworkOf
  <2>2. all.network = "xhttp"
    BY <1>1, <1>5, <1>6, <2>1 DEF Networks, PathNetworks
  <2>3. Has(f, "xhttp", "object")
    BY <1>1, <2>2, StreamFields
  <2>4. QED
    BY <2>3 DEF XHTTPKey
<1>20. RawKey(f) = RawKey(d)
  <2>1. \A o \in {"raw", "tcp"} : Has(f, o, "object") <=> Has(d, o, "object")
    BY <1>1, <1>13, StreamFields
  <2>2. QED
    BY <2>1 DEF RawKey
<1>21. Active(f) = Active(d) /\ Proxying(f) = Proxying(d)
  BY <1>18, <1>19, <1>20, ActiveSame
<1>22. Target(f) = Target(d)
  BY <1>16, <1>17 DEF Target
<1>23. /\ Active(d) \notin {"reality", "tls", "stream"}
       /\ Proxying(d) \cap {"stream", "reality", "tls"} = {}
  BY DEF Active, Proxying, RawKey, XHTTPKey
<1>24. Hosts(f, Active(f)) = Hosts(d, Active(d))
  <2>1. CASE Active(d) = "ws" /\ all.network = "ws"
    <3>1. /\ Field(f, "ws", "host") = Field(d, "ws", "host")
          /\ Field(f, "ws", "lowerHost") = Field(d, "ws", "lowerHost")
          /\ Field(f, "ws", "Host") = First(ShownHost(d, "ws"), Field(d, "ws", "Host"))
      BY <1>15, <2>1
    <3>2. Hosts(f, "ws") = Hosts(d, "ws")
      BY <3>1 DEF Hosts, ShownHost, First
    <3>3. QED
      BY <1>21, <2>1, <3>2
  <2>2. CASE ~(Active(d) = "ws" /\ all.network = "ws")
    <3>1. \A k \in HostKeys : Field(f, Active(d), k) = Field(d, Active(d), k)
      BY <1>15, <1>23, <2>2 DEF HostKeys
    <3>2. QED
      BY <1>21, <3>1, HostsSame
  <2>3. QED
    BY <2>1, <2>2
<1>25. /\ \A k \in TransportKeys : Field(f, Active(f), k) = Field(d, Active(d), k)
       /\ \A o \in {"sockopt"} \cup Proxying(d) : Field(f, o, "proxy") = Field(d, o, "proxy")
       /\ Field(f, "settings", "flow") = Field(d, "settings", "flow")
       /\ Field(f, "settings", "fallbacks") = Field(d, "settings", "fallbacks")
  BY <1>15, <1>21, <1>23 DEF TransportKeys
<1>26. Security(d) # "none" =>
         \A k \in SecureKeys : Field(f, Security(d), k) = Field(d, Security(d), k)
  BY <1>6, <1>16 DEF SecureKeys
<1>27. QED
  BY <1>17, <1>18, <1>21, <1>22, <1>24, <1>25, <1>26, ServesSame DEF f, in

(* Nor does saving the ordinary form, for a document in the spellings and  *)
(* with the single names and ids that it writes.                           *)
THEOREM OrdinaryAlways == Spec => []OrdinaryFaithful
<1>1. OrdinaryFaithful
  BY OrdinaryKeeps DEF OrdinaryFaithful
<1>2. QED
  BY <1>1, PTL
==============================================================================
