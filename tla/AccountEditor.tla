---------------------------- MODULE AccountEditor ----------------------------
(***************************************************************************)
(* The three forms that edit the stored JSON of one account: the ordinary  *)
(* editor (Accounts.Update, accountcfg), the advanced form and the expert  *)
(* form (internal/service).  Each shows some fields of the document, in a  *)
(* spelling of its own, and writes them back into a document the other two *)
(* forms, the migration or another panel have written before.              *)
(*                                                                         *)
(* A document is the function of the fields that are present; a field is   *)
(* an object and a key, and <<o, "object">> says that the object o is      *)
(* there, even when it is empty.  "Host" and "lowerHost" are the headers   *)
(* Host and host; "names" and "ids" are serverNames and shortIds;          *)
(* "options" stands for the optional fields of REALITY and of TLS,         *)
(* "padding" for the fields of XHTTP that need not be texts, "other" for   *)
(* what no form shows.                                                     *)
(*                                                                         *)
(* A value is a text, or Empty when there is none.  In a field that holds  *)
(* a list, a text is the list of that text alone, and there are the lists  *)
(* "ab" (two texts), "-a" (a blank one, then a text) and "-" (a blank      *)
(* one), and "bare", the text a that is not in a list; where Xray takes    *)
(* other types, in "target", "dest" and "padding", "odd" is a value that   *)
(* is no text.  Other fields hold texts: Xray takes nothing else.          *)
(***************************************************************************)
EXTENDS Integers, Functions

CONSTANTS
  Protocols,  \* of "vless", "trojan" and "vmess"
  Imported,   \* documents the migration may bring
  Texts,      \* what may be typed into a field, the empty text apart
  Forms,      \* bound: the ordinary forms that are sent, of Inputs
  MaxEdits    \* bound: edits made

VARIABLES
  protocol,   \* of the account; no form changes it
  doc,        \* its settings and streamSettings
  edits       \* number of edits

vars == <<protocol, doc, edits>>

(* The empty text, and what is read from a field that is absent.           *)
Empty == "empty"
Refused == [f \in {<<"refused", "object">>} |-> "there"]

(***************************************************************************)
(* Documents: whatever has a key is there.                                 *)
(***************************************************************************)
WellFormed(d) == \A f \in DOMAIN d : f = <<f[1], f[2]>> /\ <<f[1], "object">> \in DOMAIN d
NoTexts == {Empty, "ab", "-a", "-", "bare", "odd"}
DocumentAssumption == Texts \cap NoTexts = {} /\ \A d \in Imported : WellFormed(d)

Has(d, o, k) == <<o, k>> \in DOMAIN d
Field(d, o, k) == IF Has(d, o, k) THEN d[<<o, k>>] ELSE Empty
First(x, y) == IF x # Empty THEN x ELSE y
Drop(d, o, k) == Restrict(d, DOMAIN d \ {<<o, k>>})
With(d, o) ==
  [f \in DOMAIN d \cup {<<o, "object">>} |-> IF f \in DOMAIN d THEN d[f] ELSE "there"]
Set(d, o, k, v) ==
  LET e == With(d, o) IN
  [f \in DOMAIN e \cup {<<o, k>>} |-> IF f = <<o, k>> THEN v ELSE e[f]]
SetOrDelete(d, o, k, v) == IF v = Empty THEN Drop(d, o, k) ELSE Set(d, o, k, v)
SetIf(d, o, k, v) == IF v = Empty THEN d ELSE Set(d, o, k, v)
Without(d, o) == Restrict(d, {f \in DOMAIN d : f[1] # o})
Tidy(d, o) ==
  IF \A f \in DOMAIN d : f[1] = o => f[2] = "object" THEN Drop(d, o, "object") ELSE d

(* What the forms read of a field: expertStringSlice, firstArrayString,    *)
(* stringValue and expertScalarString; and a list of one text.             *)
Listed(v) == CASE v \in {"-", "bare", "odd"} -> Empty [] v = "-a" -> "a" [] OTHER -> v
FirstOf(v) ==
  CASE v \in {"-a", "-", "odd"} -> Empty [] v \in {"ab", "bare"} -> "a" [] OTHER -> v
Text(v) == IF v \in NoTexts THEN Empty ELSE v
Scalar(v) == IF v = "odd" THEN "its text" ELSE v
AsList(x) == IF x = Empty THEN "-" ELSE x

(* expertMethod: "method" goes before "network".                           *)
Canonical(m) ==
  CASE m \in {Empty, "tcp", "raw"} -> "raw"
    [] m \in {"ws", "websocket"}  -> "websocket"
    [] m \in {"xhttp", "splithttp"} -> "xhttp"
    [] m = "mkcp"                 -> "kcp"
    [] OTHER                      -> m
Method(d) == Canonical(First(Field(d, "stream", "method"), Field(d, "stream", "network")))
Security(d) == First(Field(d, "stream", "security"), "none")

(* expertRawKey, expertXHTTPKey, expertActiveTransportKeys; "unknown"      *)
(* stands for the settings of a transport that no form knows.              *)
RawKey(d) == IF ~Has(d, "raw", "object") /\ Has(d, "tcp", "object") THEN "tcp" ELSE "raw"
XHTTPKey(d) ==
  IF ~Has(d, "xhttp", "object") /\ Has(d, "splithttp", "object") THEN "splithttp" ELSE "xhttp"
Active(d) ==
  CASE Method(d) = "raw"       -> RawKey(d)
    [] Method(d) = "websocket" -> "ws"
    [] Method(d) = "xhttp"     -> XHTTPKey(d)
    [] Method(d) \in {"grpc", "httpupgrade"} -> Method(d)
    [] OTHER                   -> "unknown"
(* The transport that may hold a PROXY protocol setting of its own.        *)
Proxying(d) == {Active(d)} \ {"unknown"}

(* The target of REALITY as Xray takes it and as the forms show it.        *)
Target(d) ==
  IF Security(d) # "reality" THEN Empty
  ELSE First(Field(d, "reality", "target"), Field(d, "reality", "dest"))
ShownTarget(d) ==
  IF Security(d) # "reality" THEN Empty
  ELSE First(Text(Field(d, "reality", "target")), Text(Field(d, "reality", "dest")))

(* A host in the headers counts when there is no other; of two spellings,  *)
(* either may.                                                             *)
Hosts(d, o) ==
  IF Field(d, o, "host") # Empty THEN {Field(d, o, "host")}
  ELSE {Field(d, o, "Host"), Field(d, o, "lowerHost")} \ {Empty}
ShownHost(d, o) ==
  IF o # "ws" THEN Field(d, o, "host")
  ELSE First(Field(d, o, "host"), First(Field(d, o, "Host"), Field(d, o, "lowerHost")))

(* What Xray makes of a document: the objects that are not active, and the *)
(* older spelling where both are there, do not count.                      *)
Serves(d) ==
  LET s == Security(d) IN
  [method    |-> Method(d),
   security  |-> s,
   flow      |-> Field(d, "settings", "flow"),
   fallbacks |-> Field(d, "settings", "fallbacks"),
   proxy     |-> \E o \in {"sockopt"} \cup Proxying(d) : Field(d, o, "proxy") = "on",
   transport |-> [k \in {"path", "service", "header", "mode", "padding", "other"} |->
                    Field(d, Active(d), k)],
   hosts     |-> Hosts(d, Active(d)),
   target    |-> Target(d),
   secure    |-> IF s = "none" THEN <<>>
                 ELSE [k \in {"names", "ids", "key", "options", "name", "alpn", "other"} |->
                         Field(d, s, k)]]

(***************************************************************************)
(* The ordinary form: ToView and editorView                                *)
(***************************************************************************)
PathNetworks == {"ws", "xhttp", "httpupgrade"}
ToView(d) ==
  LET n == First(Field(d, "stream", "network"), "tcp")
      s == Security(d) IN
  [network  |-> n,
   security |-> s,
   flow     |-> Field(d, "settings", "flow"),
   name     |-> CASE s = "reality" -> FirstOf(Field(d, "reality", "names"))
                  [] s = "tls"     -> Text(Field(d, "tls", "name"))
                  [] OTHER         -> Empty,
   target   |-> ShownTarget(d),
   key      |-> IF s = "reality" THEN Field(d, "reality", "key") ELSE Empty,
   id       |-> IF s = "reality" THEN FirstOf(Field(d, "reality", "ids")) ELSE Empty,
   path     |-> IF n \in PathNetworks THEN Field(d, n, "path") ELSE Empty,
   host     |-> IF n \in PathNetworks THEN ShownHost(d, n) ELSE Empty,
   service  |-> IF n = "grpc" THEN Field(d, n, "service") ELSE Empty]

Networks == {"tcp", "grpc"} \cup PathNetworks
NetworkOf(method) ==
  CASE method = "raw" -> "tcp" [] method = "websocket" -> "ws" [] OTHER -> method

VisionFits(network, security) == network = "tcp" /\ security \in {"tls", "reality"}
SecurityFits(p, network, security) ==
  \/ security \in {"none", "tls"}
  \/ security = "reality" /\ p \in {"vless", "trojan"} /\ network \in {"tcp", "xhttp", "grpc"}

Editable(p, d) ==
  /\ NetworkOf(Method(d)) \in Networks
  /\ SecurityFits(p, NetworkOf(Method(d)), Security(d))
  /\ p = "vless" /\ Field(d, "settings", "flow") # Empty
       => VisionFits(NetworkOf(Method(d)), Security(d))

(* What cannot be edited is shown as ToView read it.                       *)
EditorView(p, d) ==
  LET n == NetworkOf(Method(d)) IN
  [ToView(d) EXCEPT
     !.network = IF n \in Networks THEN n ELSE @,
     !.path    = IF Editable(p, d) /\ n \in PathNetworks
                 THEN Field(d, Active(d), "path") ELSE @,
     !.host    = IF Editable(p, d) /\ n \in PathNetworks
                 THEN ShownHost(d, Active(d)) ELSE @,
     !.service = IF Editable(p, d) /\ n = "grpc" THEN Field(d, "grpc", "service") ELSE @]

(***************************************************************************)
(* Accounts.Update                                                         *)
(***************************************************************************)

(* sanitizeEditableBaseForExplicitClears: the fields that came empty go,   *)
(* all that the host is read from with the host; the mutant clears nothing.*)
ShownKeys(n) ==
  CASE n = "grpc" -> {"service"} [] n \in PathNetworks -> {"path", "host"} [] OTHER -> {}
Emptied(in) ==
  LET empty == {k \in ShownKeys(in.network) : in[k] = Empty} IN
  IF in.network = "ws" /\ "host" \in empty THEN empty \cup {"Host", "lowerHost"} ELSE empty
ClearedNot(d, o, keys) == d
Cleared(d, o, keys) == Tidy(Restrict(d, DOMAIN d \ ({o} \X keys)), o)
Sanitized(p, d, in) ==
  LET b == IF p = "vless" /\ in.flow = Empty THEN Drop(d, "settings", "flow") ELSE d
      o == IF in.network = "xhttp" THEN XHTTPKey(b) ELSE in.network IN
  IF ShownKeys(in.network) = {} THEN b ELSE Cleared(b, o, Emptied(in))

(* mergeMissing                                                            *)
Merged(in, view) == [k \in DOMAIN in |-> First(in[k], view[k])]

(* Mutant of Valid: the flow is not compared with the rest.                *)
ValidVision(p, in) ==
  /\ in.network \in Networks
  /\ SecurityFits(p, in.network, in.security)
  /\ in.security = "reality" => in.name # Empty /\ in.key # Empty

(* validateEditableInput, and what buildStream refuses.                    *)
Valid(p, in) ==
  /\ in.network \in Networks
  /\ SecurityFits(p, in.network, in.security)
  /\ p = "vless" /\ in.flow # Empty => VisionFits(in.network, in.security)
  /\ in.security = "reality" => in.name # Empty /\ in.key # Empty

(* buildStream: lists of REALITY are left with the one text of the form.   *)
Secured(d, in) ==
  CASE in.security = "reality" ->
         LET t == Drop(Set(d, "reality", "target", in.target), "reality", "dest")
             n == Set(t, "reality", "names", AsList(in.name)) IN
         Set(Set(n, "reality", "key", in.key), "reality", "ids", AsList(in.id))
    [] in.security = "tls" -> SetIf(Without(d, "reality"), "tls", "name", in.name)
    [] OTHER -> Without(d, "reality")

(* applyTransport; the host of WebSocket goes into the headers.  The       *)
(* mutant builds the object of the transport anew.                         *)
HostKey(n) == IF n = "ws" THEN "Host" ELSE "host"
Filled(d, in) ==
  LET o == in.network IN
  IF o = "grpc" THEN With(SetIf(d, o, "service", in.service), o)
  ELSE With(SetIf(SetIf(d, o, "path", in.path), o, HostKey(o), in.host), o)
TransportedAnew(d, in) ==
  IF in.network = "tcp" THEN d ELSE Filled(Without(d, in.network), in)
Transported(d, in) == IF in.network = "tcp" THEN d ELSE Filled(d, in)
Stream(d, in) ==
  Set(Set(Transported(Secured(d, in), in), "stream", "network", in.network),
      "stream", "security", in.security)

(* updateProtocolJSON: of the client it writes, the flow is modelled.      *)
Protocoled(p, d, in) ==
  IF p = "vless" THEN SetOrDelete(d, "settings", "flow", in.flow) ELSE d

AfterUpdate(p, d, in) ==
  LET base == Sanitized(p, d, in)
      all  == Merged(in, ToView(base)) IN
  IF ~Valid(p, all) THEN Refused
  ELSE Stream(Protocoled(p, base, all), all)

(***************************************************************************)
(* Accounts.UpdateAdvanced: it goes by "network" alone.                    *)
(***************************************************************************)
AdvancedTransports == {"tcp", "raw", "ws", "grpc", "httpupgrade", "xhttp"}
AdvancedRaw(d) == Field(d, "stream", "network") \in {Empty, "tcp", "raw"}
AdvancedKey(d) ==
  IF Field(d, "stream", "network") = "raw" \/ Has(d, "raw", "object") THEN "raw" ELSE "tcp"

AdvancedView(d) ==
  [fallbacks |-> Field(d, "settings", "fallbacks"),
   proxy     |-> IF \E o \in AdvancedTransports \cup {"sockopt"} : Field(d, o, "proxy") = "on"
                 THEN "on" ELSE Empty,
   header    |-> IF AdvancedRaw(d)
                 THEN First(Field(d, "raw", "header"), Field(d, "tcp", "header")) ELSE Empty]

(* Mutant of Proxied: what the transports said is not carried over.        *)
ProxiedAway(d, objects, proxy) ==
  LET gone == Restrict(d, {f \in DOMAIN d : f[1] \in objects => f[2] # "proxy"}) IN
  IF proxy = "on" /\ Has(d, "sockopt", "proxy") THEN gone
  ELSE Tidy(Drop(gone, "sockopt", "proxy"), "sockopt")

(* PROXY protocol moves from the given transports to sockopt.              *)
Proxied(d, objects, proxy) ==
  LET gone == Restrict(d, {f \in DOMAIN d : f[1] \in objects => f[2] # "proxy"}) IN
  IF proxy = "on" THEN Set(gone, "sockopt", "proxy", "on")
  ELSE Tidy(Drop(gone, "sockopt", "proxy"), "sockopt")
Headed(d, o, header) ==
  IF header = Empty THEN Tidy(Drop(d, o, "header"), o) ELSE Set(d, o, "header", header)

AfterAdvanced(p, d, in) ==
  IF \/ /\ in.fallbacks # Empty
        /\ ~(p \in {"vless", "trojan"} /\ AdvancedRaw(d) /\ Security(d) = "tls")
     \/ in.header # Empty /\ ~AdvancedRaw(d)
  THEN Refused
  ELSE LET e == Proxied(SetOrDelete(d, "settings", "fallbacks", in.fallbacks),
                        AdvancedTransports, in.proxy) IN
       IF AdvancedRaw(d) THEN Headed(e, AdvancedKey(e), in.header) ELSE e

(***************************************************************************)
(* Accounts.UpdateExpert                                                   *)
(***************************************************************************)
(* Mutant of ProxyShown: an older panel's copy is not looked at.           *)
ProxyShownNew(d) == Field(d, "sockopt", "proxy")
ProxyShown(d) ==
  IF \E o \in {"sockopt"} \cup Proxying(d) : Field(d, o, "proxy") = "on" THEN "on" ELSE Empty
Shown(d, condition, o, k) == IF condition THEN Field(d, o, k) ELSE Empty
ExpertView(d) ==
  LET s == Security(d) IN
  [fallbacks |-> Field(d, "settings", "fallbacks"),
   proxy     |-> ProxyShown(d),
   header    |-> Shown(d, Method(d) = "raw", RawKey(d), "header"),
   target    |-> ShownTarget(d),
   names     |-> Listed(Shown(d, s = "reality", "reality", "names")),
   ids       |-> Listed(Shown(d, s = "reality", "reality", "ids")),
   key       |-> Shown(d, s = "reality", "reality", "key"),
   options   |-> Shown(d, s \in {"reality", "tls"}, s, "options"),
   alpn      |-> Listed(Shown(d, s = "tls", "tls", "alpn")),
   mode      |-> Shown(d, Method(d) = "xhttp", XHTTPKey(d), "mode"),
   padding   |-> Scalar(Shown(d, Method(d) = "xhttp", XHTTPKey(d), "padding"))]

(* A target, names, a key or ids that come empty stay as they were, and    *)
(* the lists that come have no blank text.                                 *)
ExpertSecured(d, in) ==
  CASE Security(d) = "reality" ->
         LET t == IF in.target = Empty THEN d
                  ELSE Drop(Set(d, "reality", "target", in.target), "reality", "dest")
             n == SetIf(t, "reality", "names", in.names)
             i == SetIf(SetIf(n, "reality", "key", in.key), "reality", "ids", in.ids) IN
         With(SetOrDelete(i, "reality", "options", in.options), "reality")
    [] Security(d) = "tls" ->
         With(SetOrDelete(SetOrDelete(d, "tls", "alpn", in.alpn), "tls", "options", in.options),
              "tls")
    [] OTHER -> d
ExpertTransported(d, in) ==
  LET o == XHTTPKey(d) IN
  IF Method(d) # "xhttp" THEN d
  ELSE With(SetOrDelete(SetOrDelete(d, o, "mode", in.mode), o, "padding", in.padding), o)

AfterExpert(p, d, in) ==
  IF \/ /\ in.fallbacks # Empty
        /\ ~(p \in {"vless", "trojan"} /\ Method(d) = "raw" /\ Security(d) = "tls")
     \/ in.header # Empty /\ Method(d) # "raw"
  THEN Refused
  ELSE LET e == Proxied(SetOrDelete(d, "settings", "fallbacks", in.fallbacks),
                        Proxying(d), in.proxy)
           h == IF Method(d) = "raw" THEN Headed(e, RawKey(e), in.header) ELSE e IN
       ExpertTransported(ExpertSecured(h, in), in)

(***************************************************************************)
(* Every edit is made under Accounts.mu: one step.                         *)
(***************************************************************************)
(* A form is sent with what its page shows for the transport and the       *)
(* security that are chosen: nothing else would be read.                   *)
OrEmpty == {Empty} \cup Texts
SecureInputs(s) ==
  [target : IF s = "reality" THEN OrEmpty ELSE {Empty},
   name   : IF s = "none" THEN {Empty} ELSE OrEmpty,
   key    : IF s = "reality" THEN OrEmpty ELSE {Empty},
   id     : IF s = "reality" THEN OrEmpty ELSE {Empty}]
TransportInputs(n) ==
  [path    : IF "path" \in ShownKeys(n) THEN OrEmpty ELSE {Empty},
   host    : IF "host" \in ShownKeys(n) THEN OrEmpty ELSE {Empty},
   service : IF "service" \in ShownKeys(n) THEN OrEmpty ELSE {Empty}]
Inputs ==
  UNION {{[network |-> n, security |-> s, flow |-> f, target |-> r.target, name |-> r.name,
           key |-> r.key, id |-> r.id, path |-> t.path, host |-> t.host, service |-> t.service] :
            f \in {Empty, "vision"}, r \in SecureInputs(s), t \in TransportInputs(n)} :
           n \in Networks, s \in {"none", "tls", "reality"}}
FormAssumption == Forms \subseteq Inputs
AdvancedInputs ==
  [fallbacks : OrEmpty, proxy : {Empty, "on"}, header : OrEmpty]
(* Of the fields of REALITY and TLS, an expert form fills in one.          *)
ExpertInputs ==
  {in \in [fallbacks : OrEmpty, proxy : {Empty, "on"}, header : OrEmpty,
           target : OrEmpty, names : {Empty, "ab"}, ids : {Empty, "ab"}, key : OrEmpty,
           options : OrEmpty, alpn : {Empty, "ab"}, mode : {Empty, "auto"}, padding : OrEmpty] :
     /\ \A j, k \in {"target", "names", "ids", "key", "alpn", "options"} :
          j = k \/ in[j] = Empty \/ in[k] = Empty
     /\ \A k \in {"mode", "padding"} : in.header = Empty \/ in[k] = Empty}

Init ==
  /\ protocol \in Protocols
  /\ doc \in Imported
  /\ edits = 0

Saves(d) ==
  /\ d # Refused
  /\ doc' = d
  /\ edits' = edits + 1
  /\ UNCHANGED protocol
Update == \E in \in Forms : Saves(AfterUpdate(protocol, doc, in))
UpdateAdvanced == \E in \in AdvancedInputs : Saves(AfterAdvanced(protocol, doc, in))
UpdateExpert == \E in \in ExpertInputs : Saves(AfterExpert(protocol, doc, in))

Next ==
  /\ edits < MaxEdits
  /\ Update \/ UpdateAdvanced \/ UpdateExpert
Spec == Init /\ [][Next]_vars

(* Settings of RAW in one spelling.                                        *)
OneRaw == ~(Has(doc, "raw", "object") /\ Has(doc, "tcp", "object"))

(* The expert form can show what is stored, or shows nothing and then      *)
(* leaves it alone.                                                        *)
Readable(d) ==
  /\ Security(d) = "reality" =>
       /\ ShownTarget(d) \in {Target(d), Empty}
       /\ \A k \in {"names", "ids"} :
            Listed(Field(d, "reality", k)) \in {Field(d, "reality", k), Empty}
  /\ Security(d) = "tls" => Listed(Field(d, "tls", "alpn")) = Field(d, "tls", "alpn")
  /\ Method(d) = "xhttp" => Field(d, XHTTPKey(d), "padding") # "odd"

(***************************************************************************)
(* Saving the expert form as it is shown is refused or changes nothing     *)
(* that Xray sees, whatever the other forms or another panel wrote, as     *)
(* long as it can show what is there: not a list with a blank text next to *)
(* others, an ALPN that is not in a list or is blank, a target or a        *)
(* padding of another type.  Nor may there be settings of RAW in both      *)
(* spellings: rawSettings that the form leaves empty are dropped, and the  *)
(* tcpSettings behind them come up.                                        *)
(***************************************************************************)
ExpertFaithful ==
  LET saved == AfterExpert(protocol, doc, ExpertView(doc)) IN
  OneRaw /\ Readable(doc) /\ saved # Refused => Serves(saved) = Serves(doc)

(***************************************************************************)
(* The same of the advanced form, as long as no transport that is not in   *)
(* use has kept a PROXY protocol setting: the form shows it as if it were  *)
(* in force, and saving it puts it in force.  Nor may a document with      *)
(* settings of RAW in both spellings, or one that says "raw" and has       *)
(* tcpSettings: the header of these that is shown is saved into            *)
(* rawSettings, which hide the rest of them.                               *)
(***************************************************************************)
AdvancedFaithful ==
  LET saved == AfterAdvanced(protocol, doc, AdvancedView(doc)) IN
  /\ saved # Refused /\ OneRaw
  /\ Field(doc, "stream", "network") = "raw" => ~Has(doc, "tcp", "object")
  /\ \A o \in AdvancedTransports \ {Active(doc)} : Field(doc, o, "proxy") = Empty
  => Serves(saved) = Serves(doc)

(***************************************************************************)
(* The same of the ordinary form, when REALITY has one server name, one    *)
(* short id and a target that is a text, XHTTP its current spelling, and   *)
(* "method" and "network" agree: of several names or ids it keeps the      *)
(* first, a target that it cannot show it erases, older settings of XHTTP  *)
(* it hides behind an object of its own, and what it shows is read from    *)
(* the transport of "method" while what is kept is read from that of       *)
(* "network".                                                              *)
(***************************************************************************)
OrdinaryFaithful ==
  LET saved == AfterUpdate(protocol, doc, EditorView(protocol, doc)) IN
  /\ saved # Refused
  /\ Has(doc, "stream", "network") => Canonical(Field(doc, "stream", "network")) = Method(doc)
  /\ Security(doc) = "reality" =>
       /\ ShownTarget(doc) = Target(doc)
       /\ \A k \in {"names", "ids"} :
            AsList(FirstOf(Field(doc, "reality", k))) = Field(doc, "reality", k)
  /\ Method(doc) = "xhttp" => XHTTPKey(doc) = "xhttp"
  => Serves(saved) = Serves(doc)

Plain == ~Has(doc, "stream", "method")

(* A host of WebSocket that goes before the headers, where a new one is    *)
(* written.                                                                *)
HidesHost(d, in) ==
  in.network = "ws" /\ in.host # Empty /\ Field(d, "ws", "host") \notin {Empty, in.host}

(***************************************************************************)
(* What the ordinary form is sent is what it shows afterwards, in a        *)
(* document that has no "method".  The values of a transport that stays    *)
(* are replaced and cleared; of one that is new, only what is sent empty   *)
(* is taken from the old one.  What is sent empty for the security is kept *)
(* or carried over from the security before.                               *)
(***************************************************************************)
ShownAsSent ==
  LET before == EditorView(protocol, doc) IN
  Plain => \A in \in Forms :
    LET saved == AfterUpdate(protocol, doc, in)
        view  == EditorView(protocol, saved) IN
    saved # Refused =>
      /\ view.network = in.network /\ view.security = in.security
      /\ protocol = "vless" => view.flow = in.flow
      /\ \A k \in ShownKeys(in.network) :
           /\ in.network = before.network \/ in[k] # Empty
           /\ k = "host" => ~HidesHost(doc, in)
           => view[k] = in[k]
      /\ in.security = "reality" =>
           \A k \in {"name", "target", "key", "id"} : view[k] = First(in[k], before[k])
      /\ in.security = "tls" =>
           view.name = First(in.name, First(before.name, Text(Field(doc, "tls", "name"))))

(***************************************************************************)
(* No edit takes an account out of the reach of the ordinary editor, in a  *)
(* document without "method".                                              *)
(***************************************************************************)
StaysEditable == [][Plain /\ Editable(protocol, doc) => Editable(protocol, doc)']_vars

(***************************************************************************)
(* "Makes empty values from visible editor fields mean 'clear this field'  *)
(* instead of letting accountcfg.Update merge the old value back in."      *)
(***************************************************************************)
ClearsAreClears ==
  \A in \in Forms :
    LET saved == AfterUpdate(protocol, doc, in) IN
    Plain /\ saved # Refused /\ in.network \in PathNetworks /\ in.path = Empty
      => EditorView(protocol, saved).path = Empty
=============================================================================
