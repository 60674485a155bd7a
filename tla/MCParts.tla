------------------------------- MODULE MCParts -------------------------------
(***************************************************************************)
(* TLC instance of Parts.                                                  *)
(***************************************************************************)
EXTENDS Parts, TLC

(* The terminal has a gate of its own: for the panel's, its starts are     *)
(* among those that do not pass it.                                        *)
Owners == [k \in Calls |-> CHOOSE p \in Procs : TRUE]

CallSymmetry == Permutations(Calls)

(* What the migration brings: a plain account; PROXY protocol set by an    *)
(* older panel in both spellings of WebSocket, with a host in wsSettings   *)
(* or in the headers; REALITY with two names and ids over the older        *)
(* spelling of XHTTP, and with a target that is a number over RAW; TLS     *)
(* with everything the forms know.                                         *)
Document(fields) == fields @@ [f \in {<<e[1], "object">> : e \in DOMAIN fields} |-> "there"]
Spelled(key, network, security) ==
  <<"stream", key>> :> network @@ <<"stream", "security">> :> security
Socket == <<"ws", "path">> :> "/a" @@ <<"ws", "proxy">> :> "on" @@ <<"ws", "other">> :> "o"
Plain == Document(Spelled("network", "tcp", "none"))
Reality(key, name, id) ==
  <<"reality", key>> :> "t" @@ <<"reality", "names">> :> name @@ <<"reality", "ids">> :> id
    @@ <<"reality", "key">> :> "k" @@ <<"reality", "options">> :> "o"
Documents ==
  {Plain,
   Document(Spelled("method", "websocket", "tls") @@ Socket
     @@ <<"ws", "lowerHost">> :> "h" @@ <<"tls", "alpn">> :> "bare"),
   Document(Spelled("network", "ws", "tls") @@ Socket
     @@ <<"ws", "host">> :> "h" @@ <<"ws", "Host">> :> "g"),
   Document(Spelled("network", "splithttp", "reality") @@ Reality("dest", "ab", "-a")
     @@ <<"splithttp", "path">> :> "/a" @@ <<"splithttp", "mode">> :> "auto"
     @@ <<"splithttp", "padding">> :> "odd" @@ <<"splithttp", "other">> :> "o"),
   Document(Spelled("network", "tcp", "reality") @@ (<<"reality", "target">> :> "odd")
     @@ Reality("dest", "a", "ab")),
   Document(Spelled("network", "tcp", "tls")
     @@ <<"settings", "flow">> :> "vision" @@ <<"settings", "fallbacks">> :> "f"
     @@ <<"raw", "header">> :> "http" @@ <<"sockopt", "proxy">> :> "on"
     @@ <<"sockopt", "other">> :> "o")}

(* The forms that can be sent are defined before Forms is.                 *)
Sendable == INSTANCE AccountEditor WITH
  Forms <- {}, protocol <- eProtocol, doc <- eDoc, edits <- eEdits

(* Of REALITY, the id comes empty or the other texts do; of a path and a   *)
(* host, one does; a path or a service comes with a name, if there is one; *)
(* a flow comes with RAW.                                                  *)
SentForms ==
  {in \in Sendable!Inputs :
     /\ in.security = "reality" =>
          /\ in.name = in.key /\ in.target = in.key
          /\ in.id = Sendable!Empty <=> in.key # Sendable!Empty
     /\ in.network \in Sendable!PathNetworks =>
          (in.path = Sendable!Empty <=> in.host # Sendable!Empty)
     /\ in.network # "tcp" /\ in.security # "none" =>
          in.name = IF in.network = "grpc" THEN in.service ELSE in.path
     /\ in.flow # Sendable!Empty => in.network = "tcp"}

(* The parts that do not move rest where they began, in one state each.    *)
Resting ==
  /\ part # "apply" =>
       xFile = NoConfig /\ xRunning = XrayDown /\ xManaged = TRUE
       /\ xWant \in [{"panel"} -> {CHOOSE c \in Accepted : TRUE}]
  /\ part # "policy" =>
       pPresent = {} /\ pRow = [i \in Ids |-> Policy!Blank]
  /\ part # "firewall" =>
       fRuntime = {} /\ fOwned = {}
  /\ part # "core" =>
       cCore = [n \in Updater!Cores |-> IF n = "xray" THEN 1 ELSE 0]
  /\ part # "login" =>
       who = [l \in Logins |-> <<CHOOSE a \in Addresses : TRUE, CHOOSE n \in Names : TRUE>>]
  /\ part # "editor" =>
       eProtocol = "vless" /\ eDoc = Plain
MCInit ==
  /\ part \in Movable
  /\ Resting
  /\ PartsInit
MCSpec == MCInit /\ [][PartsNext]_partsVars
==============================================================================
