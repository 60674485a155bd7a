---------------------------- MODULE AdminSettings ----------------------------
(***************************************************************************)
(* The administrator, the sessions and the TLS files of the panel: the     *)
(* settings form (updateSettings), the login, the restore of a backup, and *)
(* the terminal's own ways to change them (adminMenu, settingsMenu), which *)
(* are another process with another connection to the database.            *)
(*                                                                         *)
(* A request reads the session and the administrator first and writes much *)
(* later, after a password was compared and hashed; nothing is locked in   *)
(* between.  A password stands for its hash, a number for the certificate  *)
(* and the key that belong together.                                       *)
(***************************************************************************)
EXTENDS Integers

CONSTANTS
  Requests,   \* settings requests
  Names,      \* administrator names
  Passwords,
  Pairs,      \* TLS certificates with their keys
  NoName,     \* no session, or an administrator that is not there
  NoPair      \* the empty setting

Files == Pairs \cup {NoPair}
Tables == UNION {[S -> Passwords] : S \in SUBSET Names}
Databases == [admins : Tables, cert : Files, key : Files]

VARIABLES
  db,        \* admins, panel_cert_file, panel_key_file
  backups,   \* backup files
  sessions,  \* users of the sessions that are valid
  up,        \* the panel runs
  at,        \* at[r]: where a settings request stands
  user,      \* user[r]: its session's user, or NoName
  clearing,  \* a restore has replaced the database, not yet the sessions
  form,      \* form[r]: what it was sent for the administrator
  hash,      \* hash[r]: newHash
  login,     \* the administrator a login has compared, not yet its session
  term,      \* where the terminal menu stands
  old,       \* the administrator it shows
  pair,      \* the pair it writes
  torn,      \* history: a save of the terminal was cut short or mixed up
  lagging    \* history: the administrator changed under a session to be made

vars == <<db, backups, sessions, up, clearing, at, user, form, hash, login, term, old,
          pair, torn, lagging>>
request == <<at, user, form, hash, clearing>>
terminal == <<term, old, pair>>

Phases == {"idle", "read", "save", "clear", "create"}
Forms == [name : Names, password : Passwords \cup {""}]
NoForm == [name |-> NoName, password |-> ""]
NoAdmin == [name |-> NoName, hash |-> ""]

TypeOK ==
  /\ db \in Databases
  /\ backups \subseteq Databases
  /\ sessions \subseteq Names
  /\ up \in BOOLEAN /\ clearing \in BOOLEAN
  /\ at \in [Requests -> Phases]
  /\ user \in [Requests -> Names \cup {NoName}]
  /\ form \in [Requests -> Forms \cup {NoForm}]
  /\ hash \in [Requests -> Passwords \cup {""}]
  /\ login \in Names \cup {NoName}
  /\ term \in {"idle", "admin", "settings", "cert", "key", "ask"}
  /\ old \in [name : Names, hash : Passwords] \cup {NoAdmin}
  /\ pair \in Files
  /\ torn \in BOOLEAN /\ lagging \in BOOLEAN

Init ==
  /\ \E n \in Names, p \in Passwords :
       db = [admins |-> [m \in {n} |-> p], cert |-> NoPair, key |-> NoPair]
  /\ backups = {}
  /\ sessions = {}
  /\ up = TRUE
  /\ at = [r \in Requests |-> "idle"]
  /\ clearing = FALSE
  /\ user = [r \in Requests |-> NoName]
  /\ form = [r \in Requests |-> NoForm]
  /\ hash = [r \in Requests |-> ""]
  /\ login = NoName
  /\ term = "idle" /\ old = NoAdmin /\ pair = NoPair
  /\ torn = FALSE /\ lagging = FALSE

Admins == DOMAIN db.admins

(* Mutant of CanApply: who was read is not looked for again.            *)
CanApplyBlind(from, to) == to = from \/ to \notin Admins

(***************************************************************************)
(* ApplySettings: one transaction.  The administrator that was read must   *)
(* still be there, and a new name must be free.                            *)
(***************************************************************************)
CanApply(from, to) == from \in Admins /\ (to = from \/ to \notin Admins)

Renamed(from, to, h) ==
  [n \in (Admins \ {from}) \cup {to} |-> IF n = to THEN h ELSE db.admins[n]]

(* The other sides of a change of the administrator or of the TLS files.   *)
Lags(changed) ==
  LET making == login # NoName \/ \E r \in Requests : at[r] \in {"clear", "create"} IN
  lagging' = (lagging \/ (changed /\ making))
Tears(mixed) == torn' = (torn \/ mixed)
Mixed == term \in {"settings", "cert", "key"}

(***************************************************************************)
(* updateSettings                                                          *)
(***************************************************************************)
Send(r) ==
  /\ up /\ at[r] = "idle"
  /\ \E u \in sessions, f \in Forms :
       /\ user' = [user EXCEPT ![r] = u]
       /\ form' = [form EXCEPT ![r] = f]
  /\ at' = [at EXCEPT ![r] = "read"]
  /\ UNCHANGED <<db, backups, sessions, up, hash, login, clearing, terminal, torn, lagging>>

Finish(r) ==
  /\ at' = [at EXCEPT ![r] = "idle"]
  /\ user' = [user EXCEPT ![r] = NoName]
  /\ form' = [form EXCEPT ![r] = NoForm]
  /\ hash' = [hash EXCEPT ![r] = ""]

(* The administrator is read and, when something of it is to change, the   *)
(* current password compared; the old hash is kept when no new password is *)
(* sent.                                                                   *)
Read(r) ==
  /\ at[r] = "read"
  /\ \/ /\ user[r] \in Admins
        /\ hash' = [hash EXCEPT ![r] =
             IF form[r].password = "" THEN db.admins[user[r]] ELSE form[r].password]
        /\ at' = [at EXCEPT ![r] = "save"]
        /\ UNCHANGED <<user, form>>
     \/ Finish(r)
  /\ UNCHANGED <<db, backups, sessions, up, login, clearing, terminal, torn, lagging>>

Changing(r) == form[r].name # user[r] \/ form[r].password # ""

(* Mutant of ValidTLS: the key is not looked at.                           *)
ValidCertificate(cert, key) == TRUE

(* A certificate and a key that load together, or none of both.            *)
ValidTLS(cert, key) == cert = key

Save(r) ==
  /\ at[r] = "save"
  /\ \/ /\ CanApply(user[r], form[r].name)
        /\ \E cert, key \in Files :
             /\ ValidTLS(cert, key)
             /\ db' = [admins |-> Renamed(user[r], form[r].name, hash[r]),
                       cert |-> cert, key |-> key]
        /\ Lags(Changing(r)) /\ Tears(Mixed)
        /\ IF Changing(r)
           THEN at' = [at EXCEPT ![r] = "clear"] /\ UNCHANGED <<user, form, hash>>
           ELSE Finish(r)
     \/ Finish(r) /\ UNCHANGED <<db, torn, lagging>>
  /\ UNCHANGED <<backups, sessions, up, login, clearing, terminal>>

(* Mutant of Clear: the sessions of the old administrator stay.            *)
ClearNothing(r) ==
  /\ at[r] = "clear"
  /\ at' = [at EXCEPT ![r] = "create"]
  /\ UNCHANGED <<db, backups, sessions, up, user, form, hash, login, clearing, terminal, torn, lagging>>

Clear(r) ==
  /\ at[r] = "clear"
  /\ sessions' = {}
  /\ at' = [at EXCEPT ![r] = "create"]
  /\ UNCHANGED <<db, backups, up, clearing, user, form, hash, login, terminal, torn, lagging>>

Create(r) ==
  /\ at[r] = "create"
  /\ sessions' = sessions \cup {form[r].name}
  /\ Finish(r)
  /\ UNCHANGED <<db, backups, up, login, clearing, terminal, torn, lagging>>

(***************************************************************************)
(* Login and logout; a session also ends by itself.                        *)
(***************************************************************************)
Login(n) ==
  /\ up /\ login = NoName /\ n \in Admins
  /\ login' = n
  /\ UNCHANGED <<db, backups, sessions, up, request, terminal, torn, lagging>>

LoggedIn ==
  /\ login # NoName
  /\ sessions' = sessions \cup {login}
  /\ login' = NoName
  /\ UNCHANGED <<db, backups, up, request, terminal, torn, lagging>>

SessionEnds(n) ==
  /\ n \in sessions
  /\ sessions' = sessions \ {n}
  /\ UNCHANGED <<db, backups, up, request, login, terminal, torn, lagging>>

(***************************************************************************)
(* Backups of the panel: what is restored replaces everything.  Snapshot   *)
(* reads the administrators and the settings one after the other; no       *)
(* property relates the two, so that one step stands for both.             *)
(***************************************************************************)
Backup ==
  /\ up
  /\ backups' = {db}
  /\ Tears(Mixed)
  /\ UNCHANGED <<db, sessions, up, request, login, terminal, lagging>>

(* ReplaceSnapshot; Clear follows.                                         *)
Restore ==
  /\ up /\ ~clearing
  /\ \E b \in backups : db' = b
  /\ clearing' = TRUE
  /\ Lags(TRUE) /\ Tears(Mixed)
  /\ UNCHANGED <<backups, sessions, up, at, user, form, hash, login, terminal>>

Restored ==
  /\ clearing
  /\ sessions' = {}
  /\ clearing' = FALSE
  /\ UNCHANGED <<db, backups, up, at, user, form, hash, login, terminal, torn, lagging>>

(***************************************************************************)
(* The terminal: adminMenu                                                 *)
(***************************************************************************)
AdminMenu ==
  /\ term = "idle"
  /\ \E n \in Admins : old' = [name |-> n, hash |-> db.admins[n]]
  /\ term' = "admin"
  /\ UNCHANGED <<db, backups, sessions, up, request, login, pair, torn, lagging>>

Close == term' = "idle" /\ old' = NoAdmin /\ pair' = NoPair

AdminSave ==
  /\ term = "admin"
  /\ \/ \E n \in Names, h \in Passwords :
          /\ CanApply(old.name, n)
          /\ db' = [db EXCEPT !.admins = Renamed(old.name, n, h)]
          /\ lagging' = TRUE
     \/ UNCHANGED <<db, lagging>>
  /\ Close
  /\ UNCHANGED <<backups, sessions, up, request, login, torn>>

(***************************************************************************)
(* The terminal: settingsMenu writes its values one by one, in any order.  *)
(***************************************************************************)
SettingsMenu ==
  /\ term = "idle"
  /\ term' = "settings"
  /\ pair' \in Files
  /\ UNCHANGED <<db, backups, sessions, up, request, login, old, torn, lagging>>

SetCert ==
  /\ term \in {"settings", "key"}
  /\ db' = [db EXCEPT !.cert = pair]
  /\ term' = IF term = "settings" THEN "cert" ELSE "ask"
  /\ UNCHANGED <<backups, sessions, up, request, login, old, pair, torn, lagging>>

SetKey ==
  /\ term \in {"settings", "cert"}
  /\ db' = [db EXCEPT !.key = pair]
  /\ term' = IF term = "settings" THEN "key" ELSE "ask"
  /\ UNCHANGED <<backups, sessions, up, request, login, old, pair, torn, lagging>>

(* An error of one of the writes, or the end of the process.               *)
SettingsCut ==
  /\ term \in {"settings", "cert", "key", "ask"}
  /\ Close
  /\ Tears(term \in {"cert", "key"})
  /\ UNCHANGED <<db, backups, sessions, up, request, login, lagging>>

(***************************************************************************)
(* A start of the panel: no session is left, and serve refuses to run with *)
(* half a pair or with one that does not load.                             *)
(***************************************************************************)
Launch ==
  /\ up' = (db.cert = db.key)
  /\ sessions' = {}
  /\ login' = NoName
  /\ clearing' = FALSE
  /\ at' = [r \in Requests |-> "idle"]
  /\ user' = [r \in Requests |-> NoName]
  /\ form' = [r \in Requests |-> NoForm]
  /\ hash' = [r \in Requests |-> ""]

Restart == Launch /\ UNCHANGED <<db, backups, terminal, torn, lagging>>

RestartAsked ==
  /\ term = "ask"
  /\ Launch /\ Close
  /\ UNCHANGED <<db, backups, torn, lagging>>

Next ==
  \/ \E r \in Requests : Send(r) \/ Read(r) \/ Save(r) \/ Clear(r) \/ Create(r)
  \/ \E n \in Names : Login(n) \/ SessionEnds(n)
  \/ LoggedIn \/ Backup \/ Restore \/ Restored
  \/ AdminMenu \/ AdminSave \/ SettingsMenu \/ SetCert \/ SetKey \/ SettingsCut
  \/ Restart \/ RestartAsked

Spec == Init /\ [][Next]_vars

(***************************************************************************)
(* There is exactly one administrator, whatever renames of the settings    *)
(* form, of the terminal and restores cross each other.                    *)
(***************************************************************************)
OneAdmin ==
  /\ \E n \in Names : Admins = {n}
  /\ \A b \in backups : \E n \in Names : DOMAIN b.admins = {n}

(***************************************************************************)
(* The panel can be started again: the saved certificate and key belong    *)
(* together, in the database and in the backups.  Only a terminal save in  *)
(* progress, cut between its writes, or crossed by another save or backup  *)
(* can tell.                                                               *)
(***************************************************************************)
Startable == ~torn => (term \in {"cert", "key"} \/ db.cert = db.key)
                        /\ (\A b \in backups : b.cert = b.key)

(***************************************************************************)
(* A valid session belongs to an administrator that exists, so that its    *)
(* settings form works.  Only a change by the terminal, and one while      *)
(* another session was about to be made, can leave an older one behind.    *)
(***************************************************************************)
SessionsCurrent ==
  ~lagging /\ ~clearing /\ (\A r \in Requests : at[r] # "clear") => sessions \subseteq Admins
=============================================================================
