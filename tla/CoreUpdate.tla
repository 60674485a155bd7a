----------------------------- MODULE CoreUpdate -----------------------------
(***************************************************************************)
(* Replacing the Xray core and its geodata on disk: Updater.Update,        *)
(* Updater.Rollback and Updater.UpdateGeodata (internal/xray).             *)
(*                                                                         *)
(* A call is a request to the panel or a command of the terminal manager.  *)
(* Nothing serialises two of them, each may be cut short by a crash of its *)
(* process, and nothing resumes or cleans up afterwards: the next call     *)
(* works on whatever files it finds.  A file is the release it comes from. *)
(***************************************************************************)
EXTENDS Integers, FiniteSets

CONSTANTS
  Calls,       \* calls that may be in progress at the same time
  MaxRelease,  \* bound: releases published
  MaxCalls     \* bound: calls made

None == 0      \* no such file
Releases == 1..MaxRelease
Content == Releases \cup {None}

(* The three names a core can have and the two geodata files.              *)
Cores == {"xray", ".previous", ".rollback-current"}
Geodata == {"geoip", "geosite"}

VARIABLES
  core,      \* core[n]: the release of the core named n
  geo,       \* geo[n]: installed geodata
  geoPrev,   \* geoPrev[n]: the ".previous" of that file
  marker,    \* .xport-geodata-version
  latest,    \* newest stable release
  pc,        \* where each call stands
  cand,      \* cand[c]: the release downloaded by c
  names,     \* names[c]: geodata that c created, or has begun to replace
  had,       \* had[c]: hadOld, the files c has moved aside
  result,    \* result[c]: what c last reported
  last,      \* history: the call that began last
  found,     \* history: the files it found
  slipped,   \* history: it ignored an error while undoing
  alone,     \* history: no two calls have overlapped
  calls      \* number of calls made

vars == <<core, geo, geoPrev, marker, latest, pc, cand, names, had, result,
          last, found, slipped, alone, calls>>
files == <<core, geo, geoPrev, marker>>
ghosts == <<latest, last, found, alone, calls>>

Phases == {"idle", "bootstrap", "fill", "aside", "install", "verify", "undo",
           "putBack", "restarting", "setAside", "swapIn", "verifyPrevious",
           "handBack", "restore", "keep", "move", "copy", "verifyGeo", "mark",
           "clean", "undoGeo"}
Results == {"none", "current", "refused", "rolled back", "not kept", "ok"}
Snapshots == [core : [Cores -> Content], geo : [Geodata -> Content]]

TypeOK ==
  /\ core \in [Cores -> Content]
  /\ geo \in [Geodata -> Content]
  /\ geoPrev \in [Geodata -> Content]
  /\ marker \in Content
  /\ latest \in Releases
  /\ pc \in [Calls -> Phases]
  /\ cand \in [Calls -> Releases]
  /\ names \in [Calls -> SUBSET Geodata]
  /\ had \in [Calls -> SUBSET (Geodata \cup {"xray"})]
  /\ result \in [Calls -> Results]
  /\ last \in Calls
  /\ found \in Snapshots
  /\ slipped \in BOOLEAN
  /\ alone \in BOOLEAN
  /\ calls \in 0..MaxCalls

(* A fresh host has nothing; the installer leaves a core with its geodata. *)
Init ==
  /\ latest = 1
  /\ \E v \in {None, 1} :
       /\ core = [n \in Cores |-> IF n = "xray" THEN v ELSE None]
       /\ geo = [n \in Geodata |-> v]
  /\ geoPrev = [n \in Geodata |-> None]
  /\ marker = None
  /\ pc = [c \in Calls |-> "idle"]
  /\ cand = [c \in Calls |-> 1]
  /\ names = [c \in Calls |-> {}]
  /\ had = [c \in Calls |-> {}]
  /\ result = [c \in Calls |-> "none"]
  /\ last \in Calls
  /\ found = [core |-> core, geo |-> geo]
  /\ slipped = FALSE
  /\ alone = TRUE
  /\ calls = 0

Goto(c, phase) == pc' = [pc EXCEPT ![c] = phase] /\ UNCHANGED result
Return(c, r) == pc' = [pc EXCEPT ![c] = "idle"] /\ result' = [result EXCEPT ![c] = r]
Slips(failed) == slipped' = (slipped \/ failed)
Without(S) == [n \in Geodata |-> IF n \in S THEN None ELSE geo[n]]

(* os.Rename(a, b) of two cores, possible when a exists.                   *)
Renames(a, b) ==
  /\ core[a] # None
  /\ core' = [core EXCEPT ![b] = core[a], ![a] = None]

(***************************************************************************)
(* The beginning of every call.                                            *)
(***************************************************************************)
Begin(c) ==
  /\ pc[c] = "idle"
  /\ calls < MaxCalls
  /\ calls' = calls + 1
  /\ last' = c
  /\ found' = [core |-> core, geo |-> geo]
  /\ slipped' = FALSE
  /\ alone' = (alone /\ \A d \in Calls \ {c} : pc[d] = "idle")
  /\ had' = [had EXCEPT ![c] = {}]
  /\ UNCHANGED <<files, latest>>

(***************************************************************************)
(* Update: the release, the installed version and the missing geodata are  *)
(* looked at; then the archive is downloaded, its digest compared, and the *)
(* candidate run and tested on the current configuration.  Any error ends  *)
(* the call.                                                               *)
(***************************************************************************)
Available == core["xray"] # latest
Missing == {n \in Geodata : geo[n] = None}

Update(c) ==
  /\ Begin(c)
  /\ cand' = [cand EXCEPT ![c] = latest]
  /\ names' = [names EXCEPT ![c] = Missing]
  /\ \/ ~Available /\ Missing = {} /\ Return(c, "current")
     \/ (Available \/ Missing # {}) /\ Return(c, "refused")
     \/ Available /\ Goto(c, "bootstrap")
     \/ ~Available /\ Missing # {} /\ Goto(c, "fill")

(* bootstrapMissingGeodata: on an error what was created is removed.       *)
Bootstrap(c) ==
  /\ pc[c] \in {"bootstrap", "fill"}
  /\ \/ /\ geo' = [n \in Geodata |-> IF n \in names[c] THEN cand[c] ELSE geo[n]]
        /\ IF pc[c] = "bootstrap" THEN Goto(c, "aside") ELSE Return(c, "ok")
     \/ \E S \in SUBSET names[c] : geo' = Without(S) /\ Return(c, "refused")
  /\ UNCHANGED <<core, geoPrev, marker, cand, names, had, slipped, ghosts>>

(* Mutant of Aside: the installed core is removed, not renamed.            *)
AsideDropped(c) ==
  /\ pc[c] = "aside"
  /\ core' = [core EXCEPT !["xray"] = None]
  /\ had' = [had EXCEPT ![c] = {"xray"}]
  /\ Goto(c, "install")
  /\ UNCHANGED <<geo, geoPrev, marker, cand, names, slipped, ghosts>>

(* An installed core takes the place of ".previous".                       *)
Aside(c) ==
  /\ pc[c] = "aside"
  /\ \/ /\ core["xray"] = None
        /\ Goto(c, "install")
        /\ UNCHANGED <<core, geo, had>>
     \/ /\ Renames("xray", ".previous")
        /\ had' = [had EXCEPT ![c] = {"xray"}]
        /\ Goto(c, "install")
        /\ UNCHANGED geo
     \/ /\ core["xray"] # None
        /\ core' = [core EXCEPT ![".previous"] = None]
        /\ geo' = Without(names[c])
        /\ Return(c, "refused")
        /\ UNCHANGED had
  /\ UNCHANGED <<geoPrev, marker, cand, names, slipped, ghosts>>

(* copyFile: a complete file appears under the name, or none does.         *)
Install(c) ==
  /\ pc[c] = "install"
  /\ \/ core' = [core EXCEPT !["xray"] = cand[c]] /\ Goto(c, "verify")
     \/ Goto(c, "undo") /\ UNCHANGED core
  /\ UNCHANGED <<geo, geoPrev, marker, cand, names, had, slipped, ghosts>>

(* restartAndVerify can succeed when there is a core to start.             *)
Restarts(c, at, ok, failed) ==
  /\ pc[c] = at
  /\ (core["xray"] # None /\ ok) \/ failed
  /\ UNCHANGED <<files, cand, names, had, slipped, ghosts>>

Verify(c) == Restarts(c, "verify", Return(c, "ok"), Goto(c, "undo"))

(* Mutant of Undo: the geodata that came with the candidate stay.          *)
UndoLeavesGeodata(c) ==
  /\ pc[c] = "undo"
  /\ core' = [core EXCEPT !["xray"] = None]
  /\ IF "xray" \in had[c] THEN Goto(c, "putBack") ELSE Return(c, "rolled back")
  /\ UNCHANGED <<geo, geoPrev, marker, cand, names, had, slipped, ghosts>>

Undo(c) ==
  /\ pc[c] = "undo"
  /\ core' = [core EXCEPT !["xray"] = None]
  /\ geo' = Without(names[c])
  /\ IF "xray" \in had[c] THEN Goto(c, "putBack") ELSE Return(c, "rolled back")
  /\ UNCHANGED <<geoPrev, marker, cand, names, had, slipped, ghosts>>

(* The error of this rename and of the restart after it are ignored.       *)
PutBack(c) ==
  /\ pc[c] = "putBack"
  /\ \/ Renames(".previous", "xray") /\ Slips(FALSE)
     \/ UNCHANGED core /\ Slips(TRUE)
  /\ Goto(c, "restarting")
  /\ UNCHANGED <<geo, geoPrev, marker, cand, names, had, ghosts>>

Restarted(c) == Restarts(c, "restarting", Return(c, "rolled back"), Return(c, "rolled back"))

(***************************************************************************)
(* Rollback: the core and ".previous" change places over a third name.     *)
(***************************************************************************)
Rollback(c) ==
  /\ Begin(c)
  /\ \/ Return(c, "refused")
     \/ core[".previous"] # None /\ Goto(c, "setAside")
  /\ UNCHANGED <<cand, names>>

SetAside(c) ==
  /\ pc[c] = "setAside"
  /\ \/ Renames("xray", ".rollback-current") /\ Goto(c, "swapIn")
     \/ core' = [core EXCEPT ![".rollback-current"] = None] /\ Return(c, "refused")
  /\ UNCHANGED <<geo, geoPrev, marker, cand, names, had, slipped, ghosts>>

SwapIn(c) ==
  /\ pc[c] = "swapIn"
  /\ \/ Renames(".previous", "xray") /\ Goto(c, "verifyPrevious")
     \/ UNCHANGED core /\ Goto(c, "restore")
  /\ UNCHANGED <<geo, geoPrev, marker, cand, names, had, slipped, ghosts>>

VerifyPrevious(c) == Restarts(c, "verifyPrevious", Goto(c, "keep"), Goto(c, "handBack"))

HandBack(c) ==
  /\ pc[c] = "handBack"
  /\ \/ Renames("xray", ".previous") /\ Slips(FALSE)
     \/ UNCHANGED core /\ Slips(TRUE)
  /\ Goto(c, "restore")
  /\ UNCHANGED <<geo, geoPrev, marker, cand, names, had, ghosts>>

(* restoreCurrent.                                                         *)
Restore(c) ==
  /\ pc[c] = "restore"
  /\ \/ Renames(".rollback-current", "xray") /\ Slips(FALSE)
     \/ core' = [core EXCEPT !["xray"] = None] /\ Slips(TRUE)
  /\ Goto(c, "restarting")
  /\ UNCHANGED <<geo, geoPrev, marker, cand, names, had, ghosts>>

Keep(c) ==
  /\ pc[c] = "keep"
  /\ \/ Renames(".rollback-current", ".previous") /\ Return(c, "ok")
     \/ UNCHANGED core /\ Return(c, "not kept")
  /\ UNCHANGED <<geo, geoPrev, marker, cand, names, had, slipped, ghosts>>

(***************************************************************************)
(* UpdateGeodata: the two files are replaced in turn, the service          *)
(* restarted, the marker written, the replaced files removed.              *)
(***************************************************************************)
UpdateGeodata(c) ==
  /\ Begin(c)
  /\ cand' = [cand EXCEPT ![c] = latest]
  /\ names' = [names EXCEPT ![c] = {}]
  /\ \/ marker = latest /\ Return(c, "current")
     \/ marker # latest /\ Return(c, "refused")
     \/ marker # latest /\ Goto(c, "move")

(* A failed rename leaves this file out of the list that is rolled back.   *)
Move(c) ==
  LET n == IF names[c] = {} THEN "geoip" ELSE "geosite" IN
  /\ pc[c] = "move"
  /\ \/ /\ geo[n] # None
        /\ geoPrev' = [geoPrev EXCEPT ![n] = geo[n]]
        /\ geo' = [geo EXCEPT ![n] = None]
        /\ had' = [had EXCEPT ![c] = @ \cup {n}]
        /\ names' = [names EXCEPT ![c] = @ \cup {n}]
        /\ Goto(c, "copy")
     \/ /\ geo[n] = None
        /\ names' = [names EXCEPT ![c] = @ \cup {n}]
        /\ Goto(c, "copy")
        /\ UNCHANGED <<geo, geoPrev, had>>
     \/ /\ geo[n] # None
        /\ geoPrev' = [geoPrev EXCEPT ![n] = None]
        /\ Goto(c, "undoGeo")
        /\ UNCHANGED <<geo, had, names>>
  /\ UNCHANGED <<core, marker, cand, slipped, ghosts>>

(* Mutant of CopyGeo: the marker is written with the first file.           *)
CopyGeoMarks(c) ==
  /\ pc[c] = "copy"
  /\ marker' = cand[c]
  /\ geo' = [geo EXCEPT ![IF names[c] = Geodata THEN "geosite" ELSE "geoip"] = cand[c]]
  /\ Goto(c, IF names[c] = Geodata THEN "verifyGeo" ELSE "move")
  /\ UNCHANGED <<core, geoPrev, cand, names, had, slipped, ghosts>>

CopyGeo(c) ==
  LET n == IF names[c] = Geodata THEN "geosite" ELSE "geoip" IN
  /\ pc[c] = "copy"
  /\ \/ /\ geo' = [geo EXCEPT ![n] = cand[c]]
        /\ Goto(c, IF names[c] = Geodata THEN "verifyGeo" ELSE "move")
     \/ Goto(c, "undoGeo") /\ UNCHANGED geo
  /\ UNCHANGED <<core, geoPrev, marker, cand, names, had, slipped, ghosts>>

VerifyGeo(c) == Restarts(c, "verifyGeo", Goto(c, "mark"), Goto(c, "undoGeo"))

Mark(c) ==
  /\ pc[c] = "mark"
  /\ \/ marker' = cand[c] /\ Goto(c, "clean")
     \/ Goto(c, "undoGeo") /\ UNCHANGED marker
  /\ UNCHANGED <<core, geo, geoPrev, cand, names, had, slipped, ghosts>>

Clean(c) ==
  /\ pc[c] = "clean"
  /\ geoPrev' = [n \in Geodata |-> None]
  /\ Return(c, "ok")
  /\ UNCHANGED <<core, geo, marker, cand, names, had, slipped, ghosts>>

(* rollback: file by file, errors ignored.                                 *)
UndoGeo(c) ==
  /\ pc[c] = "undoGeo"
  /\ IF names[c] = {}
     THEN Goto(c, "restarting") /\ UNCHANGED <<geo, geoPrev, names, slipped>>
     ELSE LET n == IF "geoip" \in names[c] THEN "geoip" ELSE "geosite"
              back == n \in had[c] /\ geoPrev[n] # None IN
          /\ names' = [names EXCEPT ![c] = @ \ {n}]
          /\ \/ /\ back
                /\ geo' = [geo EXCEPT ![n] = geoPrev[n]]
                /\ geoPrev' = [geoPrev EXCEPT ![n] = None]
                /\ Slips(FALSE)
             \/ /\ geo' = [geo EXCEPT ![n] = None]
                /\ Slips(n \in had[c])
                /\ UNCHANGED geoPrev
          /\ Goto(c, "undoGeo")
  /\ UNCHANGED <<core, marker, cand, had, ghosts>>

(* The process of a call dies, or stable releases move on.                 *)
Crash(c) ==
  /\ pc[c] # "idle"
  /\ Return(c, "none")
  /\ UNCHANGED <<files, cand, names, had, slipped, ghosts>>

Publish ==
  /\ latest < MaxRelease
  /\ latest' = latest + 1
  /\ UNCHANGED <<files, pc, cand, names, had, result, last, found, slipped, alone, calls>>

Next ==
  \/ Publish
  \/ \E c \in Calls :
       \/ Update(c) \/ Bootstrap(c) \/ Aside(c) \/ Install(c) \/ Verify(c)
       \/ Undo(c) \/ PutBack(c) \/ Restarted(c)
       \/ Rollback(c) \/ SetAside(c) \/ SwapIn(c) \/ VerifyPrevious(c)
       \/ HandBack(c) \/ Restore(c) \/ Keep(c)
       \/ UpdateGeodata(c) \/ Move(c) \/ CopyGeo(c) \/ VerifyGeo(c) \/ Mark(c)
       \/ Clean(c) \/ UndoGeo(c) \/ Crash(c)

Spec == Init /\ [][Next]_vars

(***************************************************************************)
(* The core a call found installed is never lost: until the next call      *)
(* begins it stays under one of the three names, whatever fails, wherever  *)
(* the process of the call dies, and whatever an earlier call left behind. *)
(***************************************************************************)
Survives ==
  alone /\ found.core["xray"] # None => \E n \in Cores : core[n] = found.core["xray"]

(* A call that reports "was rolled back" has left the core and both        *)
(* geodata files it found, unless undoing itself ran into an error: those  *)
(* errors are ignored, and the report is the same.                         *)
AsFound ==
  \A c \in Calls :
    alone /\ last = c /\ pc[c] = "idle" /\ result[c] = "rolled back" /\ ~slipped =>
      core["xray"] = found.core["xray"] /\ geo = found.geo

(* When UpdateGeodata would answer that everything is current, both files  *)
(* really are of that release: no update that fails or is cut short after  *)
(* the first file leaves a marker that hides the difference.               *)
GeoTrue == alone /\ marker = latest => \A n \in Geodata : geo[n] = latest
=============================================================================
