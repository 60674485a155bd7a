-------------------------- MODULE CoreUpdateProofs --------------------------
(***************************************************************************)
(* Proofs about CoreUpdate, for any number of releases and calls.          *)
(*                                                                         *)
(* While no two calls have overlapped only the last one is under way, and  *)
(* its place in the code says where the core and the geodata it found have *)
(* gone: CorePlace, GeoPlace and MarkPlace.  Nothing about earlier calls   *)
(* is needed, so that what they left behind may be anything.               *)
(***************************************************************************)
EXTENDS CoreUpdate, TLAPS

Bounds == MaxRelease \in Nat \ {0} /\ MaxCalls \in Nat

-----------------------------------------------------------------------------
(* The inductive invariant                                                 *)

(* Only the last call is under way.                                        *)
Sole == alone => \A d \in Calls : d # last => pc[d] = "idle"

UpdatePhases == {"bootstrap", "fill", "aside", "install", "verify", "undo"}
GeoPhases == {"move", "copy", "verifyGeo", "mark", "undoGeo"}
SwapPhases == {"swapIn", "verifyPrevious", "handBack", "restore", "keep"}

(* The place of the core the last call has found.                          *)
CorePlace ==
  LET phase == pc[last]
      it == found.core["xray"] IN
  /\ phase \in {"bootstrap", "fill", "aside", "setAside", "clean"} \cup GeoPhases =>
       core["xray"] = it
  /\ phase \in {"bootstrap", "fill", "aside"} => had[last] = {}
  /\ phase \in {"install", "verify", "undo", "putBack"} =>
       IF "xray" \in had[last] THEN core[".previous"] = it ELSE it = None
  /\ phase = "putBack" => "xray" \in had[last]
  /\ phase \in SwapPhases => core[".rollback-current"] = it
  /\ phase = "restarting" /\ ~slipped => core["xray"] = it
  /\ phase \in {"restarting", "idle"} /\ it # None => \E n \in Cores : core[n] = it

(* What has become of the geodata it has found.                            *)
GeoPlace ==
  LET phase == pc[last] IN
  /\ phase \in UpdatePhases =>
       \A n \in Geodata : IF n \in names[last] THEN found.geo[n] = None ELSE geo[n] = found.geo[n]
  /\ phase \in {"putBack", "setAside"} \cup SwapPhases => geo = found.geo
  /\ phase \in GeoPhases /\ ~slipped =>
       \A n \in Geodata :
         IF n \notin names[last] THEN geo[n] = found.geo[n]
         ELSE IF n \in had[last] THEN geoPrev[n] = found.geo[n]
         ELSE found.geo[n] = None
  /\ phase \in {"move", "copy"} => had[last] \subseteq names[last]
  /\ phase = "move" => names[last] \in {{}, {"geoip"}}
  /\ phase = "copy" => names[last] \in {{"geoip"}, Geodata}
  /\ phase = "restarting" /\ ~slipped => geo = found.geo

(* Nothing is newer than the newest release.                               *)
Behind == marker <= latest /\ \A c \in Calls : cand[c] <= latest

(* How far the replacement of the geodata is, and that its marker waits.   *)
MarkPlace ==
  LET phase == pc[last] IN
  /\ phase \in GeoPhases => marker # latest
  /\ phase \in UpdatePhases /\ names[last] # {} => marker # latest
  /\ phase = "move" /\ names[last] = {"geoip"} => geo["geoip"] = cand[last]
  /\ phase = "copy" /\ names[last] = Geodata => geo["geoip"] = cand[last]
  /\ phase \in {"verifyGeo", "mark"} => \A n \in Geodata : geo[n] = cand[last]

(* UpdateGeodata would tell the truth.                                     *)
Honest == marker = latest => \A n \in Geodata : geo[n] = latest

(* A call that was undone has left things as it found them.                *)
Restored == pc[last] = "idle" /\ result[last] = "rolled back" /\ ~slipped =>
              core["xray"] = found.core["xray"] /\ geo = found.geo

Placed == alone => CorePlace /\ GeoPlace /\ MarkPlace /\ Honest /\ Restored
IInv == TypeOK /\ Sole /\ Behind /\ Placed

-----------------------------------------------------------------------------
(* Types.  TypeOK in four parts, for each step disturbs one or two.        *)
FilesOK ==
  /\ core \in [Cores -> Content]
  /\ geo \in [Geodata -> Content]
  /\ geoPrev \in [Geodata -> Content]
  /\ marker \in Content
WorkOK ==
  /\ cand \in [Calls -> Releases]
  /\ names \in [Calls -> SUBSET Geodata]
  /\ had \in [Calls -> SUBSET (Geodata \cup {"xray"})]
  /\ slipped \in BOOLEAN
PlaceOK == pc \in [Calls -> Phases] /\ result \in [Calls -> Results]
GhostsOK ==
  /\ latest \in Releases
  /\ last \in Calls
  /\ found \in Snapshots
  /\ alone \in BOOLEAN
  /\ calls \in 0..MaxCalls

LEMMA TypeParts == TypeOK <=> FilesOK /\ WorkOK /\ PlaceOK /\ GhostsOK
  BY DEF TypeOK, FilesOK, WorkOK, PlaceOK, GhostsOK

(* The call c goes to another place, or ends.                              *)
Moves(c) ==
  /\ pc[c] # "idle"
  /\ \E p \in Phases : pc' = [pc EXCEPT ![c] = p]
  /\ result' \in [Calls -> Results]
  /\ UNCHANGED ghosts

Walks(c) ==
  \/ Bootstrap(c) \/ Aside(c) \/ Install(c) \/ Verify(c) \/ Undo(c) \/ PutBack(c) \/ Restarted(c)
  \/ SetAside(c) \/ SwapIn(c) \/ VerifyPrevious(c) \/ HandBack(c) \/ Restore(c) \/ Keep(c)
  \/ Move(c) \/ CopyGeo(c) \/ VerifyGeo(c) \/ Mark(c) \/ Clean(c) \/ UndoGeo(c) \/ Crash(c)
Starts(c) == Update(c) \/ Rollback(c) \/ UpdateGeodata(c)

LEMMA GotoPlace ==
  ASSUME PlaceOK, NEW c \in Calls, NEW p \in Phases, Goto(c, p)
  PROVE  PlaceOK' /\ \E q \in Phases : pc' = [pc EXCEPT ![c] = q]
  BY DEF PlaceOK, Goto

LEMMA ReturnPlace ==
  ASSUME PlaceOK, NEW c \in Calls, NEW r \in Results, Return(c, r)
  PROVE  PlaceOK' /\ \E q \in Phases : pc' = [pc EXCEPT ![c] = q]
  BY DEF PlaceOK, Return, Phases

(* Every step inside a call moves that call and no history.                *)
LEMMA WalkMoves == ASSUME PlaceOK, NEW c \in Calls, Walks(c) PROVE Moves(c) /\ PlaceOK'
<1> SUFFICES pc[c] # "idle" /\ UNCHANGED ghosts
             /\ PlaceOK' /\ \E q \in Phases : pc' = [pc EXCEPT ![c] = q]
  BY DEF Moves, PlaceOK
<1>1. CASE Bootstrap(c)
  BY <1>1, GotoPlace, ReturnPlace DEF Bootstrap, Phases, Results
<1>2. CASE Aside(c)
  BY <1>2, GotoPlace, ReturnPlace DEF Aside, Phases, Results
<1>3. CASE Install(c)
  BY <1>3, GotoPlace, ReturnPlace DEF Install, Phases, Results
<1>4. CASE Verify(c)
  BY <1>4, GotoPlace, ReturnPlace DEF Verify, Phases, Results, Restarts
<1>5. CASE Undo(c)
  BY <1>5, GotoPlace, ReturnPlace DEF Undo, Phases, Results
<1>6. CASE PutBack(c)
  BY <1>6, GotoPlace, ReturnPlace DEF PutBack, Phases, Results
<1>7. CASE Restarted(c)
  BY <1>7, GotoPlace, ReturnPlace DEF Restarted, Phases, Results, Restarts
<1>8. CASE SetAside(c)
  BY <1>8, GotoPlace, ReturnPlace DEF SetAside, Phases, Results
<1>9. CASE SwapIn(c)
  BY <1>9, GotoPlace, ReturnPlace DEF SwapIn, Phases, Results
<1>10. CASE VerifyPrevious(c)
  BY <1>10, GotoPlace, ReturnPlace DEF VerifyPrevious, Phases, Results, Restarts
<1>11. CASE HandBack(c)
  BY <1>11, GotoPlace, ReturnPlace DEF HandBack, Phases, Results
<1>12. CASE Restore(c)
  BY <1>12, GotoPlace, ReturnPlace DEF Restore, Phases, Results
<1>13. CASE Keep(c)
  BY <1>13, GotoPlace, ReturnPlace DEF Keep, Phases, Results
<1>14. CASE Move(c)
  BY <1>14, GotoPlace, ReturnPlace DEF Move, Phases, Results
<1>15. CASE CopyGeo(c)
  BY <1>15, GotoPlace, ReturnPlace DEF CopyGeo, Phases, Results
<1>16. CASE VerifyGeo(c)
  BY <1>16, GotoPlace, ReturnPlace DEF VerifyGeo, Phases, Results, Restarts
<1>17. CASE Mark(c)
  BY <1>17, GotoPlace, ReturnPlace DEF Mark, Phases, Results
<1>18. CASE Clean(c)
  BY <1>18, GotoPlace, ReturnPlace DEF Clean, Phases, Results
<1>19. CASE UndoGeo(c)
  BY <1>19, GotoPlace, ReturnPlace DEF UndoGeo, Phases, Results
<1>20. CASE Crash(c)
  BY <1>20, GotoPlace, ReturnPlace DEF Crash, Phases, Results
<1> QED
  BY <1>1, <1>2, <1>3, <1>4, <1>5, <1>6, <1>7, <1>8, <1>9, <1>10,
     <1>11, <1>12, <1>13, <1>14, <1>15, <1>16, <1>17, <1>18, <1>19, <1>20 DEF Walks

LEMMA Contents == None \in Content /\ Releases \subseteq Content
  BY DEF Content

LEMMA RenamesOK ==
  ASSUME FilesOK, NEW a \in Cores, NEW b \in Cores, Renames(a, b)
  PROVE  core' \in [Cores -> Content]
  BY Contents DEF FilesOK, Renames

LEMMA WithoutOK == ASSUME FilesOK, NEW S PROVE Without(S) \in [Geodata -> Content]
  BY Contents DEF FilesOK, Without

(* A step inside a call keeps the types of files and work.                 *)
LEMMA WalkTypes ==
  ASSUME FilesOK, WorkOK, NEW c \in Calls, Walks(c)
  PROVE  FilesOK' /\ WorkOK'
<1> USE Contents, RenamesOK, WithoutOK DEF FilesOK, WorkOK
<1>1. CASE Bootstrap(c)
  BY <1>1 DEF Bootstrap, Geodata
<1>2. CASE Aside(c)
  BY <1>2 DEF Aside, Cores
<1>3. CASE Install(c)
  BY <1>3 DEF Install, Cores
<1>4. CASE Verify(c)
  BY <1>4 DEF Verify, Restarts, files
<1>5. CASE Undo(c)
  BY <1>5 DEF Undo, Cores
<1>6. CASE PutBack(c)
  BY <1>6 DEF PutBack, Slips, Cores
<1>7. CASE Restarted(c)
  BY <1>7 DEF Restarted, Restarts, files
<1>8. CASE SetAside(c)
  BY <1>8 DEF SetAside, Cores
<1>9. CASE SwapIn(c)
  BY <1>9 DEF SwapIn, Cores
<1>10. CASE VerifyPrevious(c)
  BY <1>10 DEF VerifyPrevious, Restarts, files
<1>11. CASE HandBack(c)
  BY <1>11 DEF HandBack, Slips, Cores
<1>12. CASE Restore(c)
  BY <1>12 DEF Restore, Slips, Cores
<1>13. CASE Keep(c)
  BY <1>13 DEF Keep, Cores
<1>14. CASE Move(c)
  BY <1>14 DEF Move, Geodata
<1>15. CASE CopyGeo(c)
  BY <1>15 DEF CopyGeo, Geodata
<1>16. CASE VerifyGeo(c)
  BY <1>16 DEF VerifyGeo, Restarts, files
<1>17. CASE Mark(c)
  BY <1>17 DEF Mark
<1>18. CASE Clean(c)
  BY <1>18 DEF Clean, Geodata
<1>19. CASE UndoGeo(c)
  <2>1. CASE names[c] = {}
    BY <1>19, <2>1 DEF UndoGeo
  <2>2. CASE names[c] # {}
    <3> DEFINE n == IF "geoip" \in names[c] THEN "geoip" ELSE "geosite"
    <3>1. n \in Geodata
      BY DEF Geodata
    <3>2. UNCHANGED <<core, marker, cand, had>> /\ names' = [names EXCEPT ![c] = names[c] \ {n}]
      BY <1>19, <2>2 DEF UndoGeo
    <3>3. \/ geo' = [geo EXCEPT ![n] = geoPrev[n]] /\ geoPrev' = [geoPrev EXCEPT ![n] = None]
          \/ geo' = [geo EXCEPT ![n] = None] /\ UNCHANGED geoPrev
      BY <1>19, <2>2 DEF UndoGeo
    <3>4. slipped' \in BOOLEAN
      BY <1>19, <2>2 DEF UndoGeo, Slips
    <3> HIDE DEF n
    <3>5. FilesOK'
      BY <3>1, <3>2, <3>3
    <3> QED
      BY <3>2, <3>4, <3>5
  <2> QED
    BY <2>1, <2>2
<1>20. CASE Crash(c)
  BY <1>20 DEF Crash, files
<1> QED
  BY <1>1, <1>2, <1>3, <1>4, <1>5, <1>6, <1>7, <1>8, <1>9, <1>10,
     <1>11, <1>12, <1>13, <1>14, <1>15, <1>16, <1>17, <1>18, <1>19, <1>20 DEF Walks

(* The beginning of a call, and what may come of it at once.               *)
LEMMA BeginTypes ==
  ASSUME Bounds, FilesOK, GhostsOK, NEW c \in Calls, Begin(c)
  PROVE  FilesOK' /\ GhostsOK' /\ slipped' \in BOOLEAN
<1>1. FilesOK' /\ slipped' \in BOOLEAN
  BY DEF FilesOK, Begin, files
<1>2. alone' \in BOOLEAN
  BY DEF Begin, GhostsOK
<1>3. found' \in Snapshots
  BY DEF Begin, FilesOK, Snapshots
<1>4. calls' \in 0..MaxCalls
  BY DEF Begin, GhostsOK, Bounds
<1> QED
  BY <1>1, <1>2, <1>3, <1>4 DEF GhostsOK, Begin

LEMMA StartTypes ==
  ASSUME Bounds, TypeOK, NEW c \in Calls, Starts(c)
  PROVE  TypeOK'
<1> USE TypeParts
<1>1. FilesOK' /\ GhostsOK' /\ slipped' \in BOOLEAN
  BY BeginTypes DEF Starts, Update, Rollback, UpdateGeodata
<1>2. PlaceOK'
  BY GotoPlace, ReturnPlace DEF Starts, Update, Rollback, UpdateGeodata, Phases, Results
<1>3. had' \in [Calls -> SUBSET (Geodata \cup {"xray"})]
  BY DEF WorkOK, Begin, Starts, Update, Rollback, UpdateGeodata
<1>4. cand' \in [Calls -> Releases] /\ names' \in [Calls -> SUBSET Geodata]
  BY DEF WorkOK, GhostsOK, Starts, Update, Rollback, UpdateGeodata, Missing
<1> QED
  BY <1>1, <1>2, <1>3, <1>4 DEF WorkOK, TypeOK, FilesOK, PlaceOK, GhostsOK

-----------------------------------------------------------------------------
(* So the core is under one of its names.                                  *)
LEMMA Found ==
  ASSUME TypeOK, CorePlace, found.core["xray"] # None
  PROVE  \E n \in Cores : core[n] = found.core["xray"]
<1> pc[last] \in Phases
  BY DEF TypeOK
<1>1. CASE pc[last] \in {"bootstrap", "fill", "aside", "setAside", "clean"} \cup GeoPhases
  BY <1>1 DEF CorePlace, Cores
<1>2. CASE pc[last] \in {"install", "verify", "undo", "putBack"}
  BY <1>2 DEF CorePlace, Cores
<1>3. CASE pc[last] \in SwapPhases
  BY <1>3 DEF CorePlace, Cores
<1>4. CASE pc[last] \in {"restarting", "idle"}
  BY <1>4 DEF CorePlace
<1> QED
  BY <1>1, <1>2, <1>3, <1>4 DEF Phases, GeoPhases, SwapPhases

(* The files of the last call change as that call goes on.                 *)
LEMMA CoreWalk ==
  ASSUME TypeOK, NEW c \in Calls, c = last, Walks(c), CorePlace
  PROVE  CorePlace'
<1> USE TypeParts DEF FilesOK, WorkOK, PlaceOK, CorePlace, Goto, Return, UpdatePhases,
        GeoPhases, SwapPhases, ghosts
<1>1. CASE Bootstrap(c)
  BY <1>1 DEF Bootstrap, Cores
<1>2. CASE Aside(c)
  <2>1. core["xray"] = found.core["xray"]
    BY <1>2 DEF Aside
  <2>2. CASE core["xray"] = None /\ Goto(c, "install") /\ UNCHANGED <<core, geo, had>>
    BY <1>2, <2>1, <2>2 DEF Aside
  <2>3. CASE Renames("xray", ".previous") /\ had' = [had EXCEPT ![c] = {"xray"}]
            /\ Goto(c, "install")
    BY <1>2, <2>1, <2>3 DEF Aside, Renames, Cores
  <2>4. CASE core' = [core EXCEPT ![".previous"] = None] /\ Return(c, "refused")
    BY <1>2, <2>1, <2>4 DEF Aside, Cores
  <2> QED
    BY <1>2, <2>2, <2>3, <2>4 DEF Aside
<1>3. CASE Install(c)
  BY <1>3 DEF Install, Cores
<1>4. CASE Verify(c)
  BY <1>4 DEF Verify, Restarts, files, Cores
<1>5. CASE Undo(c)
  BY <1>5 DEF Undo, Cores
<1>6. CASE PutBack(c)
  BY <1>6 DEF PutBack, Slips, Renames, Cores
<1>7. CASE Restarted(c)
  BY <1>7 DEF Restarted, Restarts, files, Cores
<1>8. CASE SetAside(c)
  BY <1>8 DEF SetAside, Renames, Cores
<1>9. CASE SwapIn(c)
  BY <1>9 DEF SwapIn, Renames, Cores
<1>10. CASE VerifyPrevious(c)
  BY <1>10 DEF VerifyPrevious, Restarts, files, Cores
<1>11. CASE HandBack(c)
  BY <1>11 DEF HandBack, Slips, Renames, Cores
<1>12. CASE Restore(c)
  BY <1>12 DEF Restore, Slips, Renames, Cores
<1>13. CASE Keep(c)
  BY <1>13 DEF Keep, Renames, Cores
<1>14. CASE Move(c)
  BY <1>14 DEF Move
<1>15. CASE CopyGeo(c)
  BY <1>15 DEF CopyGeo, Cores
<1>16. CASE VerifyGeo(c)
  BY <1>16 DEF VerifyGeo, Restarts, files, Cores
<1>17. CASE Mark(c)
  BY <1>17 DEF Mark, Cores
<1>18. CASE Clean(c)
  BY <1>18 DEF Clean, Cores
<1>19. CASE UndoGeo(c)
  BY <1>19 DEF UndoGeo, Slips, Cores
<1>20. CASE Crash(c)
  BY <1>20, Found DEF Crash, files
<1> QED
  BY <1>1, <1>2, <1>3, <1>4, <1>5, <1>6, <1>7, <1>8, <1>9, <1>10,
     <1>11, <1>12, <1>13, <1>14, <1>15, <1>16, <1>17, <1>18, <1>19, <1>20 DEF Walks

(* The geodata, step by step.                                              *)
LEMMA GeoWalk ==
  ASSUME TypeOK, NEW c \in Calls, c = last, Walks(c), GeoPlace
  PROVE  GeoPlace'
<1> USE TypeParts DEF FilesOK, WorkOK, PlaceOK, GeoPlace, Goto, Return, UpdatePhases,
        GeoPhases, SwapPhases, ghosts, Without, Geodata
<1>1. CASE Bootstrap(c)
  BY <1>1 DEF Bootstrap
<1>2. CASE Aside(c)
  BY <1>2 DEF Aside, Renames
<1>3. CASE Install(c)
  BY <1>3 DEF Install
<1>4. CASE Verify(c)
  BY <1>4 DEF Verify, Restarts, files
<1>5. CASE Undo(c)
  <2>1. \A n \in Geodata : geo'[n] = found.geo[n]
    BY <1>5 DEF Undo
  <2>2. geo' = found.geo
    BY <1>5, <2>1, WalkTypes DEF GhostsOK, Snapshots
  <2> QED
    BY <1>5, <2>2 DEF Undo
<1>6. CASE PutBack(c)
  BY <1>6 DEF PutBack, Slips, Renames
<1>7. CASE Restarted(c)
  BY <1>7 DEF Restarted, Restarts, files
<1>8. CASE SetAside(c)
  BY <1>8 DEF SetAside, Renames
<1>9. CASE SwapIn(c)
  BY <1>9 DEF SwapIn, Renames
<1>10. CASE VerifyPrevious(c)
  BY <1>10 DEF VerifyPrevious, Restarts, files
<1>11. CASE HandBack(c)
  BY <1>11 DEF HandBack, Slips, Renames
<1>12. CASE Restore(c)
  BY <1>12 DEF Restore, Slips, Renames
<1>13. CASE Keep(c)
  BY <1>13 DEF Keep, Renames
<1>14. CASE Move(c)
  BY <1>14 DEF Move
<1>15. CASE CopyGeo(c)
  BY <1>15 DEF CopyGeo
<1>16. CASE VerifyGeo(c)
  BY <1>16 DEF VerifyGeo, Restarts, files
<1>17. CASE Mark(c)
  BY <1>17 DEF Mark
<1>18. CASE Clean(c)
  BY <1>18 DEF Clean
<1>19. CASE UndoGeo(c)
  <2>1. CASE names[c] = {}
    <3>1. ~slipped => \A n \in Geodata : geo[n] = found.geo[n]
      BY <1>19, <2>1 DEF UndoGeo
    <3>2. ~slipped => geo = found.geo
      BY <3>1 DEF GhostsOK, Snapshots
    <3> QED
      BY <1>19, <2>1, <3>2 DEF UndoGeo
  <2>2. CASE names[c] # {}
    <3> DEFINE n == IF "geoip" \in names[c] THEN "geoip" ELSE "geosite"
    <3>1. n \in Geodata /\ n \in names[c]
      BY <2>2
    <3>2. UNCHANGED had /\ names' = [names EXCEPT ![c] = names[c] \ {n}] /\ pc[c] = "undoGeo"
          /\ pc' = [pc EXCEPT ![c] = "undoGeo"] /\ UNCHANGED <<last, found>>
      BY <1>19, <2>2 DEF UndoGeo
    <3>3. \/ /\ n \in had[c]
             /\ geo' = [geo EXCEPT ![n] = geoPrev[n]] /\ geoPrev' = [geoPrev EXCEPT ![n] = None]
             /\ slipped' = slipped
          \/ /\ geo' = [geo EXCEPT ![n] = None] /\ UNCHANGED geoPrev
             /\ slipped' = (slipped \/ n \in had[c])
      BY <1>19, <2>2 DEF UndoGeo, Slips
    <3> HIDE DEF n
    <3>4. ASSUME ~slipped', NEW m \in Geodata
          PROVE  IF m \notin names'[c] THEN geo'[m] = found.geo[m]
                 ELSE IF m \in had[c] THEN geoPrev'[m] = found.geo[m]
                 ELSE found.geo[m] = None
      <4>1. ~slipped
        BY <3>3, <3>4
      <4>2. IF m \notin names[c] THEN geo[m] = found.geo[m]
            ELSE IF m \in had[c] THEN geoPrev[m] = found.geo[m]
            ELSE found.geo[m] = None
        BY <3>2, <4>1
      <4>3. CASE m = n
        <5>1. m \notin names'[c]
          BY <3>2, <4>3
        <5>2. geo'[m] = found.geo[m]
          BY <3>1, <3>3, <3>4, <4>2, <4>3
        <5> QED
          BY <5>1, <5>2
      <4>4. CASE m # n
        <5>1. m \in names'[c] <=> m \in names[c]
          BY <3>2, <4>4
        <5>2. geo'[m] = geo[m] /\ geoPrev'[m] = geoPrev[m]
          BY <3>3, <4>4
        <5> QED
          BY <4>2, <5>1, <5>2
      <4> QED
        BY <4>3, <4>4
    <3> QED
      BY <3>2, <3>4
  <2> QED
    BY <2>1, <2>2
<1>20. CASE Crash(c)
  BY <1>20 DEF Crash, files
<1> QED
  BY <1>1, <1>2, <1>3, <1>4, <1>5, <1>6, <1>7, <1>8, <1>9, <1>10,
     <1>11, <1>12, <1>13, <1>14, <1>15, <1>16, <1>17, <1>18, <1>19, <1>20 DEF Walks

(* The marker is written last.                                             *)
LEMMA MarkWalk ==
  ASSUME TypeOK, NEW c \in Calls, c = last, Walks(c), GeoPlace, MarkPlace, Honest
  PROVE  MarkPlace' /\ Honest'
<1> USE TypeParts DEF FilesOK, WorkOK, PlaceOK, MarkPlace, Honest, Goto, Return,
        UpdatePhases, GeoPhases, ghosts, Geodata, Without
<1>1. CASE Bootstrap(c)
  BY <1>1 DEF Bootstrap
<1>2. CASE Aside(c)
  BY <1>2 DEF Aside
<1>3. CASE Install(c)
  BY <1>3 DEF Install
<1>4. CASE Verify(c)
  BY <1>4 DEF Verify, Restarts, files
<1>5. CASE Undo(c)
  BY <1>5 DEF Undo
<1>6. CASE PutBack(c)
  BY <1>6 DEF PutBack
<1>7. CASE Restarted(c)
  BY <1>7 DEF Restarted, Restarts, files
<1>8. CASE SetAside(c)
  BY <1>8 DEF SetAside
<1>9. CASE SwapIn(c)
  BY <1>9 DEF SwapIn
<1>10. CASE VerifyPrevious(c)
  BY <1>10 DEF VerifyPrevious, Restarts, files
<1>11. CASE HandBack(c)
  BY <1>11 DEF HandBack
<1>12. CASE Restore(c)
  BY <1>12 DEF Restore
<1>13. CASE Keep(c)
  BY <1>13 DEF Keep
<1>14. CASE Move(c)
  <2>1. marker # latest /\ UNCHANGED <<marker, latest, last, cand>> /\ Honest'
    BY <1>14 DEF Move
  <2>2. names[c] = {} \/ names[c] = {"geoip"}
    BY <1>14 DEF Move, GeoPlace
  <2>3. CASE names[c] = {} /\ pc' = [pc EXCEPT ![c] = "copy"]
    <3>1. names'[c] = {"geoip"}
      BY <1>14, <2>3 DEF Move
    <3> QED
      BY <2>1, <2>3, <3>1
  <2>4. CASE names[c] = {"geoip"} /\ pc' = [pc EXCEPT ![c] = "copy"]
    <3>1. geo'["geoip"] = geo["geoip"] /\ geo["geoip"] = cand[c]
      BY <1>14, <2>4 DEF Move
    <3> QED
      BY <2>1, <2>4, <3>1
  <2>5. CASE pc' = [pc EXCEPT ![c] = "undoGeo"]
    BY <2>1, <2>5
  <2> QED
    BY <1>14, <2>2, <2>3, <2>4, <2>5 DEF Move
<1>15. CASE CopyGeo(c)
  BY <1>15 DEF CopyGeo
<1>16. CASE VerifyGeo(c)
  BY <1>16 DEF VerifyGeo, Restarts, files
<1>17. CASE Mark(c)
  BY <1>17 DEF Mark
<1>18. CASE Clean(c)
  BY <1>18 DEF Clean
<1>19. CASE UndoGeo(c)
  BY <1>19 DEF UndoGeo
<1>20. CASE Crash(c)
  BY <1>20 DEF Crash, files
<1> QED
  BY <1>1, <1>2, <1>3, <1>4, <1>5, <1>6, <1>7, <1>8, <1>9, <1>10,
     <1>11, <1>12, <1>13, <1>14, <1>15, <1>16, <1>17, <1>18, <1>19, <1>20 DEF Walks

LEMMA BehindNext == ASSUME Bounds, TypeOK, Behind, [Next]_vars PROVE Behind'
<1> USE DEF Behind, TypeOK, Releases, Content, None
<1>1. CASE UNCHANGED vars
  BY <1>1 DEF vars
<1>2. CASE Publish
  BY <1>2 DEF Publish, files
<1>3. ASSUME NEW c \in Calls, Starts(c) PROVE Behind'
  BY <1>3 DEF Starts, Update, Rollback, UpdateGeodata, Begin, files
<1>4. ASSUME NEW c \in Calls, Walks(c) PROVE Behind'
  <2>1. UNCHANGED <<cand, latest>>
    BY <1>4 DEF Walks, Bootstrap, Aside, Install, Verify, Undo, PutBack, Restarted, SetAside,
       SwapIn, VerifyPrevious, HandBack, Restore, Keep, Move, CopyGeo, VerifyGeo, Mark, Clean,
       UndoGeo, Crash, Restarts, ghosts
  <2>2. ~Mark(c) => UNCHANGED marker
    BY <1>4 DEF Walks, Bootstrap, Aside, Install, Verify, Undo, PutBack, Restarted, SetAside,
       SwapIn, VerifyPrevious, HandBack, Restore, Keep, Move, CopyGeo, VerifyGeo, Clean,
       UndoGeo, Crash, Restarts, files
  <2>3. marker' \in {marker, cand[c]}
    BY <2>2 DEF Mark
  <2> QED
    BY <2>1, <2>3
<1> QED
  BY <1>1, <1>2, <1>3, <1>4 DEF Next, Starts, Walks

(* A call that ends in "rolled back" has put things back.                  *)
LEMMA RestoredWalk ==
  ASSUME TypeOK, NEW c \in Calls, c = last, Walks(c), CorePlace, GeoPlace
  PROVE  Restored'
<1> USE DEF Restored, Goto, Return, TypeOK, ghosts
<1>1. CASE Undo(c)
  <2>1. CASE "xray" \in had[c]
    BY <1>1, <2>1 DEF Undo
  <2>2. CASE "xray" \notin had[c]
    <3>1. core'["xray"] = found.core["xray"]
      BY <1>1, <2>2 DEF Undo, CorePlace, Cores
    <3>2. \A n \in Geodata : geo'[n] = found.geo[n]
      BY <1>1 DEF Undo, GeoPlace, UpdatePhases, Without
    <3>3. geo' = found.geo
      BY <1>1, <3>2, WalkTypes, TypeParts DEF FilesOK, GhostsOK, Snapshots
    <3> QED
      BY <1>1, <3>1, <3>3 DEF Undo
  <2> QED
    BY <2>1, <2>2
<1>2. CASE Restarted(c)
  BY <1>2 DEF Restarted, Restarts, files, CorePlace, GeoPlace
<1>3. CASE ~Undo(c) /\ ~Restarted(c)
  <2>1. pc'[last] # "idle" \/ result'[last] # "rolled back"
    BY <1>3 DEF Walks, Bootstrap, Aside, Install, Verify, PutBack, SetAside,
       SwapIn, VerifyPrevious, HandBack, Restore, Keep, Move, CopyGeo, VerifyGeo, Mark, Clean,
       UndoGeo, Crash, Restarts
  <2> QED
    BY <2>1, <1>3, WalkMoves, TypeParts DEF Moves
<1> QED
  BY <1>1, <1>2, <1>3

(* A call that begins has found what there is.                             *)
LEMMA StartPlaces ==
  ASSUME Bounds, TypeOK, NEW c \in Calls, Starts(c), Honest, Behind
  PROVE  CorePlace' /\ GeoPlace' /\ MarkPlace' /\ Honest' /\ Restored'
<1> USE DEF Restored
<1> USE DEF Begin, files, Goto, Return, TypeOK, UpdatePhases, GeoPhases, SwapPhases
<1>1. CASE Update(c)
  <2>1. CorePlace'
    BY <1>1 DEF CorePlace, Update, Cores
  <2>2. GeoPlace'
    BY <1>1 DEF GeoPlace, Update, Geodata, Missing
  <2>3. MarkPlace'
    BY <1>1 DEF MarkPlace, Update, Missing, Honest, Releases, None
  <2> QED
    BY <1>1, <2>1, <2>2, <2>3 DEF Honest, Update
<1>2. CASE Rollback(c)
  BY <1>2 DEF CorePlace, GeoPlace, MarkPlace, Honest, Rollback, Cores
<1>3. CASE UpdateGeodata(c)
  <2>1. CorePlace'
    BY <1>3 DEF CorePlace, UpdateGeodata, Cores
  <2>2. GeoPlace'
    BY <1>3 DEF GeoPlace, UpdateGeodata, Geodata
  <2>3. MarkPlace'
    BY <1>3 DEF MarkPlace, UpdateGeodata
  <2> QED
    BY <1>3, <2>1, <2>2, <2>3 DEF Honest, UpdateGeodata
<1> QED
  BY <1>1, <1>2, <1>3 DEF Starts

LEMMA Initially == ASSUME Bounds, Init PROVE IInv
<1> USE DEF Init, Bounds, Cores, Geodata, Content, Releases, None
<1>1. TypeOK
  <2>1. core \in [Cores -> Content] /\ geo \in [Geodata -> Content]
    OBVIOUS
  <2>2. found \in Snapshots
    BY <2>1 DEF Snapshots
  <2>3. pc \in [Calls -> Phases] /\ result \in [Calls -> Results]
    BY DEF Phases, Results
  <2>4. FilesOK
    BY <2>1 DEF FilesOK
  <2>5. cand \in [Calls -> Releases] /\ names \in [Calls -> SUBSET Geodata]
    OBVIOUS
  <2>6. WorkOK
    BY <2>5 DEF WorkOK
  <2>7. GhostsOK
    BY <2>2 DEF GhostsOK
  <2> QED
    BY <2>3, <2>4, <2>6, <2>7, TypeParts DEF PlaceOK
<1>2. pc[last] = "idle"
  OBVIOUS
<1>3. CorePlace /\ GeoPlace /\ MarkPlace /\ Honest /\ Restored
  BY <1>2 DEF CorePlace, GeoPlace, MarkPlace, Honest, Restored, UpdatePhases, GeoPhases, SwapPhases
<1> QED
  BY <1>1, <1>3 DEF IInv, Sole, Behind, Placed

(* The invariant is inductive.                                             *)
LEMMA Inductive == ASSUME Bounds, IInv, [Next]_vars PROVE IInv'
<1> USE DEF IInv
<1>1. Behind'
  BY BehindNext
<1>2. CASE UNCHANGED vars
  <2>1. TypeOK' /\ Sole'
    BY <1>2 DEF vars, TypeOK, Sole
  <2>2. CorePlace' = CorePlace /\ GeoPlace' = GeoPlace
    BY <1>2 DEF vars, CorePlace, GeoPlace
  <2>3. MarkPlace' = MarkPlace /\ Honest' = Honest /\ Restored' = Restored
    BY <1>2 DEF vars, MarkPlace, Honest, Restored
  <2> QED
    BY <1>1, <1>2, <2>1, <2>2, <2>3 DEF vars, Placed
<1>3. CASE Publish
  <2>1. TypeOK' /\ Sole'
    BY <1>3 DEF Publish, files, TypeOK, Sole, Releases, Bounds
  <2>2. CorePlace' = CorePlace /\ GeoPlace' = GeoPlace /\ Restored' = Restored
    BY <1>3 DEF Publish, files, CorePlace, GeoPlace, Restored
  <2>3. alone => MarkPlace' /\ Honest'
    BY <1>3 DEF Publish, files, Placed, MarkPlace, Honest, Behind, TypeOK, Releases, Content, None
  <2> QED
    BY <1>1, <1>3, <2>1, <2>2, <2>3 DEF Placed, Publish
<1>4. ASSUME NEW c \in Calls, Starts(c) PROVE IInv'
  <2>1. TypeOK'
    BY <1>4, StartTypes
  <2>2. Begin(c) /\ \E p : pc' = [pc EXCEPT ![c] = p]
    BY <1>4 DEF Starts, Update, Rollback, UpdateGeodata, Goto, Return
  <2>3. Sole'
    BY <2>2 DEF Sole, Begin, TypeOK
  <2>4. alone' => Honest
    BY <2>2 DEF Begin, Placed
  <2> QED
    BY <1>1, <1>4, <2>1, <2>3, <2>4, StartPlaces DEF Placed
<1>5. ASSUME NEW c \in Calls, Walks(c) PROVE IInv'
  <2>1. TypeOK'
    BY <1>5, TypeParts, WalkTypes, WalkMoves
       DEF Moves, ghosts, TypeOK, FilesOK, WorkOK, PlaceOK, GhostsOK
  <2>2. Moves(c)
    BY <1>5, TypeParts, WalkMoves
  <2>3. alone => c = last
    BY <2>2 DEF Moves, Sole
  <2>4. Sole'
    BY <2>2, <2>3 DEF Moves, Sole, ghosts, TypeOK
  <2>5. Placed'
    BY <1>5, <2>2, <2>3, CoreWalk, GeoWalk, MarkWalk, RestoredWalk DEF Placed, Moves, ghosts
  <2> QED
    BY <1>1, <2>1, <2>4, <2>5
<1> QED
  BY <1>2, <1>3, <1>4, <1>5 DEF Next, Starts, Walks

LEMMA Invariance == ASSUME Bounds PROVE Spec => []IInv
  BY Initially, Inductive, PTL DEF Spec

(* Type correctness of Update, Rollback and UpdateGeodata.                 *)
THEOREM TypeCorrect == ASSUME Bounds PROVE Spec => []TypeOK
  BY Invariance, PTL DEF IInv

(* The core a call found is under one of the three names until the next    *)
(* call begins, whatever fails or dies.                                    *)
THEOREM CoreSurvives == ASSUME Bounds PROVE Spec => []Survives
<1>1. IInv => Survives
  BY Found DEF IInv, Placed, Survives
<1> QED
  BY <1>1, Invariance, PTL

(* A call that reports "was rolled back" has left core and geodata as it   *)
(* found them, unless an error while undoing was ignored.                  *)
THEOREM LeftAsFound == ASSUME Bounds PROVE Spec => []AsFound
<1>1. IInv => AsFound
  BY DEF IInv, Placed, AsFound, Restored
<1> QED
  BY <1>1, Invariance, PTL

(* The marker never names a release that a geodata file is not of.         *)
THEOREM MarkerTrue == ASSUME Bounds PROVE Spec => []GeoTrue
<1>1. IInv => GeoTrue
  BY DEF IInv, Placed, GeoTrue, Honest
<1> QED
  BY <1>1, Invariance, PTL
=============================================================================
