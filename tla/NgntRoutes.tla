----------------------------- MODULE NgntRoutes -----------------------------
(***************************************************************************)
(* The request handlers of the ngnt group (macros/builtin/httpNgnt.C) and  *)
(* of httpNgntBase.C, as functions of the server's state s:                *)
(*   tree       the file of the object "ngnt", NoFile if there is none     *)
(*   nav        the object "navigator": the file of the tree it was built  *)
(*              from, and whether that tree has been deleted since         *)
(*   workspace  for each key the file its schema describes, NoFile if the  *)
(*              key is absent; the schema of "map" describes no file       *)
(*   point      length of the state's point, the bins selected so far      *)
(*   history    the entries of NGnWorkspace, see NGnHttpServer             *)
(* What a handler answers is its result: the new state, and whether it set *)
(* "result" to "success".  ok is the outcome of the ROOT calls it depends  *)
(* on: opening a file, reshaping, projecting, finding a navigator's child. *)
(* Plots, pads, click actions and defaults of schemas are left out.        *)
(***************************************************************************)
EXTENDS Naturals, Sequences

CONSTANTS File,      \* names of NGnTree files
          NoFile,
          nLevels    \* levels of a navigator

ASSUME RoutesAssumption == NoFile \notin File /\ nLevels \in Nat \ {0}

Keys == {"open", "reshape", "map", "spectra"}
NoNav == [file |-> NoFile, stale |-> FALSE]
Plain == CHOOSE f \in File : TRUE  \* the schema of "map" is always the same

Answer(s, ok) == [s |-> s, ok |-> ok]
Opened(s) == s.tree # NoFile
Navigable(s) == Opened(s) /\ s.nav # NoNav

\* A schema is only built when its key is absent.
Schema(s, key, file) ==
  [s EXCEPT !.workspace[key] = IF @ = NoFile THEN file ELSE @]

\* RemoveInputObject("ngnt"): the navigator keeps its pointer to the tree.
CloseTree(s) ==
  [s EXCEPT !.tree = NoFile, !.nav.stale = @ \/ Navigable(s)]

Open_Post(s, file, ok) ==
  CASE file = NoFile -> Answer(s, FALSE)  \* "Missing 'file' parameter"
    [] file # NoFile /\ file = s.tree -> Answer(s, TRUE)
    [] OTHER ->
         LET t == CloseTree(s)
         IN IF ~ok THEN Answer(t, FALSE)
            ELSE Answer(Schema([t EXCEPT !.tree = file, !.workspace["open"] = file],
                               "reshape", file), TRUE)

Open_Delete(s) == Answer(CloseTree(s), TRUE)

Reshape_Post(s, ok) ==
  IF ~Opened(s) THEN Answer(s, FALSE)
  ELSE LET t == [s EXCEPT !.nav = NoNav]
       IN IF ~ok THEN Answer(t, FALSE)
          ELSE Answer(Schema(Schema([t EXCEPT !.nav = [file |-> s.tree, stale |-> FALSE]],
                                    "reshape", s.tree), "map", Plain), TRUE)

Reshape_Delete(s) ==
  IF Opened(s) THEN Answer([s EXCEPT !.nav = NoNav], TRUE) ELSE Answer(s, FALSE)

Map_Post(s, ok) ==
  IF ~(Navigable(s) /\ ok) THEN Answer(s, FALSE)
  ELSE Answer(Schema(Schema(s, "map", Plain), "spectra", s.tree), TRUE)

\* level cuts the point, which is kept whole without it; bin is appended.
Map_Patch(s, level, bin, ok) ==
  IF ~Navigable(s) THEN Answer(s, FALSE)
  ELSE Answer([s EXCEPT !.point = (IF level = 0 THEN @ ELSE level - 1) + bin], ok)

\* ok: some parameter is known, and the selected child exists.
Spectra_Post(s, ok) ==
  IF ~Navigable(s) THEN Answer(s, FALSE)
  ELSE LET t == Schema(s, "spectra", s.tree)
       IN IF ok THEN Answer(t, s.point >= nLevels - 1) ELSE Answer(t, FALSE)

Spectra_Patch(s, level, ok) ==
  IF ~Navigable(s) \/ level = 0 THEN Answer(s, FALSE)
  ELSE Answer([s EXCEPT !.point = (IF @ > level - 1 THEN level - 1 ELSE @) + 1], ok)

\* DELETE of map and spectra changes nothing; point does not know it.
DeleteHandler(s, name) ==
  CASE name = "ngnt/open" -> Open_Delete(s)
    [] name = "ngnt/reshape" -> Reshape_Delete(s)
    [] name \in {"ngnt/map", "ngnt/spectra"} -> Answer(s, Navigable(s))
    [] name = "ngnt/point" -> Answer(s, FALSE)
    [] name = "health" -> Answer(s, TRUE)

PostHandler(s, name, file, ok) ==
  CASE name = "ngnt/open" -> Open_Post(s, file, ok)
    [] name = "ngnt/reshape" -> Reshape_Post(s, ok)
    [] name = "ngnt/map" -> Map_Post(s, ok)
    [] name = "ngnt/spectra" -> Spectra_Post(s, ok)
    [] name = "ngnt/point" -> Answer(s, Navigable(s))
    [] name = "health" -> Answer(s, TRUE)

PatchHandler(s, name, level, bin, ok) ==
  CASE name = "ngnt/map" -> Map_Patch(s, level, bin, ok)
    [] name = "ngnt/spectra" -> Spectra_Patch(s, level, ok)
    [] OTHER -> Answer(s, FALSE)

Routes == {"ngnt/open", "ngnt/reshape", "ngnt/map", "ngnt/spectra", "ngnt/point", "health"}
=============================================================================
