--------------------------- MODULE ModelArtifact ----------------------------
(***************************************************************************)
(* The fitted model as a file: `cscan weekly` and `cscan predict` fit one  *)
(* and save it on the box, `publish` copies its bytes to a row of serving, *)
(* `fetch` brings them to a machine, and the nightly and the Pi's session  *)
(* wrapper score with what they `load`. A file is written in place, so a   *)
(* reader may meet a torn one, and a kill leaves one. Features, weights    *)
(* and calibration are in the record of a fit no more than `load` and the  *)
(* scoring ask of them. A refit and a scoring run share the box's file.    *)
(***************************************************************************)
EXTENDS Integers, FiniteSets

CONSTANTS
  Releases,    \* what may be deployed: the config, and the layout of an artifact
               \* (its version and IMPUTE_COLS)
  First,       \* the release both machines start with
  MaxFits,     \* bound on the refits
  MaxScorings, \* bound on the scoring runs
  MaxMishaps   \* bound on deployments, lost files, kills and failing writes

ArtifactAssumption ==
  /\ First \in Releases
  /\ \A r \in Releases : DOMAIN r = {"config", "layout"}
  /\ MaxFits \in Nat /\ MaxScorings \in Nat /\ MaxMishaps \in Nat

VARIABLES
  release,    \* what is deployed, per machine
  file,       \* data/model/predictor.npz, per machine
  published,  \* serving's model_artifact: the payload of a config
  refit,      \* the run that fits, on the box
  scoring,    \* the run that scores from a file, per machine
  wrote,      \* what was scored last from a file: the fit, the release, and what the
              \* run had seen published
  fits, runs, mishaps

vars == <<release, file, published, refit, scoring, wrote, fits, runs, mishaps>>

Machines == {"box", "pi"}
Configs == {r.config : r \in Releases}
Absent == [no |-> 0, state |-> "absent"]
Torn == [no |-> 0, state |-> "torn"]
Fit(no, r, enough) == [no |-> no, state |-> "whole", release |-> r, enough |-> enough]

NoRefit == [at |-> "idle", kind |-> "none", release |-> First, fit |-> Absent, raw |-> Absent]
NoScoring == [at |-> "idle", release |-> First, payload |-> Absent, missed |-> FALSE]

-----------------------------------------------------------------------------
(* The refit: run_predict without from_artifact, then the publish. *)

\* weekly publishes, `predict` by hand does so with --publish; a fit by hand may
\* be of another config than the deployed one, an ablation arm. Whether its
\* validate rows are enough is asked after the save.
StartRefit(kind, r, enough) ==
  /\ refit = NoRefit /\ fits < MaxFits
  /\ kind = "weekly" => r = release["box"]
  /\ r.layout = release["box"].layout
  /\ refit' = [NoRefit EXCEPT !.at = "save", !.kind = kind, !.release = r,
                              !.fit = Fit(fits + 1, r, enough)]
  /\ fits' = fits + 1
  /\ UNCHANGED <<release, file, published, scoring, wrote, runs, mishaps>>

\* artifact.save: np.savez_compressed truncates the file it is given.
SaveOpens ==
  /\ refit.at = "save"
  /\ file' = [file EXCEPT !["box"] = Torn]
  /\ refit' = [refit EXCEPT !.at = "saving"]
  /\ UNCHANGED <<release, published, scoring, wrote, fits, runs, mishaps>>

\* Then it scores with the fit in memory. A thin fit ends the command
\* (MIN_CALIBRATION_ROWS), and --publish wants the file written.
Scored(saved) ==
  IF refit.fit.enough /\ (refit.kind = "weekly" \/ (refit.kind = "publish" /\ saved))
    THEN [refit EXCEPT !.at = "publish"] ELSE NoRefit

SaveEnds ==
  /\ refit.at = "saving"
  /\ file' = [file EXCEPT !["box"] = refit.fit]
  /\ refit' = Scored(TRUE)
  /\ UNCHANGED <<release, published, scoring, wrote, fits, runs, mishaps>>

\* An OSError, before the file was opened or in the middle of it, is a note.
SaveFails ==
  /\ refit.at \in {"save", "saving"} /\ mishaps < MaxMishaps
  /\ refit' = Scored(FALSE)
  /\ mishaps' = mishaps + 1
  /\ UNCHANGED <<release, file, published, scoring, wrote, fits, runs>>

\* publish reads the bytes first and the metadata from the file again.
PublishReads ==
  /\ refit.at = "publish"
  /\ refit' = IF file["box"].state = "absent" THEN NoRefit
              ELSE [refit EXCEPT !.raw = file["box"], !.at = "upload"]
  /\ UNCHANGED <<release, file, published, scoring, wrote, fits, runs, mishaps>>

\* A file that does not open, one of another config or a serving store out of
\* reach publishes nothing.
PublishWrites ==
  /\ refit.at = "upload"
  /\ LET meta == file["box"]
         ok == meta.state = "whole" /\ meta.release.config = refit.release.config
     IN \/ ok /\ published' = [published EXCEPT ![meta.release.config] = refit.raw]
        \/ UNCHANGED published
  /\ refit' = NoRefit
  /\ UNCHANGED <<release, file, scoring, wrote, fits, runs, mishaps>>

-----------------------------------------------------------------------------
(* Scoring from a file: the nightly, `predict --from-artifact`, `--serving`. *)

\* The Pi only ever runs --serving.
StartScoring(m, kind) ==
  /\ scoring[m] = NoScoring /\ runs < MaxScorings
  /\ m = "pi" => kind = "serving"
  /\ scoring' = [scoring EXCEPT ![m] =
       [NoScoring EXCEPT !.at = IF kind = "serving" THEN "fetch" ELSE "look",
                         !.release = release[m]]]
  /\ runs' = runs + 1
  /\ UNCHANGED <<release, file, published, refit, wrote, fits, mishaps>>

\* fetch: the row's bytes are written unless the file holds them.
Fetched(m) ==
  LET payload == published[scoring[m].release.config]
  IN [scoring[m] EXCEPT
        !.payload = payload,
        !.at = IF payload = Absent \/ file[m] = payload THEN "load" ELSE "write"]

\* --serving fetches always.
Fetch(m) ==
  /\ scoring[m].at = "fetch"
  /\ scoring' = [scoring EXCEPT ![m] =
       [Fetched(m) EXCEPT !.at = IF @ = "load" THEN "look" ELSE @]]
  /\ UNCHANGED <<release, file, published, refit, wrote, fits, runs, mishaps>>

\* _fetch_if_absent: a failure is left to `load`.
FetchIfAbsent(m) ==
  /\ scoring[m].at = "look"
  /\ \/ /\ file[m] # Absent
        /\ scoring' = [scoring EXCEPT ![m].at = "load"]
     \/ /\ file[m] = Absent
        /\ scoring' = [scoring EXCEPT ![m] = Fetched(m)]
     \/ /\ file[m] = Absent
        /\ scoring' = [scoring EXCEPT ![m].at = "load", ![m].missed = TRUE]
  /\ UNCHANGED <<release, file, published, refit, wrote, fits, runs, mishaps>>

WriteOpens(m) ==
  /\ scoring[m].at = "write"
  /\ file' = [file EXCEPT ![m] = Torn]
  /\ scoring' = [scoring EXCEPT ![m].at = "writing"]
  /\ UNCHANGED <<release, published, refit, wrote, fits, runs, mishaps>>

WriteEnds(m) ==
  /\ scoring[m].at = "writing"
  /\ file' = [file EXCEPT ![m] = scoring[m].payload]
  /\ scoring' = [scoring EXCEPT ![m].at = "load"]
  /\ UNCHANGED <<release, published, refit, wrote, fits, runs, mishaps>>

\* Mutant: the layout is not asked for.
LoadableAnyLayout(a, r) == a.state = "whole" /\ a.release.config = r.config

\* load raises StaleArtifact for a file that is absent, of another layout or of
\* another config, and whatever np.load raises for a torn one. The fingerprint
\* is of the file's own columns and this code's IMPUTE_COLS.
Loadable(a, r) ==
  /\ a.state = "whole"
  /\ a.release.config = r.config
  /\ a.release.layout = r.layout

\* The rows are scored with what was loaded; a thin fit is refused again.
LoadAndScore(m) ==
  /\ scoring[m].at = "load"
  /\ wrote' = IF Loadable(file[m], scoring[m].release) /\ file[m].enough
                THEN {[by |-> m, fit |-> file[m], release |-> scoring[m].release,
                       seen |-> scoring[m].payload]}
                ELSE wrote
  /\ scoring' = [scoring EXCEPT ![m] = NoScoring]
  /\ UNCHANGED <<release, file, published, refit, fits, runs, mishaps>>

-----------------------------------------------------------------------------

\* A process that runs keeps the code it started with.
Deploy(m, r) ==
  /\ r # release[m] /\ mishaps < MaxMishaps
  /\ release' = [release EXCEPT ![m] = r]
  /\ mishaps' = mishaps + 1
  /\ UNCHANGED <<file, published, refit, scoring, wrote, fits, runs>>

\* A machine set up anew: a dump carries no files.
LoseFile(m) ==
  /\ file[m] # Absent /\ mishaps < MaxMishaps
  /\ scoring[m] = NoScoring /\ (m = "box" => refit = NoRefit)
  /\ file' = [file EXCEPT ![m] = Absent]
  /\ mishaps' = mishaps + 1
  /\ UNCHANGED <<release, published, refit, scoring, wrote, fits, runs>>

Kill ==
  /\ mishaps < MaxMishaps
  /\ \/ refit # NoRefit /\ refit' = NoRefit /\ UNCHANGED scoring
     \/ \E m \in Machines :
          /\ scoring[m] # NoScoring /\ scoring' = [scoring EXCEPT ![m] = NoScoring]
          /\ UNCHANGED refit
  /\ mishaps' = mishaps + 1
  /\ UNCHANGED <<release, file, published, wrote, fits, runs>>

Init ==
  /\ release = [m \in Machines |-> First]
  /\ file = [m \in Machines |-> Absent]
  /\ published = [c \in Configs |-> Absent]
  /\ refit = NoRefit /\ scoring = [m \in Machines |-> NoScoring]
  /\ wrote = {} /\ fits = 0 /\ runs = 0 /\ mishaps = 0

Next ==
  \/ \E kind \in {"weekly", "hand", "publish"}, r \in Releases, enough \in BOOLEAN :
       StartRefit(kind, r, enough)
  \/ SaveOpens \/ SaveEnds \/ SaveFails
  \/ PublishReads \/ PublishWrites \/ Kill
  \/ \E m \in Machines :
       \/ \E kind \in {"nightly", "serving"} : StartScoring(m, kind)
       \/ Fetch(m) \/ FetchIfAbsent(m) \/ WriteOpens(m) \/ WriteEnds(m)
       \/ LoadAndScore(m) \/ LoseFile(m)
       \/ \E r \in Releases : Deploy(m, r)

Spec == Init /\ [][Next]_vars

-----------------------------------------------------------------------------

\* Whatever was deployed, torn, fetched or published in between, a row is scored
\* by a fit of the config it is stored under, that its scorer reads as the fitter
\* wrote it, and that was calibrated on enough rows (load, run_predict).
OnlyTrustedFitsScore ==
  \A w \in wrote :
    /\ w.fit.release.config = w.release.config
    /\ w.fit.release.layout = w.release.layout
    /\ w.fit.enough

\* The Pi scores with what was published when its run asked, never with the week
\* before (fetch compares the bytes). Where nothing is published under the config
\* that was deployed on it, it makes do with a file that the row of another one
\* brought.
PiFollowsPublished ==
  \A w \in wrote : w.by = "pi" => w.fit = w.seen \/ (w.seen = Absent /\ mishaps > 0)

\* A row is never taken away, and a refit that uploads its own fit replaces an
\* older one (publish). The bytes may be another run's: a refit that could not save,
\* or whose file a scoring run on the box wrote over, may bring an older fit back.
PublishedMovesForward ==
  \A c \in Configs :
    /\ published[c] # Absent => published'[c] # Absent
    /\ published'[c] # published[c] /\ published'[c] = refit.fit
         => published[c].no < published'[c].no

\* The row never describes bytes other than the ones it carries (publish). It does
\* not hold: the file is read twice, and a refit by hand may come between.
PublishedIsItsOwn ==
  \A c \in Configs :
    published[c] # Absent => published[c].state = "whole" /\ published[c].release.config = c

\* A run that finds no artifact had none to fetch, or could not reach serving
\* (_fetch_if_absent).
AbsentOnlyIfUnpublished ==
  \A m \in Machines :
    scoring[m].at = "load" /\ file[m] = Absent
      => scoring[m].missed \/ scoring[m].payload = Absent

\* The last week's artifact keeps serving when a refit fails (weekly). It does not
\* hold: the file of a thin fit is written before it is refused, and a publish
\* by another run may carry it.
PublishedIsEnough == \A c \in Configs : published[c].state = "whole" => published[c].enough
=============================================================================
