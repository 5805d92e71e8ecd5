------------------------ MODULE ModelArtifact_proofs ------------------------
(***************************************************************************)
(* Machine-checked proofs about what the box publishes to serving.         *)
(* ModelArtifact, for any releases and any number of refits, scoring runs  *)
(* and mishaps: what a row may be scored by. And ServingCopy, for any      *)
(* tickers, generations, overlaps and number of days: what a sync that     *)
(* ends ok leaves there. And TrainingWindows, for any calendar, windows    *)
(* and folds: what a fit may learn from. These two are instances with      *)
(* their own state; the number of days is shared.                          *)
(***************************************************************************)
EXTENDS ModelArtifact, FiniteSetTheorems, WellFoundedInduction, TLAPS

CONSTANTS Tickers, Generations, Live, FirstDay, LastDay, Overlap, ModOverlap, MaxLag, CopyKinds, MaxEvents
VARIABLES today, bars, chart, events, copy, stamp, open, setting, pin, served, synced, sync, behind,
          passed, happened

C == INSTANCE ServingCopy WITH First <- Live

CONSTANTS Shifts, Holidays, Horizon, ForwardLog, ValidateDays, TrainEmbargo, FoldEmbargo, YearDays, MinTrainYears,
          Lookback, Odd, OddDays, MaxOdd, MaxSkips
VARIABLES shift, labelEnd, date, fired, model, predicted, skips

W == INSTANCE TrainingWindows WITH today <- date

-----------------------------------------------------------------------------
(* The inductive invariant.                                                *)

Fits == [no : Nat \ {0}, state : {"whole"}, release : Releases, enough : BOOLEAN]
Artifacts == {Absent, Torn} \cup Fits

Stages == {"idle", "fetch", "look", "write", "writing", "load"}
Refits ==
  [at : {"idle", "save", "saving", "publish", "upload"},
   kind : {"none", "weekly", "hand", "publish"}, release : Releases, fit : Artifacts, raw : Artifacts]
Scorings == [at : Stages, release : Releases, payload : Artifacts, missed : BOOLEAN]

TypeOK ==
  /\ release \in [Machines -> Releases]
  /\ file \in [Machines -> Artifacts]
  /\ published \in [Configs -> Artifacts]
  /\ refit \in Refits
  /\ scoring \in [Machines -> Scorings]
  /\ fits \in Nat /\ mishaps \in Nat

\* No fit is anywhere before it was made.
Numbers ==
  /\ \A c \in Configs : published[c].no <= fits
  /\ \A m \in Machines : file[m].no <= fits /\ scoring[m].payload.no <= fits
  /\ refit.raw.no <= fits

\* While a refit runs, its own fit is newer than every published one.
RefitIsNewest ==
  refit.at # "idle" =>
    /\ refit.fit \in Fits /\ refit.fit.no <= fits
    /\ \A c \in Configs : published[c].no < refit.fit.no
    /\ refit.at = "upload" => refit.raw # Absent

\* What a scoring run r knows of its file a.
RunKnows(r, a) ==
  /\ r.at \in {"write", "writing"} => r.payload # Absent
  /\ r.at = "load" /\ a = Absent => r.missed \/ r.payload = Absent

\* A run on the Pi has fetched. Until the first mishap its file is of the one
\* release there is, so that something is published under it.
PiKnows(r, a) ==
  /\ r.at \in {"look", "load"} => r.payload = Absent \/ a = r.payload
  /\ mishaps = 0 =>
       /\ r.release = First
       /\ a # Absent \/ r.payload # Absent => published[First.config] # Absent
       /\ r.at \in {"look", "load"} /\ r.payload = Absent => a = Absent

Runs ==
  /\ \A m \in Machines : RunKnows(scoring[m], file[m])
  /\ PiKnows(scoring["pi"], file["pi"])
  /\ mishaps = 0 => release["pi"] = First

CoreInv == TypeOK /\ Numbers /\ RefitIsNewest /\ Runs

ArtifactInv == CoreInv /\ OnlyTrustedFitsScore /\ PiFollowsPublished

-----------------------------------------------------------------------------
(* Lemmas about artifacts and records.                                     *)

LEMMA ArtifactFacts ==
  /\ Absent \in Artifacts /\ Torn \in Artifacts /\ Absent # Torn
  /\ Absent.no = 0 /\ Torn.no = 0
  /\ \A a \in Artifacts : a.no \in Nat /\ (a.state = "whole" => a \in Fits)
  /\ \A a \in Fits : a \in Artifacts /\ a # Absent /\ a.state = "whole" /\ a.release \in Releases
<1>1. Absent.state = "absent" /\ Torn.state = "torn" /\ Absent.no = 0 /\ Torn.no = 0
  BY DEF Absent, Torn
<1>2. \A a \in Fits : a.state = "whole" /\ a.no \in Nat /\ a.release \in Releases
  BY DEF Fits
<1> QED BY <1>1, <1>2 DEF Artifacts

LEMMA IdleFacts ==
  ASSUME ArtifactAssumption
  PROVE  /\ NoRefit \in Refits /\ NoRefit.at = "idle" /\ NoRefit.raw = Absent
         /\ NoScoring \in Scorings /\ NoScoring.at = "idle" /\ NoScoring.payload = Absent
         /\ NoScoring.release = First /\ NoScoring.missed = FALSE
BY ArtifactFacts DEF ArtifactAssumption, NoRefit, NoScoring, Refits, Scorings, Stages

\* A step of one machine's scoring run and of its file.
LEMMA ScoringStep ==
  ASSUME CoreInv, NEW m \in Machines, NEW r \in Scorings, NEW a \in Artifacts,
         scoring' = [scoring EXCEPT ![m] = r], file' = [file EXCEPT ![m] = a],
         UNCHANGED <<release, published, refit, fits, mishaps>>,
         r.payload.no <= fits, a.no <= fits, RunKnows(r, a), m = "pi" => PiKnows(r, a)
  PROVE  CoreInv'
<1>1. TypeOK'
  BY DEF CoreInv, TypeOK
<1>2. /\ scoring'[m] = r /\ file'[m] = a
      /\ \A k \in Machines : k # m => scoring'[k] = scoring[k] /\ file'[k] = file[k]
  BY DEF CoreInv, TypeOK
<1>3. Numbers'
  BY <1>2 DEF CoreInv, Numbers
<1>4. RefitIsNewest'
  BY DEF CoreInv, RefitIsNewest
<1>5. Runs'
  BY <1>2 DEF CoreInv, Runs, RunKnows, PiKnows, Machines
<1> QED BY <1>1, <1>3, <1>4, <1>5 DEF CoreInv

\* What was scored stays scored by what it was scored by.
LEMMA WrittenStays ==
  ASSUME TypeOK, OnlyTrustedFitsScore, PiFollowsPublished, wrote' = wrote,
         mishaps' = mishaps \/ mishaps' = mishaps + 1
  PROVE  OnlyTrustedFitsScore' /\ PiFollowsPublished'
<1>1. mishaps > 0 => mishaps' > 0
  BY DEF TypeOK
<1> QED BY <1>1 DEF OnlyTrustedFitsScore, PiFollowsPublished

-----------------------------------------------------------------------------
(* The refit.                                                              *)

\* A step of the refit that leaves the files, what is published and the runs alone.
LEMMA RefitStep ==
  ASSUME CoreInv, refit' \in Refits, fits' \in Nat, fits <= fits',
         UNCHANGED <<release, file, published, scoring>>,
         mishaps' = mishaps \/ mishaps' = mishaps + 1,
         refit'.raw.no <= fits', RefitIsNewest'
  PROVE  CoreInv'
<1>1. TypeOK'
  BY DEF CoreInv, TypeOK
<1>2. Numbers'
  <2>1. /\ \A c \in Configs : published[c].no \in Nat
        /\ \A k \in Machines : file[k].no \in Nat /\ scoring[k].payload.no \in Nat
        /\ fits \in Nat
    BY ArtifactFacts DEF CoreInv, TypeOK, Scorings
  <2> QED BY <2>1 DEF CoreInv, Numbers
<1>3. mishaps' = 0 => mishaps = 0
  BY DEF CoreInv, TypeOK
<1>4. Runs'
  BY <1>3 DEF CoreInv, Runs, RunKnows, PiKnows
<1> QED BY <1>1, <1>2, <1>4 DEF CoreInv

LEMMA StartRefitKeeps ==
  ASSUME CoreInv, NEW kind \in {"weekly", "hand", "publish"}, NEW r \in Releases,
         NEW enough \in BOOLEAN, ArtifactAssumption, StartRefit(kind, r, enough)
  PROVE  CoreInv'
<1> DEFINE new == Fit(fits + 1, r, enough)
<1>1. fits \in Nat
  BY DEF CoreInv, TypeOK
<1>2. new \in Fits /\ new \in Artifacts /\ new.no = fits + 1
  BY <1>1, ArtifactFacts DEF Fit, Fits, Artifacts
<1> HIDE DEF new
<1>3. /\ refit' = [NoRefit EXCEPT !.at = "save", !.kind = kind, !.release = r, !.fit = new]
      /\ fits' = fits + 1 /\ UNCHANGED <<release, file, published, scoring, mishaps>>
  BY DEF StartRefit, new
<1>4. refit' \in Refits /\ refit'.at = "save" /\ refit'.fit = new /\ refit'.raw = Absent
  BY <1>2, <1>3, IdleFacts DEF Refits
<1>5. \A c \in Configs : published[c].no \in Nat /\ published[c].no <= fits
  BY ArtifactFacts DEF CoreInv, TypeOK, Numbers
<1>6. RefitIsNewest'
  BY <1>1, <1>2, <1>3, <1>4, <1>5 DEF RefitIsNewest
<1> QED BY <1>1, <1>3, <1>4, <1>6, ArtifactFacts, RefitStep

\* The file that a refit leaves is torn or its own.
LEMMA SaveKeeps ==
  ASSUME CoreInv, NEW a \in Artifacts, a # Absent, a.no <= fits,
         file' = [file EXCEPT !["box"] = a], refit' \in Refits, refit'.raw.no <= fits,
         UNCHANGED <<release, published, scoring, fits, mishaps>>, RefitIsNewest'
  PROVE  CoreInv'
<1>1. TypeOK'
  BY DEF CoreInv, TypeOK
<1>2. file'["box"] = a /\ file'["pi"] = file["pi"]
  BY DEF CoreInv, TypeOK, Machines
<1>3. Numbers'
  BY <1>2 DEF CoreInv, Numbers, Machines
<1>4. Runs'
  BY <1>2 DEF CoreInv, Runs, RunKnows, PiKnows, Machines
<1> QED BY <1>1, <1>3, <1>4 DEF CoreInv

\* After a save, or without one, the refit goes on to publish or ends.
LEMMA ScoredFacts ==
  ASSUME ArtifactAssumption, CoreInv, refit.at # "idle", NEW saved
  PROVE  /\ Scored(saved) \in Refits /\ Scored(saved).raw.no <= fits
         /\ Scored(saved).at # "idle" => Scored(saved).fit = refit.fit /\ Scored(saved).at = "publish"
<1>1. refit \in Refits /\ refit.raw.no <= fits /\ fits \in Nat
  BY DEF CoreInv, TypeOK, Numbers
<1>2. CASE Scored(saved) = NoRefit
  BY <1>1, <1>2, IdleFacts, ArtifactFacts
<1>3. CASE Scored(saved) = [refit EXCEPT !.at = "publish"]
  BY <1>1, <1>3 DEF Refits
<1> QED BY <1>2, <1>3 DEF Scored

LEMMA SavingKeeps ==
  ASSUME ArtifactAssumption, CoreInv, SaveOpens \/ SaveEnds \/ SaveFails
  PROVE  CoreInv'
<1>1. refit \in Refits /\ refit.raw.no <= fits /\ fits \in Nat
  BY DEF CoreInv, TypeOK, Numbers
<1>2. refit.at # "idle" =>
        /\ refit.fit \in Fits /\ refit.fit.no <= fits
        /\ \A c \in Configs : published[c].no < refit.fit.no
  BY DEF CoreInv, RefitIsNewest
<1>3. CASE SaveOpens
  <2>1. /\ refit.at = "save" /\ refit' = [refit EXCEPT !.at = "saving"]
        /\ file' = [file EXCEPT !["box"] = Torn]
        /\ UNCHANGED <<release, published, scoring, fits, mishaps>>
    BY <1>3 DEF SaveOpens
  <2>2. refit' \in Refits /\ refit'.at = "saving" /\ refit'.fit = refit.fit /\ refit'.raw = refit.raw
    BY <1>1, <2>1 DEF Refits
  <2>3. RefitIsNewest'
    BY <1>2, <2>1, <2>2 DEF RefitIsNewest
  <2>4. Torn \in Artifacts /\ Torn # Absent /\ Torn.no <= fits
    BY <1>1, ArtifactFacts
  <2> QED BY <1>1, <2>1, <2>2, <2>3, <2>4, SaveKeeps
<1>4. CASE SaveEnds
  <2>1. /\ refit.at = "saving" /\ refit' = Scored(TRUE)
        /\ file' = [file EXCEPT !["box"] = refit.fit]
        /\ UNCHANGED <<release, published, scoring, fits, mishaps>>
    BY <1>4 DEF SaveEnds
  <2>2. RefitIsNewest'
    BY <1>2, <2>1, ScoredFacts DEF RefitIsNewest
  <2> QED BY <1>2, <2>1, <2>2, ArtifactFacts, ScoredFacts, SaveKeeps
<1>5. CASE SaveFails
  <2>1. /\ refit.at # "idle" /\ refit' = Scored(FALSE) /\ mishaps' = mishaps + 1
        /\ UNCHANGED <<release, file, published, scoring, fits>>
    BY <1>5 DEF SaveFails
  <2>2. RefitIsNewest'
    BY <1>2, <2>1, ScoredFacts DEF RefitIsNewest
  <2>3. Scored(FALSE) \in Refits /\ Scored(FALSE).raw.no <= fits
    BY <2>1, ScoredFacts
  <2>4. refit' \in Refits /\ refit'.raw.no <= fits
    BY <2>1, <2>3, Zenon
  <2>5. fits' = fits /\ fits' \in Nat /\ fits <= fits'
    BY <1>1, <2>1
  <2> QED BY <2>1, <2>2, <2>4, <2>5, RefitStep
<1> QED BY <1>3, <1>4, <1>5

LEMMA PublishReadsKeeps ==
  ASSUME ArtifactAssumption, CoreInv, PublishReads
  PROVE  CoreInv'
<1>1. /\ refit.at = "publish"
      /\ UNCHANGED <<release, file, published, scoring, fits, mishaps>>
  BY DEF PublishReads
<1>2. /\ refit \in Refits /\ fits \in Nat /\ refit.fit \in Fits /\ refit.fit.no <= fits
      /\ \A c \in Configs : published[c].no < refit.fit.no
  BY <1>1 DEF CoreInv, TypeOK, RefitIsNewest
<1>3. file["box"] \in Artifacts /\ file["box"].no <= fits
  BY DEF CoreInv, TypeOK, Numbers, Machines
<1>4. CASE file["box"].state = "absent"
  <2>1. refit' = NoRefit
    BY <1>4 DEF PublishReads
  <2>2. RefitIsNewest'
    BY <2>1, IdleFacts DEF RefitIsNewest
  <2> QED BY <1>1, <1>2, <2>1, <2>2, IdleFacts, ArtifactFacts, RefitStep
<1>5. CASE file["box"].state # "absent"
  <2>1. refit' = [refit EXCEPT !.raw = file["box"], !.at = "upload"]
    BY <1>5 DEF PublishReads
  <2>2. /\ refit' \in Refits /\ refit'.at = "upload" /\ refit'.fit = refit.fit
        /\ refit'.raw = file["box"]
    BY <1>2, <1>3, <2>1 DEF Refits
  <2>3. file["box"] # Absent
    BY <1>5 DEF Absent
  <2>4. RefitIsNewest'
    BY <1>1, <1>2, <2>2, <2>3 DEF RefitIsNewest
  <2> QED BY <1>1, <1>2, <1>3, <2>2, <2>4, RefitStep
<1> QED BY <1>4, <1>5

\* What the upload writes into a row, or that it writes none.
LEMMA PublishWritesEffect ==
  ASSUME ArtifactAssumption, CoreInv, PublishWrites
  PROVE  /\ refit' = NoRefit /\ UNCHANGED <<release, file, scoring, wrote, fits, mishaps>>
         /\ refit.raw \in Artifacts /\ refit.raw # Absent /\ refit.raw.no <= fits
         /\ published' \in [Configs -> Artifacts]
         /\ \A c \in Configs : published'[c] = published[c] \/ published'[c] = refit.raw
<1>1. /\ refit.at = "upload" /\ refit' = NoRefit
      /\ UNCHANGED <<release, file, scoring, wrote, fits, mishaps>>
      /\ \/ \E c : published' = [published EXCEPT ![c] = refit.raw]
         \/ UNCHANGED published
  BY DEF PublishWrites
<1>2. /\ refit.raw \in Artifacts /\ refit.raw.no <= fits
      /\ published \in [Configs -> Artifacts]
  BY DEF CoreInv, TypeOK, Refits, Numbers
<1>3. refit.raw # Absent
  BY <1>1 DEF CoreInv, RefitIsNewest
<1> QED BY <1>1, <1>2, <1>3

LEMMA PublishWritesKeeps ==
  ASSUME ArtifactAssumption, CoreInv, PublishWrites
  PROVE  CoreInv'
<1>1. TypeOK'
  BY PublishWritesEffect, IdleFacts DEF CoreInv, TypeOK
<1>2. Numbers'
  <2>1. fits \in Nat
    BY DEF CoreInv, TypeOK
  <2> QED BY <2>1, PublishWritesEffect, IdleFacts, ArtifactFacts DEF CoreInv, Numbers
<1>3. RefitIsNewest'
  BY PublishWritesEffect, IdleFacts DEF RefitIsNewest
<1>4. Runs'
  <2>1. First.config \in Configs
    BY DEF Configs, ArtifactAssumption
  <2>2. published[First.config] # Absent => published'[First.config] # Absent
    BY <2>1, PublishWritesEffect
  <2> QED BY <2>2, PublishWritesEffect DEF CoreInv, Runs, RunKnows, PiKnows
<1> QED BY <1>1, <1>2, <1>3, <1>4 DEF CoreInv

-----------------------------------------------------------------------------
(* A scoring run.                                                          *)

\* What a fetch brings a run on the Pi that runs what it has from the start.
LEMMA FetchedFacts ==
  ASSUME CoreInv, NEW m \in Machines
  PROVE  /\ Fetched(m) \in Scorings
         /\ Fetched(m).release = scoring[m].release /\ Fetched(m).missed = scoring[m].missed
         /\ Fetched(m).payload \in Artifacts /\ Fetched(m).payload.no <= fits
         /\ Fetched(m).payload = published[scoring[m].release.config]
         /\ \/ Fetched(m).at = "load" /\ (Fetched(m).payload = Absent \/ file[m] = Fetched(m).payload)
            \/ Fetched(m).at = "write" /\ Fetched(m).payload # Absent
<1> DEFINE payload == published[scoring[m].release.config]
           next == IF payload = Absent \/ file[m] = payload THEN "load" ELSE "write"
<1>1. scoring[m] \in Scorings /\ scoring[m].release \in Releases
  BY DEF CoreInv, TypeOK, Scorings
<1>2. scoring[m].release.config \in Configs
  BY <1>1 DEF Configs
<1>3. payload \in Artifacts /\ payload.no <= fits
  BY <1>2 DEF CoreInv, TypeOK, Numbers
<1> HIDE DEF payload
<1>4. Fetched(m) = [scoring[m] EXCEPT !.payload = payload, !.at = next]
  BY DEF Fetched, payload
<1>5. next \in Stages
  BY DEF Stages
<1>6. /\ Fetched(m) \in Scorings /\ Fetched(m).release = scoring[m].release
      /\ Fetched(m).missed = scoring[m].missed /\ Fetched(m).payload = payload
      /\ Fetched(m).at = next
  BY <1>1, <1>3, <1>4, <1>5 DEF Scorings
<1> QED BY <1>3, <1>6 DEF payload

\* What is known of a run before it moves.
LEMMA BeforeMove ==
  ASSUME CoreInv, NEW m \in Machines
  PROVE  /\ scoring[m] \in Scorings /\ scoring[m].payload \in Artifacts /\ scoring[m].payload.no <= fits
         /\ file[m] \in Artifacts /\ file[m].no <= fits /\ file = [file EXCEPT ![m] = file[m]]
         /\ RunKnows(scoring[m], file[m]) /\ (m = "pi" => PiKnows(scoring[m], file[m]))
BY DEF CoreInv, TypeOK, Numbers, Runs, Scorings

LEMMA StartScoringKeeps ==
  ASSUME ArtifactAssumption, CoreInv, NEW m \in Machines, NEW kind \in {"nightly", "serving"},
         StartScoring(m, kind)
  PROVE  CoreInv'
<1> DEFINE next == IF kind = "serving" THEN "fetch" ELSE "look"
           r == [NoScoring EXCEPT !.at = next, !.release = release[m]]
<1>1. /\ scoring' = [scoring EXCEPT ![m] = r] /\ (m = "pi" => kind = "serving")
      /\ scoring[m] = NoScoring
      /\ UNCHANGED <<release, file, published, refit, fits, mishaps>>
  BY DEF StartScoring
<1>2. next \in Stages /\ release[m] \in Releases
  BY DEF Stages, CoreInv, TypeOK
<1>3. /\ r \in Scorings /\ r.at = next /\ r.release = release[m] /\ r.payload = Absent
      /\ r.missed = FALSE
  BY <1>2, IdleFacts DEF Scorings
<1>4. next \in {"fetch", "look"} /\ (m = "pi" => next = "fetch")
  BY <1>1
<1> HIDE DEF next, r
<1>5. RunKnows(r, file[m])
  BY <1>3, <1>4 DEF RunKnows
<1>6. m = "pi" => PiKnows(r, file[m])
  <2> SUFFICES ASSUME m = "pi" PROVE PiKnows(r, file[m])
    OBVIOUS
  <2>1. mishaps = 0 => release[m] = First /\ (file[m] # Absent => published[First.config] # Absent)
    BY DEF CoreInv, Runs, PiKnows
  <2> QED BY <1>3, <1>4, <2>1 DEF PiKnows
<1>7. r.payload.no <= fits
  BY <1>3, ArtifactFacts DEF CoreInv, TypeOK
<1> QED BY <1>1, <1>3, <1>5, <1>6, <1>7, BeforeMove, ScoringStep

LEMMA FetchKeeps ==
  ASSUME ArtifactAssumption, CoreInv, NEW m \in Machines, Fetch(m)
  PROVE  CoreInv'
<1> DEFINE r == [Fetched(m) EXCEPT !.at = IF @ = "load" THEN "look" ELSE @]
<1>1. /\ scoring[m].at = "fetch" /\ scoring' = [scoring EXCEPT ![m] = r]
      /\ UNCHANGED <<release, file, published, refit, fits, mishaps>>
  BY DEF Fetch
<1>2. /\ r \in Scorings /\ r.payload = Fetched(m).payload /\ r.release = Fetched(m).release
      /\ r.at = IF Fetched(m).at = "load" THEN "look" ELSE Fetched(m).at
  BY FetchedFacts DEF Scorings, Stages
<1> HIDE DEF r
<1>3. RunKnows(r, file[m])
  BY <1>2, FetchedFacts DEF RunKnows
<1>4. m = "pi" => PiKnows(r, file[m])
  <2> SUFFICES ASSUME m = "pi" PROVE PiKnows(r, file[m])
    OBVIOUS
  <2>1. mishaps = 0 =>
          scoring[m].release = First /\ (file[m] # Absent => published[First.config] # Absent)
    BY BeforeMove DEF PiKnows
  <2> QED BY <1>2, <2>1, FetchedFacts DEF PiKnows
<1> QED BY <1>1, <1>2, <1>3, <1>4, FetchedFacts, BeforeMove, ScoringStep

LEMMA FetchIfAbsentKeeps ==
  ASSUME ArtifactAssumption, CoreInv, NEW m \in Machines, FetchIfAbsent(m)
  PROVE  CoreInv'
<1>1. /\ scoring[m].at = "look"
      /\ UNCHANGED <<release, file, published, refit, fits, mishaps>>
  BY DEF FetchIfAbsent
<1>2. CASE file[m] # Absent /\ scoring' = [scoring EXCEPT ![m].at = "load"]
  <2> DEFINE r == [scoring[m] EXCEPT !.at = "load"]
  <2>1. scoring' = [scoring EXCEPT ![m] = r]
    BY <1>2
  <2>2. r \in Scorings /\ r.at = "load" /\ r.payload = scoring[m].payload /\ r.release = scoring[m].release
    BY BeforeMove DEF Scorings, Stages
  <2> HIDE DEF r
  <2>3. RunKnows(r, file[m]) /\ (m = "pi" => PiKnows(r, file[m]))
    BY <1>1, <1>2, <2>2, BeforeMove DEF RunKnows, PiKnows
  <2> QED BY <1>1, <2>1, <2>2, <2>3, BeforeMove, ScoringStep
<1>3. CASE file[m] = Absent /\ scoring' = [scoring EXCEPT ![m] = Fetched(m)]
  <2>1. RunKnows(Fetched(m), file[m])
    BY <1>3, FetchedFacts DEF RunKnows
  <2>2. m = "pi" => PiKnows(Fetched(m), file[m])
    <3> SUFFICES ASSUME m = "pi" PROVE PiKnows(Fetched(m), file[m])
      OBVIOUS
    <3>1. mishaps = 0 => scoring[m].release = First
      BY BeforeMove DEF PiKnows
    <3> QED BY <1>3, <3>1, FetchedFacts DEF PiKnows
  <2> QED BY <1>1, <1>3, <2>1, <2>2, FetchedFacts, BeforeMove, ScoringStep
<1>4. CASE /\ file[m] = Absent
           /\ scoring' = [scoring EXCEPT ![m].at = "load", ![m].missed = TRUE]
  <2> DEFINE r == [scoring[m] EXCEPT !.at = "load", !.missed = TRUE]
  <2>1. scoring' = [scoring EXCEPT ![m] = r]
    BY <1>4, BeforeMove DEF CoreInv, TypeOK, Scorings
  <2>2. /\ r \in Scorings /\ r.at = "load" /\ r.payload = scoring[m].payload
        /\ r.release = scoring[m].release /\ r.missed
    BY BeforeMove DEF Scorings, Stages
  <2> HIDE DEF r
  <2>3. RunKnows(r, file[m]) /\ (m = "pi" => PiKnows(r, file[m]))
    BY <1>1, <1>4, <2>2, BeforeMove DEF RunKnows, PiKnows
  <2> QED BY <1>1, <2>1, <2>2, <2>3, BeforeMove, ScoringStep
<1> QED BY <1>2, <1>3, <1>4 DEF FetchIfAbsent

LEMMA WriteKeeps ==
  ASSUME ArtifactAssumption, CoreInv, NEW m \in Machines, WriteOpens(m) \/ WriteEnds(m)
  PROVE  CoreInv'
<1>1. CASE WriteOpens(m)
  <2> DEFINE r == [scoring[m] EXCEPT !.at = "writing"]
  <2>1. /\ scoring[m].at = "write" /\ scoring' = [scoring EXCEPT ![m] = r]
        /\ file' = [file EXCEPT ![m] = Torn]
        /\ UNCHANGED <<release, published, refit, fits, mishaps>>
    BY <1>1 DEF WriteOpens
  <2>2. /\ r \in Scorings /\ r.at = "writing" /\ r.payload = scoring[m].payload
        /\ r.release = scoring[m].release
    BY BeforeMove DEF Scorings, Stages
  <2> HIDE DEF r
  <2>3. RunKnows(r, Torn) /\ (m = "pi" => PiKnows(r, Torn))
    BY <2>1, <2>2, BeforeMove DEF RunKnows, PiKnows
  <2>4. Torn.no <= fits
    BY ArtifactFacts DEF CoreInv, TypeOK
  <2> QED BY <2>1, <2>2, <2>3, <2>4, ArtifactFacts, BeforeMove, ScoringStep
<1>2. CASE WriteEnds(m)
  <2> DEFINE r == [scoring[m] EXCEPT !.at = "load"]
             a == scoring[m].payload
  <2>1. /\ scoring[m].at = "writing" /\ scoring' = [scoring EXCEPT ![m] = r]
        /\ file' = [file EXCEPT ![m] = a]
        /\ UNCHANGED <<release, published, refit, fits, mishaps>>
    BY <1>2 DEF WriteEnds
  <2>2. r \in Scorings /\ r.at = "load" /\ r.payload = a /\ r.release = scoring[m].release
    BY BeforeMove DEF Scorings, Stages
  <2> HIDE DEF r
  <2>3. RunKnows(r, a) /\ (m = "pi" => PiKnows(r, a))
    BY <2>1, <2>2, BeforeMove DEF RunKnows, PiKnows
  <2> QED BY <2>1, <2>2, <2>3, BeforeMove, ScoringStep
<1> QED BY <1>1, <1>2

\* The end of a run, with its file left as it is.
LEMMA EndKeeps ==
  ASSUME ArtifactAssumption, CoreInv, NEW m \in Machines,
         scoring' = [scoring EXCEPT ![m] = NoScoring],
         UNCHANGED <<release, file, published, refit, fits, mishaps>>
  PROVE  CoreInv'
<1>1. RunKnows(NoScoring, file[m])
  BY IdleFacts DEF RunKnows
<1>2. m = "pi" => PiKnows(NoScoring, file[m])
  BY IdleFacts, BeforeMove DEF PiKnows
<1>3. NoScoring.payload.no <= fits
  BY IdleFacts, ArtifactFacts DEF CoreInv, TypeOK
<1> QED BY <1>1, <1>2, <1>3, IdleFacts, BeforeMove, ScoringStep

\* The rows that a run writes are scored by what it may trust.
LEMMA LoadAndScoreWrites ==
  ASSUME ArtifactAssumption, ArtifactInv, NEW m \in Machines, LoadAndScore(m)
  PROVE  OnlyTrustedFitsScore' /\ PiFollowsPublished'
<1>1. CASE wrote' = wrote
  BY <1>1, WrittenStays DEF LoadAndScore, ArtifactInv, CoreInv
<1>2. CASE /\ Loadable(file[m], scoring[m].release) /\ file[m].enough
           /\ wrote' = {[by |-> m, fit |-> file[m], release |-> scoring[m].release,
                         seen |-> scoring[m].payload]}
  <2> DEFINE w == [by |-> m, fit |-> file[m], release |-> scoring[m].release,
                   seen |-> scoring[m].payload]
  <2>1. wrote' = {w} /\ scoring[m].at = "load" /\ mishaps' = mishaps
    BY <1>2 DEF LoadAndScore
  <2>2. /\ w.by = m /\ w.fit = file[m] /\ w.release = scoring[m].release
        /\ w.seen = scoring[m].payload
    OBVIOUS
  <2> HIDE DEF w
  <2>3. OnlyTrustedFitsScore'
    BY <1>2, <2>1, <2>2 DEF OnlyTrustedFitsScore, Loadable
  <2>4. PiFollowsPublished'
    <3> SUFFICES ASSUME m = "pi", scoring[m].payload # file[m]
                 PROVE  scoring[m].payload = Absent /\ mishaps > 0
      BY <2>1, <2>2 DEF PiFollowsPublished
    <3>1. PiKnows(scoring[m], file[m])
      BY BeforeMove DEF ArtifactInv
    <3>2. file[m] # Absent
      BY <1>2 DEF Loadable, Absent
    <3>3. mishaps \in Nat
      BY DEF ArtifactInv, CoreInv, TypeOK
    <3> QED BY <2>1, <3>1, <3>2, <3>3 DEF PiKnows
  <2> QED BY <2>3, <2>4
<1> QED BY <1>1, <1>2 DEF LoadAndScore

-----------------------------------------------------------------------------
(* Mishaps.                                                                *)

\* A deployment, a lost file and a kill: from here on the Pi's file may be of a
\* release that has nothing published.
LEMMA MishapKeeps ==
  ASSUME ArtifactAssumption, CoreInv,
         \/ \E m \in Machines : LoseFile(m) \/ \E r \in Releases : Deploy(m, r)
         \/ Kill
  PROVE  CoreInv' /\ mishaps' = mishaps + 1 /\ wrote' = wrote
<1>1. mishaps' = mishaps + 1 /\ wrote' = wrote /\ UNCHANGED <<published, fits>>
  BY DEF LoseFile, Deploy, Kill
<1>2. mishaps' \in Nat /\ mishaps' # 0
  BY <1>1 DEF CoreInv, TypeOK
<1>3. CASE \E m \in Machines, r \in Releases : Deploy(m, r)
  <2>1. /\ release' \in [Machines -> Releases]
        /\ UNCHANGED <<file, refit, scoring>>
    BY <1>3 DEF Deploy, CoreInv, TypeOK
  <2>2. TypeOK' /\ Numbers' /\ RefitIsNewest'
    BY <1>1, <1>2, <2>1 DEF CoreInv, TypeOK, Numbers, RefitIsNewest
  <2>3. Runs'
    BY <1>2, <2>1 DEF CoreInv, Runs, RunKnows, PiKnows
  <2> QED BY <1>1, <2>2, <2>3 DEF CoreInv
<1>4. CASE \E m \in Machines : LoseFile(m)
  <2>1. PICK m \in Machines : LoseFile(m)
    BY <1>4
  <2>2. /\ file' = [file EXCEPT ![m] = Absent] /\ scoring[m] = NoScoring
        /\ UNCHANGED <<release, refit, scoring>>
    BY <2>1 DEF LoseFile
  <2>3. /\ file' \in [Machines -> Artifacts] /\ file'[m] = Absent
        /\ \A k \in Machines : k # m => file'[k] = file[k]
    BY <2>2, ArtifactFacts DEF CoreInv, TypeOK
  <2>4. TypeOK' /\ RefitIsNewest'
    BY <1>1, <1>2, <2>2, <2>3 DEF CoreInv, TypeOK, RefitIsNewest
  <2>5. Numbers'
    <3>1. Absent.no <= fits
      BY ArtifactFacts DEF CoreInv, TypeOK
    <3> QED BY <1>1, <2>2, <2>3, <3>1 DEF CoreInv, Numbers
  <2>6. Runs'
    BY <1>2, <2>2, <2>3, IdleFacts DEF CoreInv, Runs, RunKnows, PiKnows, Machines
  <2> QED BY <1>1, <2>4, <2>5, <2>6 DEF CoreInv
<1>5. CASE Kill /\ refit' = NoRefit /\ UNCHANGED scoring
  <2>1. UNCHANGED <<release, file>>
    BY <1>5 DEF Kill
  <2>2. TypeOK' /\ RefitIsNewest'
    BY <1>1, <1>2, <1>5, <2>1, IdleFacts DEF CoreInv, TypeOK, RefitIsNewest
  <2>3. Numbers'
    <3>1. Absent.no <= fits
      BY ArtifactFacts DEF CoreInv, TypeOK
    <3> QED BY <1>1, <1>5, <2>1, <3>1, IdleFacts DEF CoreInv, Numbers
  <2>4. Runs'
    BY <1>2, <1>5, <2>1 DEF CoreInv, Runs, RunKnows, PiKnows
  <2> QED BY <1>1, <2>2, <2>3, <2>4 DEF CoreInv
<1>6. CASE Kill /\ UNCHANGED refit /\ \E m \in Machines : scoring' = [scoring EXCEPT ![m] = NoScoring]
  <2>1. UNCHANGED <<release, file>>
    BY <1>6 DEF Kill
  <2>2. PICK m \in Machines : scoring' = [scoring EXCEPT ![m] = NoScoring]
    BY <1>6
  <2>3. /\ scoring' \in [Machines -> Scorings] /\ scoring'[m] = NoScoring
        /\ \A k \in Machines : k # m => scoring'[k] = scoring[k]
    BY <2>2, IdleFacts DEF CoreInv, TypeOK
  <2>4. TypeOK' /\ RefitIsNewest'
    BY <1>1, <1>2, <1>6, <2>1, <2>3 DEF CoreInv, TypeOK, RefitIsNewest
  <2>5. Numbers'
    <3>1. Absent.no <= fits
      BY ArtifactFacts DEF CoreInv, TypeOK
    <3> QED BY <1>1, <1>6, <2>1, <2>3, <3>1, IdleFacts DEF CoreInv, Numbers
  <2>6. Runs'
    BY <1>2, <2>1, <2>3, IdleFacts DEF CoreInv, Runs, RunKnows, PiKnows, Machines
  <2> QED BY <1>1, <2>4, <2>5, <2>6 DEF CoreInv
<1> QED BY <1>3, <1>4, <1>5, <1>6 DEF Kill

-----------------------------------------------------------------------------
(* The theorem.                                                            *)

LEMMA ArtifactInit ==
  ASSUME ArtifactAssumption, Init
  PROVE  ArtifactInv
<1>1. /\ release = [m \in Machines |-> First] /\ file = [m \in Machines |-> Absent]
      /\ published = [c \in Configs |-> Absent] /\ refit = NoRefit
      /\ scoring = [m \in Machines |-> NoScoring] /\ wrote = {} /\ fits = 0 /\ mishaps = 0
  BY DEF Init
<1>2. TypeOK
  BY <1>1, IdleFacts, ArtifactFacts DEF TypeOK, ArtifactAssumption
<1>3. Numbers
  BY <1>1, IdleFacts, ArtifactFacts DEF Numbers
<1>4. RefitIsNewest
  BY <1>1, IdleFacts DEF RefitIsNewest
<1>5. Runs
  BY <1>1, IdleFacts DEF Runs, RunKnows, PiKnows, Machines
<1>6. OnlyTrustedFitsScore /\ PiFollowsPublished
  BY <1>1 DEF OnlyTrustedFitsScore, PiFollowsPublished
<1> QED BY <1>2, <1>3, <1>4, <1>5, <1>6 DEF ArtifactInv, CoreInv

\* Every step of the refit, of the scoring runs and of what goes wrong keeps it.
LEMMA ArtifactStep ==
  ASSUME ArtifactAssumption, ArtifactInv, [Next]_vars
  PROVE  ArtifactInv'
<1> DEFINE Kept == OnlyTrustedFitsScore' /\ PiFollowsPublished'
<1>0. CoreInv /\ TypeOK /\ OnlyTrustedFitsScore /\ PiFollowsPublished
  BY DEF ArtifactInv, CoreInv
<1>1. ASSUME NEW kind \in {"weekly", "hand", "publish"}, NEW r \in Releases,
             NEW enough \in BOOLEAN, StartRefit(kind, r, enough)
      PROVE  CoreInv' /\ Kept
  BY <1>0, <1>1, StartRefitKeeps, WrittenStays DEF StartRefit
<1>2. ASSUME SaveOpens \/ SaveEnds \/ SaveFails PROVE CoreInv' /\ Kept
  BY <1>0, <1>2, SavingKeeps, WrittenStays DEF SaveOpens, SaveEnds, SaveFails
<1>3. ASSUME PublishReads PROVE CoreInv' /\ Kept
  BY <1>0, <1>3, PublishReadsKeeps, WrittenStays DEF PublishReads
<1>4. ASSUME PublishWrites PROVE CoreInv' /\ Kept
  BY <1>0, <1>4, PublishWritesKeeps, WrittenStays DEF PublishWrites
<1>5. ASSUME NEW m \in Machines, NEW kind \in {"nightly", "serving"}, StartScoring(m, kind)
      PROVE  CoreInv' /\ Kept
  BY <1>0, <1>5, StartScoringKeeps, WrittenStays DEF StartScoring
<1>6. ASSUME NEW m \in Machines, Fetch(m) PROVE CoreInv' /\ Kept
  BY <1>0, <1>6, FetchKeeps, WrittenStays DEF Fetch
<1>7. ASSUME NEW m \in Machines, FetchIfAbsent(m) PROVE CoreInv' /\ Kept
  BY <1>0, <1>7, FetchIfAbsentKeeps, WrittenStays DEF FetchIfAbsent
<1>8. ASSUME NEW m \in Machines, WriteOpens(m) \/ WriteEnds(m) PROVE CoreInv' /\ Kept
  BY <1>0, <1>8, WriteKeeps, WrittenStays DEF WriteOpens, WriteEnds
<1>9. ASSUME NEW m \in Machines, LoadAndScore(m) PROVE CoreInv' /\ Kept
  <2>1. CoreInv'
    BY <1>0, <1>9, EndKeeps DEF LoadAndScore
  <2> QED BY <1>9, <2>1, LoadAndScoreWrites
<1>10. ASSUME \/ \E m \in Machines : LoseFile(m) \/ \E r \in Releases : Deploy(m, r)
              \/ Kill
       PROVE  CoreInv' /\ Kept
  BY <1>0, <1>10, MishapKeeps, WrittenStays
<1>11. ASSUME UNCHANGED vars PROVE CoreInv' /\ Kept
  BY <1>0, <1>11, WrittenStays
     DEF vars, CoreInv, TypeOK, Numbers, RefitIsNewest, Runs, RunKnows, PiKnows
<1> QED BY <1>1, <1>2, <1>3, <1>4, <1>5, <1>6, <1>7, <1>8, <1>9, <1>10, <1>11 DEF Next, ArtifactInv

\* Only the upload changes what is published.
LEMMA PublishedMoves ==
  ASSUME ArtifactAssumption, ArtifactInv, [Next]_vars
  PROVE  PublishedMovesForward
<1>1. CASE PublishWrites
  <2>1. CoreInv /\ refit.at = "upload"
    BY <1>1 DEF ArtifactInv, PublishWrites
  <2>2. \A c \in Configs : published[c].no < refit.fit.no
    BY <2>1 DEF CoreInv, RefitIsNewest
  <2> QED BY <1>1, <2>1, <2>2, PublishWritesEffect DEF PublishedMovesForward
<1>2. CASE UNCHANGED published
  BY <1>2 DEF PublishedMovesForward
<1>3. PublishWrites \/ UNCHANGED published
  BY DEF Next, vars, StartRefit, SaveOpens, SaveEnds, SaveFails, PublishReads, Kill, StartScoring,
         Fetch, FetchIfAbsent, WriteOpens, WriteEnds, LoadAndScore, LoseFile, Deploy
<1> QED BY <1>1, <1>2, <1>3

\* Whatever is refitted, published, fetched, deployed, lost or killed in whatever
\* order, a row is scored by a whole fit of its own config and of a layout its scorer
\* reads; the Pi scores with what was published when it asked; and a row of
\* model_artifact is not taken away, nor replaced by an older fit of the run that
\* uploads it (jobs/predict, research/artifact).
THEOREM OnlyTrustedFits ==
  ASSUME ArtifactAssumption
  PROVE  Spec => [][/\ PublishedMovesForward
                    /\ OnlyTrustedFitsScore' /\ PiFollowsPublished' /\ AbsentOnlyIfUnpublished']_vars
<1>1. Init => ArtifactInv
  BY ArtifactInit
<1>2. ArtifactInv /\ [Next]_vars => ArtifactInv'
  BY ArtifactStep
<1>3. ArtifactInv => OnlyTrustedFitsScore /\ PiFollowsPublished /\ AbsentOnlyIfUnpublished
  BY DEF ArtifactInv, CoreInv, Runs, RunKnows, AbsentOnlyIfUnpublished
<1>4. ArtifactInv /\ [Next]_vars => PublishedMovesForward
  BY PublishedMoves
<1> QED BY <1>1, <1>2, <1>3, <1>4, PTL DEF Spec

-----------------------------------------------------------------------------
(* ServingCopy: the inductive invariant.                                   *)

DayRows  == [C!Days -> Nat]
Syncs == [phase : {"idle", "bars", "events", "pin"}, start : Nat, gen : Generations,
          from : Int, whole : SUBSET Tickers, eventsFrom : Int, since : Int,
          bars : [Tickers -> DayRows], events : DayRows, stamp : DayRows, pin : Generations]

NewestBar == C!Newest(UNION {C!On(chart[t], C!Days) : t \in Tickers})

SyncTypes ==
  /\ today \in C!Days
  /\ bars \in [Tickers -> DayRows] /\ chart \in [Tickers -> DayRows]
  /\ events \in [Generations -> DayRows] /\ copy \in [Generations -> DayRows]
  /\ stamp \in [Generations -> DayRows]
  /\ open \in [day : Nat, gen : Generations, at : Nat]
  /\ setting \in Generations /\ pin \in Generations /\ served \in Generations
  /\ synced \in 1..today /\ sync \in Syncs
  /\ sync.phase = "idle" <=> sync = C!Idle
  /\ sync # C!Idle => sync.start \in synced..today

\* A transaction is a day old at most.
OpenIsRecent == open # C!None => open.at \in {today - 1, today}

StampsAreOfEvents ==
  \A g \in Generations, d \in C!Days : events[g][d] = 0 => stamp[g][d] = 0

\* What serving lacks of a generation was stamped after the line, or passed by it.
LineHolds ==
  \A g \in Generations, d \in C!Days :
    events[g][d] > 0 /\ copy[g][d] # events[g][d] /\ <<g, d>> \notin passed
    => stamp[g][d] >= synced - 1

\* What changed since the snapshot is stamped with its day, or the day before.
SnapshotHolds ==
  sync # C!Idle =>
    \A d \in C!Days : events[sync.gen][d] # sync.events[d] => stamp[sync.gen][d] >= sync.start - 1

\* What serving lacks of the snapshot is in one of the two arms.
EventsAreDue ==
  sync.phase \in {"bars", "events"} =>
    \A d \in C!Days :
      sync.events[d] > 0 /\ copy[sync.gen][d] # sync.events[d] /\ <<sync.gen, d>> \notin passed
      => C!ShipsEvent(d)

BarsAreKnown ==
  \A t \in Tickers :
    /\ bars[t][FirstDay] > 0 /\ chart[t][FirstDay] > 0
    /\ \A d \in C!Days : (bars[t][d] > 0 => d <= today) /\ (chart[t][d] > 0 => bars[t][d] > 0)

\* What serving lacks of the bars is in the next window, of a ticker shipped whole, or
\* behind.
BarsAreDue ==
  \A t \in Tickers, d \in C!Days :
    bars[t][d] > 0 /\ chart[t][d] # bars[t][d] /\ <<t, d>> \notin behind
    => d >= NewestBar - Overlap \/ t \in C!Backfilled

\* No job writes bars while a sync runs.
SyncHasBars ==
  /\ sync # C!Idle => sync.bars = bars /\ sync.from <= sync.start
  /\ sync.phase = "bars" => sync.from = 0 \/ (sync.from = NewestBar - Overlap /\ sync.whole = C!Backfilled)
  /\ sync.phase \in {"events", "pin"} =>
       \A t \in Tickers : 
         /\ \A d \in C!Days : bars[t][d] > 0 /\ <<t, d>> \notin behind => chart[t][d] = bars[t][d]
         /\ bars[t][sync.start] > 0 => chart[t][sync.start] > 0

SyncInv ==
  /\ SyncTypes /\ OpenIsRecent /\ StampsAreOfEvents
  /\ LineHolds /\ SnapshotHolds /\ EventsAreDue
  /\ BarsAreKnown /\ BarsAreDue /\ SyncHasBars /\ C!EventsArrive

-----------------------------------------------------------------------------
(* ServingCopy: lemmas about the operators.                                *)

\* A set of days has a last and a first one.
LEMMA LastOfDays ==
  ASSUME NEW n \in Nat, NEW S \in SUBSET (1..n), S # {}
  PROVE  C!Max(S) \in S /\ \A x \in S : x <= C!Max(S)
<1> DEFINE T == {n - x : x \in S}
<1>1. T \subseteq Nat /\ T # {}
  <2>1. \A x \in S : n - x \in Nat
    OBVIOUS
  <2> QED BY <2>1
<1>2. \E m \in T : \A y \in T : ~ (<<y, m>> \in OpToRel(<, Nat))
  BY <1>1, WFMin, NatLessThanWellFounded
<1>3. PICK x \in S : \A y \in S : ~ (<<n - y, n - x>> \in OpToRel(<, Nat))
  BY <1>2
<1>4. \A y \in S : x >= y
  <2> TAKE y \in S
  <2>1. n - y \in Nat /\ n - x \in Nat
    OBVIOUS
  <2>2. ~(n - y < n - x)
    BY <1>3, <2>1 DEF OpToRel
  <2> QED BY <2>1, <2>2
<1> QED BY <1>4 DEF C!Max

LEMMA FirstOfDays ==
  ASSUME NEW n \in Nat, NEW S \in SUBSET (1..n), S # {}
  PROVE  C!Min(S) \in S /\ \A x \in S : C!Min(S) <= x
<1>1. S \subseteq Nat
  OBVIOUS
<1>2. PICK x \in S : \A y \in S : ~ (<<y, x>> \in OpToRel(<, Nat))
  BY <1>1, WFMin, NatLessThanWellFounded
<1>3. \A y \in S : x =< y
  <2> TAKE y \in S
  <2>1. x \in Nat /\ y \in Nat
    BY <1>1
  <2>2. ~(y < x)
    BY <1>2, <2>1 DEF OpToRel
  <2> QED BY <2>1, <2>2
<1> QED BY <1>3 DEF C!Min

\* The newest of some days bounds them, and is 0 if there is none.
LEMMA NewestIn ==
  ASSUME C!ServingCopyAssumption, NEW ds \in SUBSET C!Days
  PROVE  C!Newest(ds) \in 0..LastDay /\ (\A d \in ds : d <= C!Newest(ds)) /\ (ds # {} => C!Newest(ds) \in ds)
<1>1. LastDay \in Nat /\ ds \in SUBSET (1..LastDay)
  BY DEF C!Days, C!ServingCopyAssumption
<1>2. CASE ds = {}
  BY <1>1, <1>2 DEF C!Newest
<1>3. CASE ds # {}
  <2>1. C!Max(ds) \in ds /\ \A d \in ds : d <= C!Max(ds)
    BY <1>1, <1>3, LastOfDays
  <2>2. C!Newest(ds) = C!Max(ds)
    BY <1>3 DEF C!Newest
  <2>3. \A d \in ds : d \in 0..LastDay
    BY <1>1
  <2> QED BY <1>3, <2>1, <2>2, <2>3
<1> QED BY <1>2, <1>3

\* The newest bar serving has is not of the future.
LEMMA NewestBarFacts ==
  ASSUME C!ServingCopyAssumption, SyncTypes, BarsAreKnown
  PROVE  /\ NewestBar \in 0..today /\ NewestBar \in Int
         /\ \A t \in Tickers, d \in C!Days : chart[t][d] > 0 => d <= NewestBar
<1> DEFINE ds == UNION {C!On(chart[t], C!Days) : t \in Tickers}
<1>1. ds \in SUBSET C!Days
  BY DEF C!On
<1>2. \A d \in ds : d <= today
  BY DEF C!On, BarsAreKnown
<1>3. \A t \in Tickers, d \in C!Days : chart[t][d] > 0 => d \in ds
  BY DEF C!On
<1>4. C!Newest(ds) \in 0..LastDay /\ (\A d \in ds : d <= C!Newest(ds)) /\ (ds # {} => C!Newest(ds) \in ds)
  BY <1>1, NewestIn
<1>5. ds = {} => C!Newest(ds) = 0
  BY DEF C!Newest
<1>6. today \in Nat
  BY DEF SyncTypes, C!Days
<1>7. C!Newest(ds) \in 0..today
  BY <1>2, <1>4, <1>5, <1>6
<1>8. NewestBar = C!Newest(ds)
  BY DEF NewestBar
<1> HIDE DEF ds
<1> QED BY <1>3, <1>4, <1>7, <1>8

\* A longer history stays missing, and its ticker is shipped whole.
LEMMA BackfilledGrows ==
  ASSUME C!ServingCopyAssumption, SyncTypes, BarsAreKnown, bars' \in [Tickers -> DayRows], chart' = chart,
         \A t \in Tickers, d \in C!Days : bars[t][d] > 0 => bars'[t][d] > 0
  PROVE  /\ C!Backfilled \subseteq C!Backfilled'
         /\ \A t \in Tickers, d \in C!Days :
              bars'[t][d] > 0 /\ d < C!Min(C!On(bars[t], C!Days)) => t \in C!Backfilled'
<1> SUFFICES ASSUME NEW t \in Tickers
             PROVE  /\ t \in C!Backfilled => t \in C!Backfilled'
                    /\ \A d \in C!Days : bars'[t][d] > 0 /\ d < C!Min(C!On(bars[t], C!Days))
                                     => t \in C!Backfilled'
  BY DEF C!Backfilled
<1> DEFINE old == C!On(bars[t], C!Days)  new == C!On(bars[t], C!Days)'  there == C!On(chart[t], C!Days)
<1>1. LastDay \in Nat /\ C!Days = 1..LastDay /\ FirstDay \in C!Days
  BY DEF C!ServingCopyAssumption, C!Days
<1>2. old \in SUBSET (1..LastDay) /\ new \in SUBSET (1..LastDay) /\ there \in SUBSET (1..LastDay)
  BY <1>1 DEF C!On
<1>3. old \subseteq new /\ there \subseteq old /\ FirstDay \in old /\ FirstDay \in there
  BY <1>1 DEF C!On, BarsAreKnown
<1>4. /\ C!Min(old) \in old /\ \A x \in old : C!Min(old) <= x
      /\ C!Min(new) \in new /\ \A x \in new : C!Min(new) <= x
      /\ C!Min(there) \in there /\ \A x \in there : C!Min(there) <= x
  <2> HIDE DEF old, new, there
  <2> QED BY <1>1, <1>2, <1>3, FirstOfDays
<1>5. /\ t \in C!Backfilled <=> there = {} \/ (old # {} /\ C!Min(old) < C!Min(there))
      /\ t \in C!Backfilled' <=> there = {} \/ (new # {} /\ C!Min(new) < C!Min(there))
  BY DEF C!Backfilled
<1>6. \A d \in C!Days : bars'[t][d] > 0 => d \in new
  BY DEF C!On
<1> HIDE DEF old, new, there
<1>7. C!Min(new) <= C!Min(old) /\ C!Min(old) <= C!Min(there) /\ new # {}
  BY <1>3, <1>4
<1>8. C!Min(new) \in Int /\ C!Min(old) \in Int /\ C!Min(there) \in Int
  <2>1. old \subseteq Int /\ new \subseteq Int /\ there \subseteq Int
    BY <1>1, <1>2
  <2> QED BY <1>4, <2>1
<1>9. t \in C!Backfilled => t \in C!Backfilled'
  BY <1>3, <1>5, <1>7, <1>8
<1>10. ASSUME NEW d \in C!Days, bars'[t][d] > 0, d < C!Min(old)
       PROVE  t \in C!Backfilled'
  <2>1. d \in new /\ d \in Int
    BY <1>1, <1>6, <1>10
  <2>2. C!Min(new) <= d
    BY <1>4, <2>1
  <2> QED BY <1>5, <1>7, <1>8, <1>10, <2>1, <2>2
<1> QED BY <1>9, <1>10 DEF old

\* A step of research that leaves the syncs alone, and stamps what it changes.
LEMMA EventsStep ==
  ASSUME SyncInv, C!ServingCopyAssumption, SyncTypes', UNCHANGED <<copy, passed, synced, sync>>,
         today <= today',
         \A g \in Generations, d \in C!Days :
           \/ events'[g][d] = events[g][d] /\ stamp'[g][d] = stamp[g][d]
           \/ stamp'[g][d] >= today - 1
  PROVE  LineHolds' /\ SnapshotHolds' /\ EventsAreDue' /\ C!EventsArrive'
<1>1. /\ today \in Nat /\ synced \in Nat /\ synced <= today
      /\ stamp \in [Generations -> DayRows] /\ stamp' \in [Generations -> DayRows]
  BY DEF SyncInv, SyncTypes, C!Days
<1>2. LineHolds'
  BY <1>1 DEF SyncInv, LineHolds, DayRows
<1>3. SnapshotHolds'
  <2> SUFFICES ASSUME sync # C!Idle, NEW d \in C!Days, events'[sync.gen][d] # sync.events[d]
               PROVE  stamp'[sync.gen][d] >= sync.start - 1
    BY DEF SnapshotHolds
  <2>1. sync.start \in Nat /\ sync.start <= today /\ sync.gen \in Generations
    BY <1>1 DEF SyncInv, SyncTypes, Syncs
  <2> QED BY <1>1, <2>1 DEF SyncInv, SnapshotHolds, DayRows
<1>4. EventsAreDue'
  BY DEF SyncInv, EventsAreDue, C!ShipsEvent
<1>5. C!EventsArrive'
  BY DEF SyncInv, C!EventsArrive
<1> QED BY <1>2, <1>3, <1>4, <1>5

\* A step that writes bars while no sync runs.
LEMMA BarsStep ==
  ASSUME SyncInv, C!ServingCopyAssumption, SyncTypes', sync = C!Idle, UNCHANGED <<chart, sync>>,
         today <= today', behind \subseteq behind',
         \A t \in Tickers, d \in C!Days :
           /\ bars[t][d] > 0 => bars'[t][d] > 0
           /\ bars'[t][d] > 0 => d <= today'
           /\ bars'[t][d] # bars[t][d] =>
                d >= NewestBar - Overlap \/ t \in C!Backfilled' \/ <<t, d>> \in behind'
  PROVE  BarsAreKnown' /\ BarsAreDue' /\ SyncHasBars'
<1>1. bars' \in [Tickers -> DayRows]
  BY DEF SyncTypes
<1>2. C!Backfilled \subseteq C!Backfilled'
  BY <1>1, BackfilledGrows DEF SyncInv
<1>3. BarsAreKnown'
  <2>1. FirstDay \in C!Days
    BY DEF C!ServingCopyAssumption, C!Days
  <2> QED BY <2>1 DEF SyncInv, BarsAreKnown
<1>4. NewestBar' = NewestBar
  BY DEF NewestBar
<1>5. BarsAreDue'
  BY <1>2, <1>4 DEF SyncInv, BarsAreDue
<1>6. SyncHasBars'
  BY DEF SyncHasBars, C!Idle
<1> QED BY <1>3, <1>5, <1>6

-----------------------------------------------------------------------------
(* ServingCopy: one lemma per kind of step.                                *)

LEMMA ServingFacts ==
  ASSUME C!ServingCopyAssumption
  PROVE  /\ C!Idle \in Syncs /\ C!Idle.phase = "idle" /\ C!None \in [day : Nat, gen : Generations, at : Nat]
         /\ LastDay \in Nat /\ C!Days = 1..LastDay /\ 1 \in C!Days /\ FirstDay \in C!Days
BY DEF C!ServingCopyAssumption, C!Idle, C!None, Syncs, C!Never, DayRows, C!Days

LEMMA ServingInit == ASSUME C!ServingCopyAssumption, C!Init PROVE SyncInv
<1>1. SyncTypes
  BY ServingFacts DEF C!Init, SyncTypes, DayRows, C!ServingCopyAssumption
<1>2. OpenIsRecent /\ StampsAreOfEvents /\ LineHolds /\ SnapshotHolds
  BY DEF C!Init, OpenIsRecent, StampsAreOfEvents, LineHolds, SnapshotHolds
<1>3. EventsAreDue /\ C!EventsArrive
  BY DEF C!Init, EventsAreDue, C!EventsArrive, C!Idle
<1>4. BarsAreKnown
  BY ServingFacts DEF C!Init, BarsAreKnown
<1>5. BarsAreDue /\ SyncHasBars
  BY DEF C!Init, BarsAreDue, SyncHasBars, C!Idle
<1> QED BY <1>1, <1>2, <1>3, <1>4, <1>5 DEF SyncInv

\* A night's chain.
LEMMA NightKeeps == ASSUME SyncInv, C!ServingCopyAssumption, C!Night PROVE SyncInv'
<1>1. today \in Nat /\ LastDay \in Nat /\ C!Days = 1..LastDay /\ today + 1 \in C!Days
  BY ServingFacts DEF SyncInv, SyncTypes, C!Night
<1>2. PICK missed \in SUBSET Tickers :
        bars' = [t \in Tickers |-> IF t \in missed THEN bars[t] ELSE [bars[t] EXCEPT ![today + 1] = 1]]
  BY DEF C!Night
<1>3. /\ setting \in Generations /\ events \in [Generations -> DayRows] /\ stamp \in [Generations -> DayRows]
      /\ events' = [events EXCEPT ![setting] = [@ EXCEPT ![today + 1] = 1]]
      /\ stamp' = [stamp EXCEPT ![setting] = [@ EXCEPT ![today + 1] = today + 1]]
  BY DEF SyncInv, SyncTypes, C!Night
<1>4. SyncTypes'
  <2>1. bars' \in [Tickers -> DayRows]
    BY <1>1, <1>2 DEF SyncInv, SyncTypes, DayRows
  <2>2. events' \in [Generations -> DayRows] /\ stamp' \in [Generations -> DayRows]
    BY <1>1, <1>3 DEF DayRows
  <2> QED BY <1>1, <2>1, <2>2 DEF SyncInv, SyncTypes, C!Night
<1>5. OpenIsRecent' /\ StampsAreOfEvents'
  <2>1. ASSUME NEW g \in Generations, NEW d \in C!Days
        PROVE  events'[g][d] = 0 => stamp'[g][d] = 0
    BY <1>1, <1>3 DEF SyncInv, StampsAreOfEvents, DayRows
  <2> QED BY <2>1 DEF OpenIsRecent, StampsAreOfEvents, C!Night
<1>6. LineHolds' /\ SnapshotHolds' /\ EventsAreDue' /\ C!EventsArrive'
  <2>1. ASSUME NEW g \in Generations, NEW d \in C!Days
        PROVE  \/ events'[g][d] = events[g][d] /\ stamp'[g][d] = stamp[g][d]
               \/ stamp'[g][d] >= today - 1
    BY <1>1, <1>3, <2>1 DEF DayRows
  <2> QED BY <1>1, <1>4, <2>1, EventsStep DEF C!Night
<1>7. BarsAreKnown' /\ BarsAreDue' /\ SyncHasBars'
  <2>1. ASSUME NEW t \in Tickers, NEW d \in C!Days
        PROVE  /\ bars[t][d] > 0 => bars'[t][d] > 0
               /\ bars'[t][d] > 0 => d <= today'
               /\ bars'[t][d] # bars[t][d] =>
                    d >= NewestBar - Overlap \/ t \in C!Backfilled' \/ <<t, d>> \in behind'
    <3>1. bars'[t][d] = bars[t][d] \/ (d = today + 1 /\ bars'[t][d] = 1)
      BY <1>1, <1>2 DEF SyncInv, SyncTypes, DayRows
    <3>2. NewestBar \in 0..today /\ Overlap \in Nat /\ d \in Nat
      BY <1>1, NewestBarFacts DEF SyncInv, C!ServingCopyAssumption
    <3>3. bars[t][d] > 0 => d <= today
      BY DEF SyncInv, BarsAreKnown
    <3>4. today' = today + 1
      BY DEF C!Night
    <3>5. bars[t][d] > 0 => bars'[t][d] > 0
      BY <3>1
    <3>6. bars'[t][d] > 0 => d <= today'
      BY <1>1, <3>1, <3>2, <3>3, <3>4
    <3>7. bars'[t][d] # bars[t][d] => d >= NewestBar - Overlap
      BY <1>1, <3>1, <3>2
    <3> QED BY <3>5, <3>6, <3>7
  <2> QED BY <1>1, <1>4, <2>1, BarsStep DEF C!Night
<1> QED BY <1>4, <1>5, <1>6, <1>7 DEF SyncInv

\* A job that writes bars of one ticker.
LEMMA BarWriteKeeps ==
  ASSUME SyncInv, C!ServingCopyAssumption, NEW t \in Tickers, NEW ds \in SUBSET C!Days,
         C!WriteBars(t, ds), behind \subseteq behind',
         \A d \in ds : /\ d <= today
                       /\ d >= NewestBar - Overlap \/ d < C!Min(C!On(bars[t], C!Days)) \/ <<t, d>> \in behind'
  PROVE  SyncInv'
<1>1. bars' = [bars EXCEPT ![t] = [d \in C!Days |-> IF d \in ds THEN @[d] + 1 ELSE @[d]]]
  BY DEF C!WriteBars
<1>2. SyncTypes'
  BY <1>1 DEF SyncInv, SyncTypes, DayRows, C!WriteBars, C!serving
<1>3. OpenIsRecent' /\ StampsAreOfEvents'
  BY DEF SyncInv, OpenIsRecent, StampsAreOfEvents, C!WriteBars, C!serving
<1>4. LineHolds' /\ SnapshotHolds' /\ EventsAreDue' /\ C!EventsArrive'
  <2>1. today \in Nat
    BY ServingFacts DEF SyncInv, SyncTypes
  <2> QED BY <1>2, <2>1, EventsStep DEF C!WriteBars, C!serving
<1>5. ASSUME NEW u \in Tickers, NEW d \in C!Days
      PROVE  /\ bars[u][d] \in Nat
             /\ bars'[u][d] = bars[u][d] \/ (u = t /\ d \in ds /\ bars'[u][d] = bars[u][d] + 1)
  BY <1>1 DEF SyncInv, SyncTypes, DayRows
<1>6. \A u \in Tickers, d \in C!Days : bars[u][d] > 0 => bars'[u][d] > 0
  BY <1>5
<1>7. bars' \in [Tickers -> DayRows] /\ chart' = chart
  BY <1>2 DEF SyncTypes, C!WriteBars, C!serving
<1>8. \A u \in Tickers, d \in C!Days :
        bars'[u][d] > 0 /\ d < C!Min(C!On(bars[u], C!Days)) => u \in C!Backfilled'
  BY <1>6, <1>7, BackfilledGrows DEF SyncInv
<1>9. BarsAreKnown' /\ BarsAreDue' /\ SyncHasBars'
  <2>1. ASSUME NEW u \in Tickers, NEW d \in C!Days
        PROVE  /\ bars'[u][d] > 0 => d <= today'
               /\ bars'[u][d] # bars[u][d] =>
                    d >= NewestBar - Overlap \/ u \in C!Backfilled' \/ <<u, d>> \in behind'
    <3>1. today' = today
      BY DEF C!WriteBars
    <3>2. bars[u][d] > 0 => d <= today
      BY DEF SyncInv, BarsAreKnown
    <3>3. CASE bars'[u][d] = bars[u][d]
      BY <3>1, <3>2, <3>3
    <3>4. CASE bars'[u][d] # bars[u][d]
      BY <1>5, <1>8, <3>1, <3>4
    <3> QED BY <3>3, <3>4
  <2>2. today \in Nat /\ today <= today' /\ UNCHANGED <<chart, sync>> /\ sync = C!Idle
    BY ServingFacts DEF SyncInv, SyncTypes, C!WriteBars, C!serving
  <2> QED BY <1>2, <1>6, <2>1, <2>2, BarsStep
<1> QED BY <1>2, <1>3, <1>4, <1>9 DEF SyncInv

LEMMA OutOfWindowIs == \A d \in C!Days : C!OutOfWindow(d) <=> d < NewestBar - Overlap
BY DEF C!OutOfWindow, NewestBar

LEMMA BarWritersKeep ==
  ASSUME SyncInv, C!ServingCopyAssumption, C!FetchLate \/ C!Restate \/ C!AddHistory
  PROVE  SyncInv'
<1>1. /\ NewestBar \in Int /\ Overlap \in Int /\ C!Days \subseteq Int /\ today \in Int
      /\ LastDay \in Nat /\ C!Days = 1..LastDay /\ today \in C!Days
  <2>1. LastDay \in Nat /\ C!Days = 1..LastDay /\ today \in C!Days
    BY ServingFacts DEF SyncInv, SyncTypes
  <2>2. NewestBar \in Int
    BY NewestBarFacts DEF SyncInv
  <2> QED BY <2>1, <2>2 DEF C!ServingCopyAssumption
<1>2. \A d \in C!Days : ~C!OutOfWindow(d) => d >= NewestBar - Overlap
  BY <1>1, OutOfWindowIs
<1>3. CASE C!FetchLate
  <2>1. PICK t \in Tickers, d \in 1..today : C!WriteBars(t, {d}) /\ C!MissedByWindow(t, {d})
    BY <1>3 DEF C!FetchLate
  <2>2. d \in C!Days /\ d <= today /\ {d} \in SUBSET C!Days
    BY <1>1
  <2>3. behind \subseteq behind' /\ (d >= NewestBar - Overlap \/ <<t, d>> \in behind')
    BY <1>2, <2>1, <2>2 DEF C!MissedByWindow
  <2> QED BY <2>1, <2>2, <2>3, BarWriteKeeps
<1>4. CASE C!Restate
  <2>1. PICK t \in Tickers : C!WriteBars(t, C!On(bars[t], C!Days)) /\ C!MissedByWindow(t, C!On(bars[t], C!Days))
    BY <1>4 DEF C!Restate
  <2>2. C!On(bars[t], C!Days) \in SUBSET C!Days /\ \A d \in C!On(bars[t], C!Days) : d <= today
    BY DEF C!On, SyncInv, BarsAreKnown
  <2>3. /\ behind \subseteq behind'
        /\ \A d \in C!On(bars[t], C!Days) : d >= NewestBar - Overlap \/ <<t, d>> \in behind'
    BY <1>2, <2>1, <2>2 DEF C!MissedByWindow
  <2> HIDE DEF C!On
  <2> QED BY <2>1, <2>2, <2>3, BarWriteKeeps
<1>5. CASE C!AddHistory
  <2>1. PICK t \in Tickers : /\ C!WriteBars(t, {d \in C!Days : d < C!Min(C!On(bars[t], C!Days))})
                             /\ behind' = behind
    BY <1>5 DEF C!AddHistory
  <2> DEFINE older == {d \in C!Days : d < C!Min(C!On(bars[t], C!Days))}
  <2>2. C!On(bars[t], C!Days) \in SUBSET (1..LastDay) /\ FirstDay \in C!On(bars[t], C!Days)
    BY <1>1, ServingFacts DEF C!On, SyncInv, BarsAreKnown
  <2>3. C!Min(C!On(bars[t], C!Days)) \in C!On(bars[t], C!Days)
    BY <1>1, <2>2, FirstOfDays
  <2>4. C!Min(C!On(bars[t], C!Days)) <= today /\ C!Min(C!On(bars[t], C!Days)) \in Int
    BY <1>1, <2>2, <2>3 DEF C!On, SyncInv, BarsAreKnown
  <2>5. \A d \in older : d <= today /\ d < C!Min(C!On(bars[t], C!Days))
    BY <1>1, <2>4
  <2>6. older \in SUBSET C!Days /\ C!WriteBars(t, older)
    BY <2>1
  <2> HIDE DEF older
  <2> QED BY <2>1, <2>5, <2>6, BarWriteKeeps
<1> QED BY <1>3, <1>4, <1>5

\* A step that leaves the bars and the syncs alone.
LEMMA BarsKept ==
  ASSUME SyncInv, C!ServingCopyAssumption, UNCHANGED <<bars, chart, behind, sync>>,
         today' \in C!Days, today <= today'
  PROVE  BarsAreKnown' /\ BarsAreDue' /\ SyncHasBars'
<1>1. today \in Int /\ today' \in Int /\ C!Days \subseteq Int
  BY ServingFacts DEF SyncInv, SyncTypes
<1>2. NewestBar' = NewestBar /\ C!Backfilled' = C!Backfilled
  BY DEF NewestBar, C!Backfilled
<1> QED BY <1>1, <1>2 DEF SyncInv, BarsAreKnown, BarsAreDue, SyncHasBars

\* A step of a writer of events, or of the setting.
LEMMA EventWritersKeep ==
  ASSUME SyncInv, C!ServingCopyAssumption,
         C!BeginModify \/ C!Commit \/ C!Midnight \/ C!Rebuild \/ C!SetDefault \/ C!SyncConfig
  PROVE  SyncInv'
<1>1. /\ LastDay \in Nat /\ C!Days = 1..LastDay /\ today \in C!Days /\ today \in Nat
      /\ open.at \in Nat /\ open.gen \in Generations
      /\ events \in [Generations -> DayRows] /\ stamp \in [Generations -> DayRows]
  BY ServingFacts DEF SyncInv, SyncTypes
<1>2. /\ UNCHANGED <<bars, chart, behind, sync, copy, passed, synced>>
      /\ today' \in C!Days /\ today <= today'
      /\ today' = today \/ (today' = today + 1 /\ open.at = today)
  BY <1>1 DEF C!BeginModify, C!Commit, C!Midnight, C!Rebuild, C!SetDefault, C!SyncConfig, C!serving
<1>3. /\ events' \in [Generations -> DayRows] /\ stamp' \in [Generations -> DayRows]
      /\ \A g \in Generations, d \in C!Days :
           /\ events'[g][d] = 0 => stamp'[g][d] = 0
           /\ \/ events'[g][d] = events[g][d] /\ stamp'[g][d] = stamp[g][d]
              \/ stamp'[g][d] >= today - 1
  <2>1. CASE C!Commit
    <3>1. open.at >= today - 1
      BY <1>1, <2>1 DEF C!Commit, SyncInv, OpenIsRecent
    <3>2. /\ events' = [events EXCEPT ![open.gen] =
                          [events[open.gen] EXCEPT ![open.day] = events[open.gen][open.day] + 1]]
          /\ stamp' = [stamp EXCEPT ![open.gen] = [stamp[open.gen] EXCEPT ![open.day] = open.at]]
      BY <2>1 DEF C!Commit
    <3>3. ASSUME NEW g \in Generations, NEW d \in C!Days
          PROVE  /\ events'[g][d] \in Nat /\ stamp'[g][d] \in Nat
                 /\ events'[g][d] = 0 => stamp'[g][d] = 0
                 /\ \/ events'[g][d] = events[g][d] /\ stamp'[g][d] = stamp[g][d]
                    \/ stamp'[g][d] >= today - 1
      <4>1. events[g] \in DayRows /\ stamp[g] \in DayRows /\ events[g][d] \in Nat /\ stamp[g][d] \in Nat
        BY <1>1 DEF DayRows
      <4>2. CASE g = open.gen /\ d = open.day
        BY <1>1, <3>1, <3>2, <4>1, <4>2 DEF DayRows
      <4>3. CASE ~(g = open.gen /\ d = open.day)
        BY <1>1, <3>2, <4>1, <4>3 DEF DayRows, SyncInv, StampsAreOfEvents
      <4> QED BY <4>2, <4>3
    <3>4. ASSUME NEW g \in Generations
          PROVE  events'[g] \in DayRows /\ stamp'[g] \in DayRows
      BY <1>1, <3>2, <3>3 DEF DayRows
    <3> QED BY <1>1, <3>2, <3>3, <3>4
  <2>2. CASE C!Rebuild
    <3>1. PICK g \in Generations :
            /\ events' = [events EXCEPT ![g] = [d \in C!Days |-> IF d <= today THEN 1 ELSE 0]]
            /\ stamp' = [stamp EXCEPT ![g] = [d \in C!Days |-> IF d <= today THEN today ELSE 0]]
            /\ C!On(events[g], C!Days) = {}
      BY <2>2 DEF C!Rebuild
    <3>2. ASSUME NEW h \in Generations PROVE events'[h] \in DayRows /\ stamp'[h] \in DayRows
      BY <1>1, <3>1 DEF DayRows
    <3>3. \A d \in C!Days : events[g][d] = 0 /\ stamp[g][d] = 0
      <4> SUFFICES ASSUME NEW d \in C!Days PROVE events[g][d] = 0 /\ stamp[g][d] = 0
        OBVIOUS
      <4>1. d \notin C!On(events[g], C!Days)
        BY <3>1
      <4>2. events[g][d] \in Nat
        BY <1>1 DEF DayRows
      <4>3. events[g][d] = 0
        BY <4>1, <4>2 DEF C!On
      <4> QED BY <4>3 DEF SyncInv, StampsAreOfEvents
    <3>4. ASSUME NEW h \in Generations, NEW d \in C!Days
          PROVE  /\ events'[h][d] = 0 => stamp'[h][d] = 0
                 /\ \/ events'[h][d] = events[h][d] /\ stamp'[h][d] = stamp[h][d]
                    \/ stamp'[h][d] >= today - 1
      BY <1>1, <3>1, <3>3 DEF SyncInv, StampsAreOfEvents
    <3> QED BY <1>1, <3>1, <3>2, <3>4
  <2>3. CASE C!BeginModify \/ C!Midnight \/ C!SetDefault \/ C!SyncConfig
    BY <1>1, <2>3 DEF C!BeginModify, C!Midnight, C!SetDefault, C!SyncConfig, SyncInv, StampsAreOfEvents
  <2> QED BY <2>1, <2>2, <2>3
<1>4. SyncTypes'
  <2>1. open' \in [day : Nat, gen : Generations, at : Nat]
    BY <1>1, ServingFacts
       DEF SyncInv, SyncTypes, C!BeginModify, C!Commit, C!Midnight, C!Rebuild, C!SetDefault, C!SyncConfig
  <2>2. setting' \in Generations /\ pin' \in Generations /\ served' \in Generations
    BY DEF SyncInv, SyncTypes, C!BeginModify, C!Commit, C!Midnight, C!Rebuild, C!SetDefault, C!SyncConfig,
           C!serving
  <2>3. synced' \in 1..today' /\ (sync' # C!Idle => sync'.start \in synced'..today')
    BY <1>1, <1>2 DEF SyncInv, SyncTypes, Syncs
  <2> QED BY <1>2, <1>3, <2>1, <2>2, <2>3 DEF SyncInv, SyncTypes
<1>5. OpenIsRecent' /\ StampsAreOfEvents'
  BY <1>1, <1>3 DEF StampsAreOfEvents, SyncInv, OpenIsRecent, C!BeginModify, C!Commit, C!Midnight, C!Rebuild,
                    C!SetDefault, C!SyncConfig
<1>6. LineHolds' /\ SnapshotHolds' /\ EventsAreDue' /\ C!EventsArrive'
  BY <1>2, <1>3, <1>4, EventsStep
<1>7. BarsAreKnown' /\ BarsAreDue' /\ SyncHasBars'
  BY <1>2, BarsKept
<1> QED BY <1>4, <1>5, <1>6, <1>7 DEF SyncInv

LEMMA SyncStartKeeps == ASSUME SyncInv, C!ServingCopyAssumption, C!SyncStart PROVE SyncInv'
<1>1. /\ LastDay \in Nat /\ C!Days = 1..LastDay /\ today \in C!Days /\ today \in Nat
      /\ Overlap \in Nat /\ ModOverlap \in Nat /\ ModOverlap >= 1 /\ synced \in 1..today
      /\ setting \in Generations /\ pin \in Generations /\ bars \in [Tickers -> DayRows]
      /\ events \in [Generations -> DayRows] /\ copy \in [Generations -> DayRows]
      /\ stamp \in [Generations -> DayRows]
  BY ServingFacts DEF SyncInv, SyncTypes, C!ServingCopyAssumption
<1>2. PICK incremental \in BOOLEAN, readable \in BOOLEAN : C!Start(incremental, readable)
  BY DEF C!SyncStart
<1> DEFINE inc == incremental /\ readable
           line == C!From(C!Newest(C!On(copy[setting], C!Days)))
<1>3. /\ sync'.phase = "bars" /\ sync'.start = today /\ sync'.gen = setting
      /\ sync'.from = IF inc THEN C!From(NewestBar) ELSE 0
      /\ sync'.whole = IF inc THEN C!Backfilled ELSE {}
      /\ sync'.eventsFrom = IF inc THEN line ELSE 0
      /\ sync'.since = IF inc THEN C!Since ELSE 0
      /\ sync'.bars = bars /\ sync'.events = events[setting] /\ sync'.stamp = stamp[setting]
      /\ sync'.pin = pin
  BY <1>2 DEF C!Start, NewestBar
<1>4. UNCHANGED <<C!research, C!serving, synced, behind, passed>> /\ sync = C!Idle
  BY DEF C!SyncStart
<1>5. UNCHANGED <<today, bars, events, stamp, open, setting, pin, chart, copy, served>>
  BY <1>4 DEF C!research, C!serving
<1>6. NewestBar \in 0..today
  BY NewestBarFacts DEF SyncInv
<1>7. line \in Int /\ C!From(NewestBar) \in Int /\ C!From(NewestBar) <= today
  <2>1. C!On(copy[setting], C!Days) \in SUBSET C!Days
    BY DEF C!On
  <2>2. C!Newest(C!On(copy[setting], C!Days)) \in 0..LastDay
    BY <2>1, NewestIn
  <2>3. C!Newest(C!On(copy[setting], C!Days)) \in Int /\ NewestBar \in Int
    BY <1>1, <1>6, <2>2
  <2>4. \A n \in Int : C!From(n) \in Int
    BY <1>1 DEF C!From
  <2> QED BY <1>1, <1>6, <2>3, <2>4 DEF C!From
<1>8. C!Since \in Int /\ C!Since <= synced - 1
  BY <1>1 DEF C!Since
<1>9. sync' # C!Idle
  BY <1>3 DEF C!Idle
<1>10. sync' \in Syncs
  <2>1. sync' = [phase |-> "bars", start |-> today, gen |-> setting,
                 from |-> sync'.from, whole |-> sync'.whole, eventsFrom |-> sync'.eventsFrom,
                 since |-> sync'.since, bars |-> bars, events |-> events[setting],
                 stamp |-> stamp[setting], pin |-> pin]
    BY <1>2 DEF C!Start
  <2>2. /\ sync'.from \in Int /\ sync'.eventsFrom \in Int /\ sync'.since \in Int
        /\ sync'.whole \in SUBSET Tickers
    BY <1>3, <1>7, <1>8 DEF C!Backfilled
  <2> QED BY <1>1, <2>1, <2>2 DEF Syncs
<1>11. SyncTypes'
  BY <1>1, <1>3, <1>4, <1>5, <1>9, <1>10 DEF SyncInv, SyncTypes
<1>12. OpenIsRecent' /\ StampsAreOfEvents' /\ LineHolds'
  BY <1>4, <1>5 DEF SyncInv, OpenIsRecent, StampsAreOfEvents, LineHolds
<1>13. SnapshotHolds'
  BY <1>3, <1>5 DEF SnapshotHolds
<1>14. EventsAreDue'
  <2> SUFFICES ASSUME NEW d \in C!Days, events[setting][d] > 0,
                      copy[setting][d] # events[setting][d], <<setting, d>> \notin passed
               PROVE  stamp[setting][d] >= sync'.since
    BY <1>3, <1>4, <1>5 DEF EventsAreDue, C!ShipsEvent
  <2>1. stamp[setting][d] >= synced - 1 /\ stamp[setting][d] \in Nat
    BY <1>1 DEF SyncInv, LineHolds, DayRows
  <2> QED BY <1>1, <1>3, <1>8, <2>1
<1>15. C!EventsArrive'
  BY <1>3 DEF C!EventsArrive
<1>16. BarsAreKnown' /\ BarsAreDue'
  <2>1. NewestBar' = NewestBar /\ C!Backfilled' = C!Backfilled
    BY <1>5 DEF NewestBar, C!Backfilled
  <2> QED BY <1>4, <1>5, <2>1 DEF SyncInv, BarsAreKnown, BarsAreDue
<1>17. SyncHasBars'
  <2>1. NewestBar' = NewestBar /\ C!Backfilled' = C!Backfilled
    BY <1>5 DEF NewestBar, C!Backfilled
  <2>2. sync'.from <= today
    BY <1>1, <1>3, <1>7
  <2>3. sync'.from = 0 \/ (sync'.from = NewestBar - Overlap /\ sync'.whole = C!Backfilled)
    BY <1>3 DEF C!From
  <2> QED BY <1>3, <1>5, <2>1, <2>2, <2>3 DEF SyncHasBars
<1> QED BY <1>11, <1>12, <1>13, <1>14, <1>15, <1>16, <1>17 DEF SyncInv

\* Some of the bars to ship reach serving. What is still lacking is in the next window,
\* of a ticker shipped whole, or behind.
LEMMA BarsShippedKeep ==
  ASSUME SyncInv, C!ServingCopyAssumption, sync.phase = "bars", NEW ps \in SUBSET C!BarsToShip,
         C!BarsShipped(ps), UNCHANGED C!research
  PROVE  /\ chart' \in [Tickers -> DayRows] /\ BarsAreKnown' /\ BarsAreDue'
         /\ \A t \in Tickers, d \in C!Days :
              chart'[t][d] = IF <<t, d>> \in ps THEN bars[t][d] ELSE chart[t][d]
<1>1. /\ bars \in [Tickers -> DayRows] /\ chart \in [Tickers -> DayRows]
      /\ C!Days = 1..LastDay /\ FirstDay \in C!Days /\ Overlap \in Nat
      /\ UNCHANGED <<today, bars>>
  BY ServingFacts DEF SyncInv, SyncTypes, C!ServingCopyAssumption, C!research
<1>2. sync # C!Idle /\ sync.bars = bars
  BY DEF SyncInv, SyncHasBars, C!Idle
<1>3. ASSUME NEW t \in Tickers, NEW d \in C!Days
      PROVE  /\ chart'[t][d] = IF <<t, d>> \in ps THEN bars[t][d] ELSE chart[t][d]
             /\ <<t, d>> \in C!BarsToShip <=> bars[t][d] > 0 /\ C!ShipsBar(t, d)
             /\ bars[t][d] \in Nat /\ chart[t][d] \in Nat
  <2>1. chart'[t][d] = IF <<t, d>> \in ps THEN bars[t][d] ELSE chart[t][d]
    BY <1>2 DEF C!BarsShipped
  <2>2. <<t, d>> \in C!BarsToShip <=> bars[t][d] > 0 /\ C!ShipsBar(t, d)
    BY <1>2 DEF C!BarsToShip
  <2>3. bars[t][d] \in Nat /\ chart[t][d] \in Nat
    BY <1>1 DEF DayRows
  <2> QED BY <2>1, <2>2, <2>3
<1>4. chart' \in [Tickers -> DayRows]
  <2>1. chart' = [t \in Tickers |-> [d \in C!Days |-> IF <<t, d>> \in ps THEN bars[t][d] ELSE chart[t][d]]]
    BY <1>2 DEF C!BarsShipped
  <2>2. \A t \in Tickers, d \in C!Days :
          (IF <<t, d>> \in ps THEN bars[t][d] ELSE chart[t][d]) \in Nat
    BY <1>3
  <2>3. \A t \in Tickers :
          [d \in C!Days |-> IF <<t, d>> \in ps THEN bars[t][d] ELSE chart[t][d]] \in DayRows
    BY <2>2 DEF DayRows
  <2> QED BY <2>1, <2>3
<1>5. BarsAreKnown'
  <2> SUFFICES ASSUME NEW t \in Tickers
               PROVE  /\ bars[t][FirstDay] > 0 /\ chart'[t][FirstDay] > 0
                      /\ \A d \in C!Days : (bars[t][d] > 0 => d <= today) /\ (chart'[t][d] > 0 => bars[t][d] > 0)
    BY <1>1 DEF BarsAreKnown
  <2> QED BY <1>1, <1>3 DEF SyncInv, BarsAreKnown
<1>6. BarsAreDue'
  <2> SUFFICES ASSUME NEW t \in Tickers, NEW d \in C!Days, bars[t][d] > 0,
                      chart'[t][d] # bars[t][d], <<t, d>> \notin behind',
                      ~(d >= NewestBar' - Overlap), t \notin C!Backfilled'
               PROVE  FALSE
    BY <1>1 DEF BarsAreDue
  <2>1. <<t, d>> \notin ps /\ chart[t][d] # bars[t][d] /\ <<t, d>> \notin behind
    BY <1>3 DEF C!BarsShipped
  <2>2. d >= NewestBar - Overlap \/ t \in C!Backfilled
    BY <2>1 DEF SyncInv, BarsAreDue
  <2>3. sync.from = 0 \/ (sync.from = NewestBar - Overlap /\ sync.whole = C!Backfilled)
    BY DEF SyncInv, SyncHasBars
  <2>4. C!ShipsBar(t, d)
    BY <1>1, <2>2, <2>3 DEF C!ShipsBar
  <2>5. <<t, d>> \in C!BarsToShip \ ps
    BY <1>3, <2>1, <2>4
  <2>6. NewestBar' \in Int /\ d \in Int
    <3>1. C!Newest(UNION {C!On(chart[t_1], C!Days) : t_1 \in Tickers})' \in 0..LastDay
      <4>1. (UNION {C!On(chart[t_1], C!Days) : t_1 \in Tickers})' \in SUBSET C!Days
        BY DEF C!On
      <4>2. \A ds \in SUBSET C!Days : C!Newest(ds) \in 0..LastDay
        BY NewestIn
      <4> QED BY <4>1, <4>2 DEF C!Newest
    <3> QED BY <1>1, <3>1 DEF NewestBar
  <2>7. C!OutOfWindow(d)'
    BY <1>1, <2>6 DEF C!OutOfWindow, NewestBar
  <2>8. chart[t][d] # sync.bars[t][d]
    BY <1>2, <2>1
  <2>9. <<t, d>> \in behind'
    BY <2>5, <2>7, <2>8 DEF C!BarsShipped
  <2> QED BY <2>9
<1> QED BY <1>3, <1>4, <1>5, <1>6

LEMMA CopyBarsKeeps == ASSUME SyncInv, C!ServingCopyAssumption, C!CopyBars PROVE SyncInv'
<1>1. /\ LastDay \in Nat /\ C!Days = 1..LastDay /\ today \in C!Days /\ today \in Nat /\ FirstDay \in C!Days
      /\ Overlap \in Nat /\ bars \in [Tickers -> DayRows] /\ chart \in [Tickers -> DayRows]
  BY ServingFacts DEF SyncInv, SyncTypes, C!ServingCopyAssumption
<1>2. sync # C!Idle /\ sync \in Syncs /\ sync.start \in synced..today /\ synced \in 1..today
  BY DEF SyncInv, SyncTypes, C!CopyBars, C!Idle
<1>3. sync.start \in C!Days /\ sync.start \in Nat
  BY <1>1, <1>2
<1>4. sync.bars = bars /\ sync.from <= sync.start /\ sync.from \in Int
  BY <1>2 DEF SyncInv, SyncHasBars, Syncs
<1>5. /\ sync' \in Syncs /\ sync'.phase = "events"
      /\ sync'.start = sync.start /\ sync'.gen = sync.gen /\ sync'.from = sync.from
      /\ sync'.eventsFrom = sync.eventsFrom /\ sync'.since = sync.since
      /\ sync'.bars = sync.bars /\ sync'.events = sync.events /\ sync'.stamp = sync.stamp
  BY <1>2 DEF C!CopyBars, Syncs
<1>6. UNCHANGED <<today, bars, events, stamp, open, setting, pin, copy, served, synced, passed>>
  BY DEF C!CopyBars, C!research
<1>7. sync' # C!Idle
  BY <1>5 DEF C!Idle
<1>8. ASSUME NEW t \in Tickers, NEW d \in C!Days
      PROVE  /\ chart'[t][d] = IF bars[t][d] > 0 /\ C!ShipsBar(t, d) THEN bars[t][d] ELSE chart[t][d]
             /\ <<t, d>> \in behind' <=> <<t, d>> \in behind /\ ~(bars[t][d] > 0 /\ C!ShipsBar(t, d))
             /\ bars[t][d] \in Nat /\ chart[t][d] \in Nat
  <2>1. <<t, d>> \in C!BarsToShip <=> bars[t][d] > 0 /\ C!ShipsBar(t, d)
    BY <1>4 DEF C!BarsToShip
  <2>2. behind' = behind \ C!BarsToShip
    BY DEF C!CopyBars, C!BarsShipped
  <2>3. chart'[t][d] = IF <<t, d>> \in C!BarsToShip THEN bars[t][d] ELSE chart[t][d]
    BY <1>4 DEF C!CopyBars, C!BarsShipped
  <2> QED BY <1>1, <2>1, <2>2, <2>3 DEF DayRows
<1>9. chart' \in [Tickers -> DayRows] /\ BarsAreKnown' /\ BarsAreDue'
  BY BarsShippedKeep, C!BarsToShip \in SUBSET C!BarsToShip DEF C!CopyBars
<1>10. SyncTypes'
  BY <1>2, <1>5, <1>6, <1>7, <1>9 DEF SyncInv, SyncTypes
<1>11. OpenIsRecent' /\ StampsAreOfEvents' /\ LineHolds' /\ SnapshotHolds'
  BY <1>2, <1>5, <1>6 DEF SyncInv, OpenIsRecent, StampsAreOfEvents, LineHolds, SnapshotHolds
<1>12. EventsAreDue' /\ C!EventsArrive'
  BY <1>5, <1>6 DEF SyncInv, EventsAreDue, C!ShipsEvent, C!EventsArrive, C!CopyBars
<1>13. ASSUME NEW t \in Tickers, NEW d \in C!Days, bars[t][d] > 0, <<t, d>> \notin behind'
       PROVE  chart'[t][d] = bars[t][d]
  <2>1. CASE <<t, d>> \in behind
    BY <1>8, <1>13, <2>1
  <2>2. CASE <<t, d>> \notin behind /\ chart[t][d] # bars[t][d]
    <3>1. d >= NewestBar - Overlap \/ t \in C!Backfilled
      BY <1>13, <2>2 DEF SyncInv, BarsAreDue
    <3>2. sync.from = 0 \/ (sync.from = NewestBar - Overlap /\ sync.whole = C!Backfilled)
      BY DEF SyncInv, SyncHasBars, C!CopyBars
    <3>3. C!ShipsBar(t, d)
      BY <1>1, <3>1, <3>2 DEF C!ShipsBar
    <3> QED BY <1>8, <1>13, <3>3
  <2>3. CASE <<t, d>> \notin behind /\ chart[t][d] = bars[t][d]
    BY <1>8, <2>3
  <2> QED BY <2>1, <2>2, <2>3
<1>14. \A t \in Tickers : bars[t][sync.start] > 0 => chart'[t][sync.start] > 0
  <2> SUFFICES ASSUME NEW t \in Tickers, bars[t][sync.start] > 0
               PROVE  chart'[t][sync.start] > 0
    OBVIOUS
  <2>1. C!ShipsBar(t, sync.start)
    BY <1>3, <1>4 DEF C!ShipsBar
  <2> QED BY <1>3, <1>8, <2>1
<1>15. SyncHasBars'
  BY <1>4, <1>5, <1>6, <1>13, <1>14 DEF SyncHasBars
<1> QED BY <1>9, <1>10, <1>11, <1>12, <1>15 DEF SyncInv

\* Some days of the events reach serving.
LEMMA ShippedKeeps ==
  ASSUME SyncInv, C!ServingCopyAssumption, sync.phase = "events", NEW ds \in SUBSET C!Days, C!Shipped(ds),
         UNCHANGED <<C!research, chart, served, synced, behind>>
  PROVE  /\ copy' \in [Generations -> DayRows] /\ LineHolds'
         /\ ds = C!Days => \A d \in C!Days : sync.events[d] > 0 /\ <<sync.gen, d>> \notin passed'
                                         => copy'[sync.gen][d] = sync.events[d]
<1> DEFINE g == sync.gen
           shipped == {d \in ds : sync.events[d] > 0 /\ C!ShipsEvent(d)}
<1>1. /\ sync # C!Idle /\ sync \in Syncs /\ g \in Generations /\ sync.events \in DayRows
      /\ sync.start \in synced..today /\ synced \in 1..today /\ today \in Nat
      /\ copy \in [Generations -> DayRows] /\ stamp \in [Generations -> DayRows]
  BY ServingFacts DEF SyncInv, SyncTypes, Syncs, C!Idle
<1>2. /\ copy' = [copy EXCEPT ![g] = [d \in C!Days |-> IF d \in shipped THEN sync.events[d] ELSE copy[g][d]]]
      /\ passed' = {e \in passed : e[1] # g \/ e[2] \notin shipped}
  BY DEF C!Shipped
<1>3. UNCHANGED <<events, stamp, synced>>
  BY DEF C!research
<1>4. ASSUME NEW h \in Generations, NEW d \in C!Days
      PROVE  /\ copy'[h][d] = IF h = g /\ d \in shipped THEN sync.events[d] ELSE copy[h][d]
             /\ <<h, d>> \in passed' <=> <<h, d>> \in passed /\ ~(h = g /\ d \in shipped)
  BY <1>1, <1>2
<1>5. copy' \in [Generations -> DayRows]
  BY <1>1, <1>2 DEF DayRows
<1>6. LineHolds'
  <2> SUFFICES ASSUME NEW h \in Generations, NEW d \in C!Days,
                      events[h][d] > 0, copy'[h][d] # events[h][d], <<h, d>> \notin passed'
               PROVE  stamp[h][d] >= synced - 1
    BY <1>3 DEF LineHolds
  <2>1. CASE h = g /\ d \in shipped
    <3>1. events[g][d] # sync.events[d]
      BY <1>4, <2>1
    <3>2. stamp[g][d] >= sync.start - 1 /\ stamp[g][d] \in Nat
      BY <1>1, <3>1 DEF SyncInv, SnapshotHolds, DayRows
    <3> QED BY <1>1, <2>1, <3>2
  <2>2. CASE ~(h = g /\ d \in shipped)
    BY <1>4, <2>2 DEF SyncInv, LineHolds
  <2> QED BY <2>1, <2>2
<1>7. ASSUME ds = C!Days, NEW d \in C!Days, sync.events[d] > 0, <<g, d>> \notin passed'
      PROVE  copy'[g][d] = sync.events[d]
  <2>1. CASE d \in shipped
    BY <1>1, <1>4, <2>1
  <2>2. CASE d \notin shipped
    <3>1. <<g, d>> \notin passed /\ copy'[g][d] = copy[g][d]
      BY <1>1, <1>4, <1>7, <2>2
    <3>2. ~C!ShipsEvent(d)
      BY <1>7, <2>2
    <3> QED BY <1>7, <3>1, <3>2 DEF SyncInv, EventsAreDue
  <2> QED BY <2>1, <2>2
<1> QED BY <1>5, <1>6, <1>7

LEMMA CopyEventsKeeps == ASSUME SyncInv, C!ServingCopyAssumption, C!CopyEvents PROVE SyncInv'
<1>1. /\ sync # C!Idle /\ sync \in Syncs /\ sync.start \in synced..today /\ synced \in 1..today
      /\ today \in Nat
  BY ServingFacts DEF SyncInv, SyncTypes, C!CopyEvents, C!Idle
<1>2. /\ sync' \in Syncs /\ sync'.phase = "pin" /\ sync' # C!Idle
      /\ sync'.start = sync.start /\ sync'.gen = sync.gen /\ sync'.from = sync.from
      /\ sync'.bars = sync.bars /\ sync'.events = sync.events
  BY <1>1 DEF C!CopyEvents, Syncs, C!Idle
<1>3. UNCHANGED <<today, bars, events, stamp, open, setting, pin, chart, served, synced, behind>>
  BY DEF C!CopyEvents, C!research
<1>4. /\ copy' \in [Generations -> DayRows] /\ LineHolds'
      /\ \A d \in C!Days : sync.events[d] > 0 /\ <<sync.gen, d>> \notin passed'
                         => copy'[sync.gen][d] = sync.events[d]
  BY ShippedKeeps, C!Days \in SUBSET C!Days DEF C!CopyEvents
<1>5. SyncTypes'
  BY <1>1, <1>2, <1>3, <1>4 DEF SyncInv, SyncTypes
<1>6. OpenIsRecent' /\ StampsAreOfEvents' /\ SnapshotHolds'
  BY <1>1, <1>2, <1>3 DEF SyncInv, OpenIsRecent, StampsAreOfEvents, SnapshotHolds
<1>7. EventsAreDue' /\ C!EventsArrive'
  BY <1>2, <1>4 DEF EventsAreDue, C!EventsArrive
<1>8. NewestBar' = NewestBar /\ C!Backfilled' = C!Backfilled
  BY <1>3 DEF NewestBar, C!Backfilled
<1>9. BarsAreKnown' /\ BarsAreDue'
  BY <1>3, <1>8 DEF SyncInv, BarsAreKnown, BarsAreDue
<1>10. SyncHasBars'
  BY <1>1, <1>2, <1>3 DEF SyncInv, SyncHasBars, C!CopyEvents
<1> QED BY <1>4, <1>5, <1>6, <1>7, <1>9, <1>10 DEF SyncInv

\* A sync that ends, in whatever way, leaves the bars as they are.
LEMMA EndKeepsBars ==
  ASSUME SyncInv, sync' = C!Idle, UNCHANGED <<today, bars, chart, behind>>
  PROVE  BarsAreKnown' /\ BarsAreDue' /\ SyncHasBars'
<1>1. NewestBar' = NewestBar /\ C!Backfilled' = C!Backfilled
  BY DEF NewestBar, C!Backfilled
<1>2. sync'.phase = "idle"
  BY DEF C!Idle
<1> QED BY <1>1, <1>2 DEF SyncInv, BarsAreKnown, BarsAreDue, SyncHasBars

LEMMA EndsKeep == ASSUME SyncInv, C!ServingCopyAssumption, C!CopyPin \/ C!Stop \/ C!Cut PROVE SyncInv'
<1>1. /\ sync' = C!Idle /\ sync'.phase = "idle" /\ C!Idle \in Syncs
      /\ UNCHANGED <<today, bars, events, stamp, open, setting, pin>>
  BY ServingFacts DEF C!CopyPin, C!Stop, C!Cut, C!research, C!serving
<1>2. UNCHANGED <<chart, behind>> => BarsAreKnown' /\ BarsAreDue' /\ SyncHasBars'
  BY <1>1, EndKeepsBars
<1>3. OpenIsRecent' /\ StampsAreOfEvents' /\ SnapshotHolds' /\ EventsAreDue' /\ C!EventsArrive'
  BY <1>1 DEF SyncInv, OpenIsRecent, StampsAreOfEvents, SnapshotHolds, EventsAreDue, C!EventsArrive
<1>4. today \in Nat /\ synced \in 1..today
  BY ServingFacts DEF SyncInv, SyncTypes
<1>5. CASE C!Stop
  <2>1. UNCHANGED <<chart, behind, copy, served, synced, passed>>
    BY <1>5 DEF C!Stop, C!serving
  <2>2. SyncTypes' /\ LineHolds'
    BY <1>1, <2>1 DEF SyncInv, SyncTypes, LineHolds
  <2> QED BY <1>2, <1>3, <2>1, <2>2 DEF SyncInv
<1>6. CASE C!Cut
  <2>1. UNCHANGED <<C!research, served, synced>>
    BY <1>6 DEF C!Cut
  <2>2. CASE sync.phase = "bars"
    <3>1. PICK ps \in SUBSET C!BarsToShip : C!BarsShipped(ps)
      BY <1>6, <2>2 DEF C!Cut
    <3>2. chart' \in [Tickers -> DayRows] /\ BarsAreKnown' /\ BarsAreDue'
      BY <2>1, <2>2, <3>1, BarsShippedKeep
    <3>3. UNCHANGED <<copy, passed>>
      BY <1>6, <2>2 DEF C!Cut
    <3>4. SyncTypes' /\ LineHolds' /\ SyncHasBars'
      BY <1>1, <2>1, <3>2, <3>3 DEF SyncInv, SyncTypes, LineHolds, SyncHasBars
    <3> QED BY <1>3, <3>2, <3>4 DEF SyncInv
  <2>3. CASE sync.phase # "bars"
    <3>1. PICK ds \in SUBSET C!Days : C!Shipped(ds)
      BY <1>6, <2>3 DEF C!Cut
    <3>2. sync.phase = "events" /\ UNCHANGED <<chart, behind>>
      BY <1>6, <2>3 DEF C!Cut
    <3>3. copy' \in [Generations -> DayRows] /\ LineHolds'
      BY <2>1, <3>1, <3>2, ShippedKeeps
    <3>4. SyncTypes'
      BY <1>1, <2>1, <3>2, <3>3 DEF SyncInv, SyncTypes
    <3> QED BY <1>2, <1>3, <3>2, <3>3, <3>4 DEF SyncInv
  <2> QED BY <2>2, <2>3
<1>7. CASE C!CopyPin
  <2>1. /\ sync # C!Idle /\ sync \in Syncs /\ sync.gen \in Generations /\ sync.pin \in Generations
        /\ sync.start \in synced..today
    BY <1>7 DEF SyncInv, SyncTypes, Syncs, C!CopyPin, C!Idle
  <2>2. synced' = sync.start /\ served' = sync.pin /\ UNCHANGED <<chart, behind, copy>>
    BY <1>7 DEF C!CopyPin
  <2>3. SyncTypes'
    BY <1>1, <1>4, <2>1, <2>2 DEF SyncInv, SyncTypes
  <2>4. LineHolds'
    <3> SUFFICES ASSUME NEW h \in Generations, NEW d \in C!Days,
                        events[h][d] > 0, copy[h][d] # events[h][d], <<h, d>> \notin passed'
                 PROVE  stamp[h][d] >= sync.start - 1
      BY <1>1, <2>2 DEF LineHolds
    <3>1. <<h, d>> \notin passed /\ h = sync.gen
      BY <1>7 DEF C!CopyPin
    <3>2. sync.events \in DayRows /\ sync.events[d] \in Nat
      BY <2>1 DEF Syncs, DayRows
    <3>3. sync.events[d] > 0 => copy[h][d] = sync.events[d]
      BY <1>7, <3>1 DEF SyncInv, C!EventsArrive, C!CopyPin
    <3>4. events[h][d] # sync.events[d]
      BY <3>2, <3>3
    <3> QED BY <2>1, <3>1, <3>4 DEF SyncInv, SnapshotHolds
  <2> QED BY <1>2, <1>3, <2>2, <2>3, <2>4 DEF SyncInv
<1> QED BY <1>5, <1>6, <1>7

LEMMA ServingStep == ASSUME C!ServingCopyAssumption, SyncInv, [C!Next]_(C!vars) PROVE SyncInv'
<1>1. CASE UNCHANGED C!vars
  <2>1. NewestBar' = NewestBar /\ C!Backfilled' = C!Backfilled
    BY <1>1 DEF C!vars, NewestBar, C!Backfilled
  <2> QED BY <1>1, <2>1
       DEF C!vars, SyncInv, SyncTypes, OpenIsRecent, StampsAreOfEvents, LineHolds, SnapshotHolds,
           EventsAreDue, C!ShipsEvent, BarsAreKnown, BarsAreDue, SyncHasBars, C!EventsArrive
<1>2. CASE C!Night
  BY <1>2, NightKeeps
<1>3. CASE C!FetchLate \/ C!Restate \/ C!AddHistory
  BY <1>3, BarWritersKeep
<1>4. CASE C!BeginModify \/ C!Commit \/ C!Midnight \/ C!Rebuild \/ C!SetDefault \/ C!SyncConfig
  BY <1>4, EventWritersKeep
<1>5. CASE C!SyncStart
  BY <1>5, SyncStartKeeps
<1>6. CASE C!CopyBars
  BY <1>6, CopyBarsKeeps
<1>7. CASE C!CopyEvents
  BY <1>7, CopyEventsKeeps
<1>8. CASE C!CopyPin \/ C!Stop \/ C!Cut
  BY <1>8, EndsKeep
<1> QED BY <1>1, <1>2, <1>3, <1>4, <1>5, <1>6, <1>7, <1>8 DEF C!Next

LEMMA PollsAreLetIn == ASSUME C!ServingCopyAssumption, SyncInv PROVE C!NextPollIsLetIn
<1> SUFFICES ASSUME sync.phase = "pin", NEW t \in Tickers, sync.bars[t][sync.start] > 0
             PROVE  ~C!RefusedAsStale(sync.start) /\ ~C!RefusedAsStale(sync.start + 1)
  BY DEF C!NextPollIsLetIn
<1>1. /\ LastDay \in Nat /\ C!Days = 1..LastDay /\ today \in C!Days /\ FirstDay \in C!Days
      /\ sync # C!Idle /\ sync.start \in synced..today /\ synced \in 1..today
  BY ServingFacts DEF SyncInv, SyncTypes, C!Idle
<1>2. sync.start \in C!Days /\ sync.start \in Nat
  BY <1>1
<1>3. chart[t][sync.start] > 0 /\ chart[t][FirstDay] > 0
  BY <1>1 DEF SyncInv, SyncHasBars, BarsAreKnown
<1>4. NewestBar >= sync.start /\ NewestBar \in Int
  BY <1>2, <1>3, NewestBarFacts DEF SyncInv
<1>5. C!On(chart[t], C!Days) # {}
  BY <1>1, <1>3 DEF C!On
<1>6. \A s : C!SessionsBehind(s) = {d \in 1..s : d > NewestBar}
  BY DEF C!SessionsBehind, NewestBar
<1>7. C!SessionsBehind(sync.start) = {}
  BY <1>2, <1>4, <1>6
<1>8. C!SessionsBehind(sync.start + 1) \in {{}, {sync.start + 1}}
  <2>1. \A d \in 1..(sync.start + 1) : d > NewestBar => d = sync.start + 1
    BY <1>2, <1>4
  <2>2. C!SessionsBehind(sync.start + 1) \subseteq {sync.start + 1}
    BY <1>6, <2>1
  <2> QED BY <2>2
<1>9. C!Cardinality({}) = 0 /\ C!Cardinality({sync.start + 1}) = 1
  BY FS_EmptySet, FS_Singleton DEF C!Cardinality, Cardinality
<1>10. MaxLag \in Nat /\ MaxLag >= 1
  BY DEF C!ServingCopyAssumption
<1>11. C!Cardinality(C!SessionsBehind(sync.start)) = 0
  BY <1>7, <1>9
<1>12. C!Cardinality(C!SessionsBehind(sync.start + 1)) \in {0, 1}
  <2>1. CASE C!SessionsBehind(sync.start + 1) = {}
    BY <1>9, <2>1
  <2>2. CASE C!SessionsBehind(sync.start + 1) = {sync.start + 1}
    BY <1>9, <2>2
  <2> QED BY <1>8, <2>1, <2>2
<1>13. /\ ~(C!Cardinality(C!SessionsBehind(sync.start)) > MaxLag)
       /\ ~(C!Cardinality(C!SessionsBehind(sync.start + 1)) > MaxLag)
  BY <1>10, <1>11, <1>12
<1> QED BY <1>5, <1>13 DEF C!RefusedAsStale

-----------------------------------------------------------------------------
(* ServingCopy: the theorem.                                               *)

\* Whatever is fetched late, restated, modified, rebuilt or switched, and wherever
\* syncs die, between two tables or two chunks of one, a sync that ends ok has shipped
\* every event of its snapshot but those the line passed, and every bar but those written
\* behind the window or left behind it by a copy that was cut; the site moves to a
\* generation only then; and the poller of that day and of the next is let in
\* (jobs/sync run_sync, jobs/poll assert_target_is_current).
THEOREM ServingGetsItAll ==
  ASSUME C!ServingCopyAssumption
  PROVE  C!Spec => /\ [](C!EventsArrive /\ C!BarsArrive /\ C!NextPollIsLetIn)
                 /\ [][C!PinComesLast]_(C!vars)
<1>1. C!Init => SyncInv
  BY ServingInit
<1>2. SyncInv /\ [C!Next]_(C!vars) => SyncInv'
  BY ServingStep
<1>3. SyncInv => C!EventsArrive /\ C!BarsArrive /\ C!NextPollIsLetIn
  <2> SUFFICES ASSUME SyncInv PROVE C!EventsArrive /\ C!BarsArrive /\ C!NextPollIsLetIn
    OBVIOUS
  <2>1. C!BarsArrive
    <3>1. sync.phase = "events" => sync # C!Idle
      BY DEF C!Idle
    <3> QED BY <3>1 DEF SyncInv, SyncHasBars, C!BarsArrive
  <2> QED BY <2>1, PollsAreLetIn DEF SyncInv
<1>4. SyncInv /\ [C!Next]_(C!vars) => [C!PinComesLast]_(C!vars)
  <2> SUFFICES ASSUME SyncInv, C!Next, served' # served, sync # C!Idle, sync' = C!Idle, sync.pin = sync.gen,
                      NEW d \in C!Days, sync.events[d] > 0, <<served', d>> \notin passed
               PROVE  copy[served'][d] > 0
    BY DEF C!PinComesLast
  <2>1. C!CopyPin
    <3>1. CASE C!FetchLate \/ C!Restate \/ C!AddHistory
      BY <3>1 DEF C!FetchLate, C!Restate, C!AddHistory, C!WriteBars
    <3>2. CASE C!Night \/ C!BeginModify \/ C!Commit \/ C!Midnight \/ C!Rebuild \/ C!SetDefault \/ C!SyncConfig
      BY <3>2 DEF C!Night, C!BeginModify, C!Commit, C!Midnight, C!Rebuild, C!SetDefault, C!SyncConfig
    <3>3. CASE C!SyncStart \/ C!CopyBars \/ C!CopyEvents \/ C!Stop \/ C!Cut
      BY <3>3 DEF C!SyncStart, C!CopyBars, C!CopyEvents, C!Stop, C!Cut, C!serving
    <3> QED BY <3>1, <3>2, <3>3 DEF C!Next
  <2>2. served' = sync.gen /\ sync.phase = "pin"
    BY <2>1 DEF C!CopyPin
  <2>3. copy[sync.gen][d] = sync.events[d]
    BY <2>2 DEF SyncInv, C!EventsArrive
  <2> QED BY <2>2, <2>3
<1> QED BY <1>1, <1>2, <1>3, <1>4, PTL DEF C!Spec

-----------------------------------------------------------------------------
(* TrainingWindows: the calendar and the folds.                            *)

\* The first of some days is one of them.
LEMMA FirstFoldDay ==
  ASSUME NEW S \in SUBSET Nat, S # {}
  PROVE  W!Min(S) \in S
<1>1. \E n \in S : \A m \in S : n <= m
  <2>1. PICK n \in S : \A m \in S : ~ (<<m, n>> \in OpToRel(<, Nat))
    BY WFMin, NatLessThanWellFounded
  <2>2. ASSUME NEW m \in S PROVE n <= m
    <3>1. ~(m < n)
      BY <2>1 DEF OpToRel
    <3> QED BY <3>1
  <2> QED BY <2>2
<1> QED BY <1>1 DEF W!Min

\* Any sessions of the calendar can be counted.
LEMMA SessionsCounted ==
  ASSUME W!WindowsAssumption, NEW S \in SUBSET W!Sessions
  PROVE  IsFiniteSet(S) /\ Cardinality(S) \in Nat /\ W!Cardinality(S) = Cardinality(S)
<1>1. LastDay + 4 * Horizon \in Nat
  BY DEF W!WindowsAssumption
<1>2. IsFiniteSet(1..(LastDay + 4 * Horizon)) /\ S \subseteq 1..(LastDay + 4 * Horizon)
  BY <1>1, FS_Interval DEF W!Sessions
<1>3. IsFiniteSet(S) /\ Cardinality(S) \in Nat
  BY <1>2, FS_Subset, FS_CardinalityType
<1> QED BY <1>3 DEF W!Cardinality, Cardinality

\* The label of an event ends at a session with a horizon of sessions between.
LEMMA LabelCloses ==
  ASSUME W!WindowsAssumption, W!CalendarAssumption, shift \in Shifts, NEW d \in 1..LastDay
  PROVE  /\ W!LabelEnd(d) \in W!Sessions /\ W!LabelEnd(d) > d
         /\ W!Cardinality({s \in W!Sessions : d < s /\ s <= W!LabelEnd(d)}) = Horizon
         /\ W!Year(d) >= MinTrainYears =>
              W!Cardinality({s \in W!Sessions : W!Year(d) * YearDays - Horizon <= s /\ s < W!Year(d) * YearDays})
                + FoldEmbargo >= Horizon
<1>1. PICK sessions : sessions = {s \in 1..(LastDay + 4 * Horizon) : (s - 1 + shift) % 7 < 5 /\ s \notin Holidays}
  OBVIOUS
<1>2. W!Sessions = sessions
  BY <1>1 DEF W!Sessions, W!IsSession, W!Weekday
<1>3. /\ \E e \in sessions : e > d /\ W!Cardinality({s \in sessions : d < s /\ s <= e}) = Horizon
      /\ W!Year(d) >= MinTrainYears =>
           W!Cardinality({s \in sessions : W!Year(d) * YearDays - Horizon <= s /\ s < W!Year(d) * YearDays})
             + FoldEmbargo >= Horizon
  BY <1>1 DEF W!CalendarAssumption
<1>4. W!LabelEnd(d) = CHOOSE e \in sessions : e > d /\ W!Cardinality({s \in sessions : d < s /\ s <= e}) = Horizon
  BY <1>2 DEF W!LabelEnd
<1>5. LET e == W!LabelEnd(d) IN
        e \in sessions /\ e > d /\ W!Cardinality({s \in sessions : d < s /\ s <= e}) = Horizon
  BY <1>3, <1>4
<1> QED BY <1>2, <1>3, <1>5

\* What a fold trains on is seen to its end before anything it validates.
LEMMA FoldsClear ==
  ASSUME W!WindowsAssumption, W!CalendarAssumption, shift \in Shifts, NEW days \in SUBSET (1..LastDay),
         NEW f \in W!Folds(days), NEW a \in f.train, NEW b \in f.validate
  PROVE  W!LabelEnd(a) < b
<1>1. /\ LastDay \in Nat /\ Horizon \in Nat \ {0} /\ FoldEmbargo \in Nat /\ YearDays \in Nat \ {0}
      /\ MinTrainYears \in Nat \ {0}
  BY DEF W!WindowsAssumption
<1>2. PICK first : first = W!Year(W!Min(days))
  OBVIOUS
<1>3. PICK y \in (first + MinTrainYears)..W!Year(W!Max(days)) :
        f = [train |-> W!Purge({d \in days : W!Year(d) \in first..(y - 1)}, y * YearDays),
             validate |-> W!Embargo({d \in days : W!Year(d) = y}, y * YearDays)]
  BY <1>2 DEF W!Folds
<1>4. PICK B : B = y * YearDays
  OBVIOUS
<1>5. a \in days /\ a < B - Horizon
  BY <1>3, <1>4 DEF W!Purge
<1>6. /\ b \in days /\ W!Year(b) = y
      /\ W!Cardinality({s \in {t \in W!Sessions : t >= B} : s <= b}) > FoldEmbargo
  BY <1>3, <1>4 DEF W!Embargo
<1>7. first \in Nat
  <2>1. days \in SUBSET Nat /\ days # {}
    BY <1>5
  <2>2. W!Min(days) \in Nat
    BY <2>1, FirstFoldDay
  <2>3. ASSUME NEW n \in Nat PROVE n \div YearDays \in Nat
    BY <1>1
  <2> QED BY <1>2, <2>2, <2>3 DEF W!Year
<1>8. y \in Nat /\ y >= MinTrainYears /\ B \in Int
  BY <1>1, <1>3, <1>4, <1>7
<1>9. a \in 1..LastDay /\ b \in 1..LastDay
  BY <1>5, <1>6
<1>e. PICK e : e = W!LabelEnd(a)
  OBVIOUS
<1> DEFINE before == {s \in W!Sessions : B - Horizon <= s /\ s < B}
           after  == {s \in {t \in W!Sessions : t >= B} : s <= b}
           label  == {s \in W!Sessions : a < s /\ s <= e}
<1>10. e \in W!Sessions /\ W!Cardinality(label) = Horizon
  BY <1>9, <1>e, LabelCloses
<1>11. W!Cardinality(before) + FoldEmbargo >= Horizon
  <2>1. W!Year(b) >= MinTrainYears =>
          W!Cardinality({s \in W!Sessions : W!Year(b) * YearDays - Horizon <= s /\ s < W!Year(b) * YearDays})
            + FoldEmbargo >= Horizon
    BY <1>9, LabelCloses
  <2> QED BY <1>4, <1>6, <1>8, <2>1
<1>12. W!Cardinality(after) > FoldEmbargo
  BY <1>6
<1>13. W!Sessions \subseteq Int
  BY <1>1 DEF W!Sessions
<1>14. /\ before \subseteq W!Sessions /\ after \subseteq W!Sessions /\ label \subseteq W!Sessions
       /\ before \cap after = {}
  <2>1. ASSUME NEW s \in W!Sessions PROVE ~(s < B /\ s >= B)
    BY <1>8, <1>13
  <2> QED BY <2>1
<1> SUFFICES ASSUME ~(e < b) PROVE FALSE
  BY <1>e
<1>15. after # {}
  <2> HIDE DEF after
  <2> SUFFICES ASSUME after = {} PROVE FALSE
    OBVIOUS
  <2>1. Cardinality(after) = 0
    BY FS_EmptySet
  <2>2. W!Cardinality(after) = Cardinality(after)
    BY <1>14, SessionsCounted
  <2> QED BY <1>1, <1>12, <2>1, <2>2
<1>16. B <= b
  <2>1. PICK s \in after : TRUE
    BY <1>15
  <2>2. s \in Int /\ s >= B /\ s <= b
    BY <1>13
  <2> QED BY <1>8, <1>9, <2>2
<1>17. before \cup after \subseteq label
  <2>1. e \in Int /\ b <= e /\ a \in Int /\ b \in Int
    BY <1>9, <1>10, <1>13
  <2>2. ASSUME NEW s \in W!Sessions, B - Horizon <= s, s < B PROVE a < s /\ s <= e
    BY <1>1, <1>5, <1>8, <1>13, <1>16, <2>1, <2>2
  <2>3. ASSUME NEW s \in W!Sessions, s >= B, s <= b PROVE a < s /\ s <= e
    BY <1>1, <1>5, <1>8, <1>13, <2>1, <2>3
  <2> QED BY <2>2, <2>3
<1> HIDE DEF before, after, label
<1>18. /\ IsFiniteSet(before) /\ Cardinality(before) \in Nat /\ W!Cardinality(before) = Cardinality(before)
       /\ IsFiniteSet(after) /\ Cardinality(after) \in Nat /\ W!Cardinality(after) = Cardinality(after)
       /\ IsFiniteSet(label) /\ Cardinality(label) \in Nat /\ W!Cardinality(label) = Cardinality(label)
  BY <1>14, SessionsCounted
<1>19. Cardinality(before \cup after) = Cardinality(before) + Cardinality(after) - Cardinality(before \cap after)
  BY <1>18, FS_Union
<1>20. Cardinality(before \cap after) = 0
  BY <1>14, FS_EmptySet
<1>21. Cardinality(before \cup after) <= Cardinality(label)
  BY <1>17, <1>18, FS_Subset
<1>22. Cardinality(before \cup after) = Cardinality(before) + Cardinality(after)
  BY <1>18, <1>19, <1>20
<1> QED BY <1>1, <1>10, <1>11, <1>12, <1>18, <1>21, <1>22

-----------------------------------------------------------------------------
(* TrainingWindows: what a fit has learned.                                *)

Fired == [kind : W!Kinds, type : {"common", "rare"}]

\* The last training day a fit of this day may have.
LastTrained == date - ForwardLog - ValidateDays - TrainEmbargo

IsCalendar == shift \in Shifts /\ labelEnd = [d \in 1..LastDay |-> W!LabelEnd(d)]

WindowTypes ==
  /\ IsCalendar /\ date \in 1..LastDay
  /\ fired = [d \in DOMAIN fired |-> fired[d]]
  /\ DOMAIN fired \subseteq 1..date /\ DOMAIN predicted = DOMAIN fired
  /\ \A d \in DOMAIN fired : fired[d] \in Fired
  /\ model.no \in Nat

\* The last fit read whole events of the trade universe, closed and old enough; it knows
\* their types.
FitIsOfTheFrame ==
  /\ model.train \subseteq DOMAIN fired
  /\ \A d \in model.train : fired[d].kind = "trade" /\ labelEnd[d] <= date /\ d <= LastTrained
  /\ model.types = {fired[d].type : d \in model.train}

WindowsInv == WindowTypes /\ FitIsOfTheFrame /\ W!FoldsDoNotLeak /\ W!CosmeticIsHonest

LEMMA CalendarStays ==
  ASSUME IsCalendar, UNCHANGED <<shift, labelEnd>> PROVE IsCalendar'
<1>1. W!Sessions' = W!Sessions
  BY DEF W!Sessions, W!IsSession, W!Weekday
<1>2. \A d : W!LabelEnd(d)' = W!LabelEnd(d)
  BY <1>1 DEF W!LabelEnd
<1> QED BY <1>2 DEF IsCalendar

LEMMA WindowsInit ==
  ASSUME W!WindowsAssumption, W!Init PROVE WindowsInv
<1>1. /\ shift \in Shifts /\ date = 1 /\ labelEnd = [d \in 1..LastDay |-> W!LabelEnd(d)]
      /\ DOMAIN fired = {} /\ DOMAIN predicted = {} /\ fired = [d \in {} |-> W!Ordinary]
      /\ model = W!NoModel /\ LastDay \in Nat \ {0}
  BY DEF W!Init, W!WindowsAssumption
<1>2. model.no = 0 /\ model.train = {} /\ model.types = {} /\ model.folds = {}
  BY <1>1 DEF W!NoModel
<1>3. WindowTypes
  BY <1>1, <1>2 DEF WindowTypes, IsCalendar
<1>4. FitIsOfTheFrame
  BY <1>2 DEF FitIsOfTheFrame
<1>5. W!FoldsDoNotLeak /\ W!CosmeticIsHonest
  BY <1>1, <1>2 DEF W!FoldsDoNotLeak, W!CosmeticIsHonest
<1> QED BY <1>3, <1>4, <1>5 DEF WindowsInv

\* A fit of today has all the last one had, and knows what it says.
LEMMA FitsExpand ==
  ASSUME W!WindowsAssumption, W!CalendarAssumption, WindowsInv, W!Fitted # model
  PROVE  LET fit == W!Fitted IN
         /\ fit.no = model.no + 1
         /\ fit.train \subseteq DOMAIN fired /\ model.train \subseteq fit.train
         /\ \A d \in fit.train : fired[d].kind = "trade" /\ labelEnd[d] <= date /\ d <= LastTrained
         /\ fit.types = {fired[d].type : d \in fit.train} /\ model.types \subseteq fit.types
         /\ \A f \in fit.folds : \A a \in f.train, b \in f.validate : labelEnd[a] < b
<1>1. /\ LastDay \in Nat /\ ForwardLog \in Nat /\ ValidateDays \in Nat /\ TrainEmbargo \in Nat
  BY DEF W!WindowsAssumption
<1>2. /\ shift \in Shifts /\ date \in 1..LastDay /\ labelEnd = [d \in 1..LastDay |-> W!LabelEnd(d)]
      /\ DOMAIN fired \subseteq 1..date /\ \A d \in DOMAIN fired : fired[d] \in Fired
  BY DEF WindowsInv, WindowTypes, IsCalendar
<1>3. PICK days : days = 1..LastTrained
  OBVIOUS
<1>4. PICK train : train = W!Frame(days)
  OBVIOUS
<1>5. W!TrainingWindow.train = days
  <2>1. date - ForwardLog - ValidateDays - TrainEmbargo = (date - ForwardLog) - ValidateDays - TrainEmbargo
    OBVIOUS
  <2> QED BY <1>3 DEF W!TrainingWindow, LastTrained
<1>6. PICK validate : validate = W!Frame(W!TrainingWindow.validate)
  OBVIOUS
<1>7. /\ W!Fitted = [no |-> model.no + 1, born |-> W!Min({model.born, date}), train |-> train,
                     validate |-> validate, types |-> {fired[d].type : d \in train}, folds |-> W!Folds(train)]
      /\ ~W!FrameFails(days)
  BY <1>4, <1>5, <1>6 DEF W!Fitted
<1>8. PICK fit : fit = W!Fitted
  OBVIOUS
<1>9. /\ fit.no = model.no + 1 /\ fit.train = train /\ fit.types = {fired[d].type : d \in train}
      /\ fit.folds = W!Folds(train)
  BY <1>7, <1>8
<1>10. ASSUME NEW d \in train
       PROVE  d \in DOMAIN fired /\ fired[d].kind = "trade" /\ labelEnd[d] <= date /\ d <= LastTrained
  <2>1. /\ d \in days /\ d \in DOMAIN fired /\ fired[d].kind # "watch"
        /\ fired[d].kind \notin {"etf", "nobreadth"} /\ labelEnd[d] <= date /\ d \in W!Rows(days)
    BY <1>4 DEF W!Frame, W!Rows, W!InTrade, W!Closed
  <2>2. fired[d].kind \notin {"nosector", "nobool"}
    BY <1>4, <1>7, <2>1 DEF W!FrameFails, W!Kind
  <2>3. fired[d].kind \in W!Kinds
    BY <1>2, <2>1 DEF Fired
  <2>4. d <= LastTrained
    BY <1>3, <2>1
  <2> QED BY <2>1, <2>2, <2>3, <2>4 DEF W!Kinds
<1>11. ASSUME NEW d \in model.train PROVE d \in train
  <2>1. d \in DOMAIN fired /\ fired[d].kind = "trade" /\ labelEnd[d] <= date /\ d <= LastTrained
    BY DEF WindowsInv, FitIsOfTheFrame
  <2>2. d \in days
    BY <1>1, <1>2, <1>3, <2>1 DEF LastTrained
  <2> QED BY <1>4, <2>1, <2>2 DEF W!Frame, W!Rows, W!InTrade, W!Closed
<1>12. model.types \subseteq fit.types
  BY <1>9, <1>11 DEF WindowsInv, FitIsOfTheFrame
<1>13. ASSUME NEW f \in fit.folds, NEW a \in f.train, NEW b \in f.validate PROVE labelEnd[a] < b
  <2>1. train \in SUBSET (1..LastDay)
    BY <1>1, <1>2, <1>10
  <2>2. f \in W!Folds(train)
    BY <1>9
  <2>3. W!LabelEnd(a) < b
    BY <1>2, <2>1, <2>2, FoldsClear
  <2>4. a \in 1..LastDay
    <3>1. PICK first : first = W!Year(W!Min(train))
      OBVIOUS
    <3>2. PICK y \in (first + MinTrainYears)..W!Year(W!Max(train)) :
            f = [train |-> W!Purge({d \in train : W!Year(d) \in first..(y - 1)}, y * YearDays),
                 validate |-> W!Embargo({d \in train : W!Year(d) = y}, y * YearDays)]
      BY <2>2, <3>1 DEF W!Folds
    <3>3. a \in train
      BY <3>2 DEF W!Purge
    <3> QED BY <2>1, <3>3
  <2> QED BY <1>2, <2>3, <2>4
<1> QED BY <1>8, <1>9, <1>10, <1>11, <1>12, <1>13

\* What run_predict leaves: rows that were there stay, a new one that is not cosmetic
\* is of an event of the trade universe and of a type the fit knows.
LEMMA PredictFacts ==
  ASSUME WindowsInv, NEW m
  PROVE  /\ DOMAIN W!Predict(m) = DOMAIN fired
         /\ \A d \in DOMAIN fired :
              \/ W!Predict(m)[d] = predicted[d]
              \/ W!Predict(m)[d].cosmetic
              \/ fired[d].kind = "trade" /\ fired[d].type \in m.types
<1>1. DOMAIN predicted = DOMAIN fired /\ \A d \in DOMAIN fired : fired[d] \in Fired
  BY DEF WindowsInv, WindowTypes
<1>2. CASE m = W!NoModel \/ W!ServingFails
  BY <1>1, <1>2 DEF W!Predict
<1>3. CASE ~(m = W!NoModel \/ W!ServingFails)
  <2>1. PICK serving : serving = W!Serving(m.types)
    OBVIOUS
  <2>2. W!Predict(m) = [d \in DOMAIN fired |->
                          IF d \in serving /\ predicted[d] = W!Null
                            THEN [fit |-> m.no, cosmetic |-> W!Cosmetic(d)] ELSE predicted[d]]
    BY <1>3, <2>1 DEF W!Predict
  <2>3. ASSUME NEW d \in DOMAIN fired, d \in serving, ~W!Cosmetic(d)
        PROVE  fired[d].kind = "trade" /\ fired[d].type \in m.types
    <3>1. /\ d \in W!Recent /\ fired[d].kind \notin {"nosector", "nobreadth"} /\ fired[d].type \in m.types
      BY <2>1, <2>3 DEF W!Serving
    <3>2. fired[d].kind # "nobool"
      BY <1>3, <3>1 DEF W!ServingFails, W!Kind
    <3>3. fired[d].kind \notin {"watch", "etf"}
      BY <2>3 DEF W!Cosmetic, W!InTrade
    <3>4. fired[d].kind \in W!Kinds
      BY <1>1 DEF Fired
    <3> QED BY <3>1, <3>2, <3>3, <3>4 DEF W!Kinds
  <2>4. \A d \in DOMAIN fired :
          \/ W!Predict(m)[d] = predicted[d]
          \/ W!Predict(m)[d].cosmetic
          \/ fired[d].kind = "trade" /\ fired[d].type \in m.types
    <3> TAKE d \in DOMAIN fired
    <3>1. CASE d \in serving /\ predicted[d] = W!Null
      <4>1. W!Predict(m)[d].cosmetic = W!Cosmetic(d)
        BY <2>2, <3>1
      <4> QED BY <2>3, <3>1, <4>1
    <3>2. CASE ~(d \in serving /\ predicted[d] = W!Null)
      BY <2>2, <3>2
    <3> QED BY <3>1, <3>2
  <2> QED BY <2>2, <2>4
<1> QED BY <1>2, <1>3

LEMMA WindowsFire ==
  ASSUME W!WindowsAssumption, WindowsInv, W!Fire PROVE WindowsInv'
<1>1. /\ WindowTypes /\ FitIsOfTheFrame /\ W!FoldsDoNotLeak /\ W!CosmeticIsHonest
      /\ date \notin DOMAIN fired /\ UNCHANGED <<shift, labelEnd, date, model, skips>>
      /\ predicted' = [d \in DOMAIN fired \cup {date} |-> IF d = date THEN W!Null ELSE predicted[d]]
  BY DEF WindowsInv, W!Fire
<1>2. PICK e \in Odd \cup {W!Ordinary} : fired' = [d \in DOMAIN fired \cup {date} |-> IF d = date THEN e ELSE fired[d]]
  BY DEF W!Fire, W!Extended
<1>3. e \in Fired
  BY DEF Fired, W!WindowsAssumption, W!Ordinary, W!Kinds
<1>4. /\ DOMAIN fired' = DOMAIN fired \cup {date} /\ DOMAIN predicted' = DOMAIN fired'
      /\ \A d \in DOMAIN fired : d # date /\ fired'[d] = fired[d] /\ predicted'[d] = predicted[d]
      /\ fired'[date] = e /\ predicted'[date] = W!Null
  BY <1>1, <1>2
<1>5. WindowTypes'
  <2>1. fired' = [d \in DOMAIN fired' |-> fired'[d]]
    BY <1>2
  <2> QED BY <1>1, <1>3, <1>4, <2>1, CalendarStays DEF WindowTypes
<1>6. \A d \in model.train : d \in DOMAIN fired /\ fired'[d] = fired[d]
  BY <1>1, <1>4 DEF FitIsOfTheFrame
<1>7. {fired'[d].type : d \in model.train} = {fired[d].type : d \in model.train}
  BY <1>6
<1>8. FitIsOfTheFrame'
  BY <1>1, <1>4, <1>6, <1>7 DEF FitIsOfTheFrame, LastTrained
<1>9. W!FoldsDoNotLeak'
  BY <1>1 DEF W!FoldsDoNotLeak
<1>10. W!CosmeticIsHonest'
  BY <1>1, <1>4, <1>7 DEF W!CosmeticIsHonest
<1> QED BY <1>5, <1>8, <1>9, <1>10 DEF WindowsInv

\* Another day: labels close, and rows may be written.
LEMMA WindowsNight ==
  ASSUME W!WindowsAssumption, W!CalendarAssumption, WindowsInv, W!Night PROVE WindowsInv'
<1>1. /\ WindowTypes /\ FitIsOfTheFrame /\ W!FoldsDoNotLeak /\ W!CosmeticIsHonest
      /\ date < LastDay /\ date' = date + 1 /\ UNCHANGED <<shift, labelEnd, fired, model>>
      /\ predicted' = W!Predict(model) \/ predicted' = predicted
  BY DEF WindowsInv, W!Night, W!Tomorrow
<1>2. /\ LastDay \in Nat /\ ForwardLog \in Nat /\ ValidateDays \in Nat /\ TrainEmbargo \in Nat
      /\ date \in 1..LastDay /\ date \in Int
  BY <1>1 DEF W!WindowsAssumption, WindowTypes
<1>3. /\ DOMAIN predicted' = DOMAIN fired
      /\ \A d \in DOMAIN fired :
           \/ predicted'[d] = predicted[d]
           \/ predicted'[d].cosmetic
           \/ fired[d].kind = "trade" /\ fired[d].type \in model.types
  <2>1. CASE predicted' = W!Predict(model)
    BY <2>1, PredictFacts
  <2>2. CASE predicted' = predicted
    BY <1>1, <2>2 DEF WindowTypes
  <2> QED BY <1>1, <2>1, <2>2
<1>4. WindowTypes'
  <2>1. DOMAIN fired \subseteq 1..date'
    BY <1>1, <1>2 DEF WindowTypes
  <2>2. date' \in 1..LastDay
    BY <1>1, <1>2
  <2> QED BY <1>1, <1>3, <2>1, <2>2, CalendarStays DEF WindowTypes
<1>5. FitIsOfTheFrame'
  <2>1. ASSUME NEW d \in model.train PROVE labelEnd[d] <= date' /\ d <= LastTrained'
    <3>1. labelEnd[d] <= date /\ d <= LastTrained /\ d \in 1..date
      BY <1>1 DEF FitIsOfTheFrame, WindowTypes
    <3>2. labelEnd[d] \in Int
      <4>1. d \in 1..LastDay
        BY <1>2, <3>1
      <4>2. labelEnd[d] = W!LabelEnd(d)
        BY <1>1, <4>1 DEF WindowTypes, IsCalendar
      <4>3. W!LabelEnd(d) \in Int
        <5>1. W!LabelEnd(d) \in W!Sessions
          BY <1>1, <4>1, LabelCloses DEF WindowTypes, IsCalendar
        <5>2. W!Sessions \subseteq Int
          BY DEF W!Sessions, W!WindowsAssumption
        <5> QED BY <5>1, <5>2
      <4> QED BY <4>2, <4>3
    <3> QED BY <1>1, <1>2, <3>1, <3>2 DEF LastTrained
  <2> QED BY <1>1, <2>1 DEF FitIsOfTheFrame
<1>6. W!FoldsDoNotLeak'
  BY <1>1 DEF W!FoldsDoNotLeak
<1>7. W!CosmeticIsHonest'
  <2>1. model.types = {fired[t].type : t \in model.train}
    BY <1>1 DEF FitIsOfTheFrame
  <2> QED BY <1>1, <1>3, <2>1 DEF W!CosmeticIsHonest
<1> QED BY <1>4, <1>5, <1>6, <1>7 DEF WindowsInv

LEMMA WindowsWeekly ==
  ASSUME W!WindowsAssumption, W!CalendarAssumption, WindowsInv, W!Weekly PROVE WindowsInv' /\ W!TrainingExpands
<1>1. /\ WindowTypes /\ FitIsOfTheFrame /\ W!FoldsDoNotLeak /\ W!CosmeticIsHonest
      /\ date < LastDay /\ date' = date + 1 /\ UNCHANGED <<shift, labelEnd, fired>>
      /\ model' = W!Fitted /\ predicted' = IF W!Fitted = model THEN predicted ELSE W!Predict(W!Fitted)
  BY DEF WindowsInv, W!Weekly
<1>2. /\ LastDay \in Nat /\ ForwardLog \in Nat /\ ValidateDays \in Nat /\ TrainEmbargo \in Nat
      /\ date \in 1..LastDay /\ date \in Int /\ DOMAIN fired \subseteq 1..date /\ model.no \in Nat
  BY <1>1 DEF W!WindowsAssumption, WindowTypes
<1>3. PICK fit : fit = W!Fitted
  OBVIOUS
<1>4. /\ fit.no \in Nat /\ model.train \subseteq fit.train /\ model.types \subseteq fit.types
      /\ fit.train \subseteq DOMAIN fired
      /\ \A d \in fit.train : fired[d].kind = "trade" /\ labelEnd[d] <= date /\ d <= LastTrained
      /\ fit.types = {fired[d].type : d \in fit.train}
      /\ \A f \in fit.folds : \A a \in f.train, b \in f.validate : labelEnd[a] < b
  <2>1. CASE fit = model
    BY <1>1, <1>2, <2>1 DEF FitIsOfTheFrame, W!FoldsDoNotLeak
  <2>2. CASE fit # model
    <3>1. W!Fitted # model
      BY <1>3, <2>2
    <3>2. /\ W!Fitted.no = model.no + 1
          /\ W!Fitted.train \subseteq DOMAIN fired /\ model.train \subseteq W!Fitted.train
          /\ \A d \in W!Fitted.train : fired[d].kind = "trade" /\ labelEnd[d] <= date /\ d <= LastTrained
          /\ W!Fitted.types = {fired[d].type : d \in W!Fitted.train} /\ model.types \subseteq W!Fitted.types
          /\ \A f \in W!Fitted.folds : \A a \in f.train, b \in f.validate : labelEnd[a] < b
      BY <3>1, FitsExpand
    <3> QED BY <1>2, <1>3, <3>2
  <2> QED BY <2>1, <2>2
<1>5. /\ DOMAIN predicted' = DOMAIN fired
      /\ \A d \in DOMAIN fired :
           \/ predicted'[d] = predicted[d]
           \/ predicted'[d].cosmetic
           \/ fired[d].kind = "trade" /\ fired[d].type \in fit.types
  <2>1. CASE predicted' = W!Predict(fit)
    BY <2>1, PredictFacts
  <2>2. CASE predicted' = predicted
    BY <1>1, <2>2 DEF WindowTypes
  <2> QED BY <1>1, <1>3, <2>1, <2>2
<1>6. WindowTypes'
  <2>1. DOMAIN fired \subseteq 1..date' /\ date' \in 1..LastDay
    BY <1>1, <1>2
  <2> QED BY <1>1, <1>3, <1>4, <1>5, <2>1, CalendarStays DEF WindowTypes
<1>7. FitIsOfTheFrame'
  <2>1. ASSUME NEW d \in fit.train PROVE labelEnd[d] <= date' /\ d <= LastTrained'
    <3>1. labelEnd[d] <= date /\ d <= LastTrained /\ d \in 1..date
      BY <1>2, <1>4
    <3>2. labelEnd[d] \in Int
      <4>1. d \in 1..LastDay
        BY <1>2, <3>1
      <4>2. labelEnd[d] = W!LabelEnd(d)
        BY <1>1, <4>1 DEF WindowTypes, IsCalendar
      <4>3. W!LabelEnd(d) \in Int
        <5>1. W!LabelEnd(d) \in W!Sessions
          BY <1>1, <4>1, LabelCloses DEF WindowTypes, IsCalendar
        <5>2. W!Sessions \subseteq Int
          BY DEF W!Sessions, W!WindowsAssumption
        <5> QED BY <5>1, <5>2
      <4> QED BY <4>2, <4>3
    <3> QED BY <1>1, <1>2, <3>1, <3>2 DEF LastTrained
  <2> QED BY <1>1, <1>3, <1>4, <2>1 DEF FitIsOfTheFrame
<1>8. W!FoldsDoNotLeak'
  BY <1>1, <1>3, <1>4 DEF W!FoldsDoNotLeak
<1>9. W!CosmeticIsHonest'
  <2>1. \A d \in DOMAIN fired :
          predicted[d] # W!Null /\ ~predicted[d].cosmetic => fired[d].kind = "trade" /\ fired[d].type \in model.types
    BY <1>1 DEF W!CosmeticIsHonest, FitIsOfTheFrame
  <2>2. \A d \in DOMAIN fired :
          predicted'[d] # W!Null /\ ~predicted'[d].cosmetic => fired[d].kind = "trade" /\ fired[d].type \in fit.types
    BY <1>4, <1>5, <2>1
  <2> QED BY <1>1, <1>3, <1>4, <2>2 DEF W!CosmeticIsHonest
<1>10. W!TrainingExpands
  BY <1>1, <1>3, <1>4 DEF W!TrainingExpands
<1> QED BY <1>6, <1>7, <1>8, <1>9, <1>10 DEF WindowsInv

\* A feature filled in by hand changes no event a fit has read.
LEMMA WindowsRepair ==
  ASSUME W!WindowsAssumption, WindowsInv, W!Repair PROVE WindowsInv'
<1>1. /\ WindowTypes /\ FitIsOfTheFrame /\ W!FoldsDoNotLeak /\ W!CosmeticIsHonest
      /\ UNCHANGED <<shift, labelEnd, date, model, predicted, skips>>
  BY DEF WindowsInv, W!Repair
<1>2. PICK r \in DOMAIN fired : fired' = [fired EXCEPT ![r].kind = "trade"]
  BY DEF W!Repair
<1>3. /\ DOMAIN fired' = DOMAIN fired /\ fired' = [d \in DOMAIN fired' |-> fired'[d]]
      /\ \A d \in DOMAIN fired : fired'[d] = IF d = r THEN [fired[d] EXCEPT !.kind = "trade"] ELSE fired[d]
  BY <1>1, <1>2 DEF WindowTypes
<1>4. ASSUME NEW d \in DOMAIN fired
      PROVE  /\ fired'[d] \in Fired /\ fired'[d].type = fired[d].type
             /\ fired[d].kind = "trade" => fired'[d].kind = "trade"
  <2>1. fired[d] \in [kind : W!Kinds, type : {"common", "rare"}] /\ "trade" \in W!Kinds
    BY <1>1 DEF WindowTypes, Fired, W!Kinds
  <2>2. CASE d = r
    <3>1. fired'[d] = [fired[d] EXCEPT !.kind = "trade"]
      BY <1>3, <2>2
    <3>2. /\ [fired[d] EXCEPT !.kind = "trade"] \in [kind : W!Kinds, type : {"common", "rare"}]
          /\ [fired[d] EXCEPT !.kind = "trade"].type = fired[d].type
          /\ [fired[d] EXCEPT !.kind = "trade"].kind = "trade"
      BY <2>1
    <3> QED BY <3>1, <3>2 DEF Fired
  <2>3. CASE d # r
    BY <1>3, <2>1, <2>3 DEF Fired
  <2> QED BY <2>2, <2>3
<1>5. \A d \in model.train : d \in DOMAIN fired /\ fired'[d].type = fired[d].type
  BY <1>1, <1>4 DEF FitIsOfTheFrame
<1>6. {fired'[d].type : d \in model.train} = {fired[d].type : d \in model.train}
  BY <1>5
<1>7. WindowTypes'
  BY <1>1, <1>3, <1>4, CalendarStays DEF WindowTypes
<1>8. FitIsOfTheFrame'
  BY <1>1, <1>3, <1>4, <1>5, <1>6 DEF FitIsOfTheFrame, LastTrained
<1>9. W!FoldsDoNotLeak'
  BY <1>1 DEF W!FoldsDoNotLeak
<1>10. W!CosmeticIsHonest'
  BY <1>1, <1>3, <1>4, <1>6 DEF W!CosmeticIsHonest
<1> QED BY <1>7, <1>8, <1>9, <1>10 DEF WindowsInv

LEMMA WindowsNext ==
  ASSUME W!WindowsAssumption, W!CalendarAssumption, WindowsInv, [W!Next]_(W!vars)
  PROVE  WindowsInv' /\ W!TrainingExpands
<1>1. CASE W!Weekly
  BY <1>1, WindowsWeekly
<1>2. ASSUME UNCHANGED model PROVE W!TrainingExpands
  BY <1>2 DEF W!TrainingExpands, WindowsInv, WindowTypes
<1>3. CASE W!Fire
  BY <1>2, <1>3, WindowsFire DEF W!Fire
<1>4. CASE W!Night
  BY <1>2, <1>4, WindowsNight DEF W!Night, W!Tomorrow
<1>5. CASE W!Repair
  BY <1>2, <1>5, WindowsRepair DEF W!Repair
<1>6. CASE UNCHANGED W!vars
  <2>1. UNCHANGED <<shift, labelEnd, date, fired, model, predicted, skips>>
    BY <1>6 DEF W!vars
  <2>2. WindowsInv'
    BY <2>1, CalendarStays DEF WindowsInv, WindowTypes, FitIsOfTheFrame, LastTrained, W!FoldsDoNotLeak, W!CosmeticIsHonest
  <2> QED BY <1>2, <2>1, <2>2
<1> QED BY <1>1, <1>3, <1>4, <1>5, <1>6 DEF W!Next

\* In no fold does a training label reach a session that is validated, however the
\* holidays fall, as long as purge and embargo together make a horizon; a row that is
\* not marked cosmetic is of the population its model knows; a later fit has learned
\* all an earlier one has (_fold_masks, purge, embargo, training_window, run_predict).
THEOREM FitsDoNotLeak ==
  ASSUME W!WindowsAssumption, W!CalendarAssumption
  PROVE  W!Spec => [](W!FoldsDoNotLeak /\ W!CosmeticIsHonest) /\ [][W!TrainingExpands]_(W!vars)
<1>1. W!Init => WindowsInv
  BY WindowsInit
<1>2. WindowsInv /\ [W!Next]_(W!vars) => WindowsInv'
  BY WindowsNext
<1>3. WindowsInv /\ [W!Next]_(W!vars) => [W!TrainingExpands]_(W!vars)
  BY WindowsNext
<1>4. WindowsInv => W!FoldsDoNotLeak /\ W!CosmeticIsHonest
  BY DEF WindowsInv
<1> QED BY <1>1, <1>2, <1>3, <1>4, PTL DEF W!Spec
=============================================================================
