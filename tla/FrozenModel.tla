---------------------------- MODULE FrozenModel ----------------------------
(***************************************************************************)
(* The forward-test protocol: scripts/freeze_winners.py trains one model   *)
(* per symbol on the whole history file and saves it                       *)
(* (src/trade/model/persistence.py), and after the last symbol writes the  *)
(* freeze manifest; scripts/forward_test.py later loads what was saved and *)
(* judges it on bars after the manifest's cutoff.  Either command may be   *)
(* killed or raise at any point, and a freeze may be run again over a      *)
(* longer file or from newer code.                                         *)
(*                                                                         *)
(* Symbols are numbered in the order main takes them.  A bar is its number,*)
(* a training is what determined it: how many bars it read, and the code.  *)
(***************************************************************************)
EXTENDS Integers, FiniteSets

CONSTANTS
    NSymbols,   \* winners to freeze
    Horizon,    \* label_horizon_bars
    MaxBars,    \* bound: bars a history file holds
    MaxCode     \* bound: versions of the code

ASSUME FrozenModelAssumption ==
    /\ NSymbols \in Nat \ {0}
    /\ Horizon \in Nat \ {0}
    /\ MaxBars \in Nat /\ MaxBars > Horizon
    /\ MaxCode \in Nat \ {0}

VARIABLES
    history,   \* symbol -> bars of its history file
    code,      \* the commit and lockfile checked out
    pc,        \* freeze_winners: "idle", "train", "model", "calibrator",
               \*   "manifest" or "finish"
    winner,    \* the symbol it is at
    work,      \* the training it holds in memory
    entries,   \* winners frozen by this run: symbol -> entry
    saved,     \* symbol -> the three files of its artifact directory
    frozen,    \* the freeze manifest on disk: symbol -> entry
    dirty,     \* an artifact was written since the manifest was
    verdict    \* what forward_test.py last reported on

freezeVars == <<history, code, pc, winner, work, entries, saved, frozen, dirty, verdict>>

freezing == <<winner, work, entries>>
disk == <<saved, frozen, dirty>>

----------------------------------------------------------------------------
Symbols == 1..NSymbols

NoTraining == [bars |-> 0, code |-> 0, calibrated |-> FALSE]

Trainings == [bars : 0..MaxBars, code : 0..MaxCode, calibrated : BOOLEAN]

Entries == [cutoff : Horizon..MaxBars - 1, hash : 1..MaxCode]

NoEntry == [cutoff |-> -1, hash |-> 0]

NoVerdict == [start |-> MaxBars, model |-> 0, calibrator |-> 0, dirty |-> FALSE]

NoArtifact == [model |-> NoTraining, calibrator |-> NoTraining,
               manifest |-> NoTraining]

\* compute_reproducibility_hash: data sets and features by name, the model's
\* parameters and the code.  What the files of that name held is not in it.
Hash(t) == t.code

\* Mutant: the cutoff is the last bar with a resolved label.
CutoffOfLabels(n) == n - 1 - Horizon

\* bars[-1].event_time
Cutoff(n) == n - 1

\* labels[: len(labels) - horizon] leaves a row.
Trainable(n) == n > Horizon

\* load_training_artifacts: the calibrator, when the manifest says there is one.
LoadedCalibrator(a) == IF a.manifest.calibrated THEN a.calibrator ELSE a.model

FreezeInit ==
    /\ history \in [Symbols -> 0..Horizon + 1]
    /\ code = 1
    /\ pc = "idle"
    /\ winner = 1
    /\ work = NoTraining
    /\ entries = [s \in Symbols |-> NoEntry]
    /\ saved = [s \in Symbols |-> NoArtifact]
    /\ frozen = [s \in Symbols |-> NoEntry]
    /\ dirty = FALSE
    /\ verdict = NoVerdict

\* The history file is extended with newer bars; a commit changes the code.
Extend(s) ==
    /\ history[s] < MaxBars
    /\ history' = [history EXCEPT ![s] = @ + 1]
    /\ UNCHANGED <<code, pc, freezing, disk, verdict>>

Commit ==
    /\ pc = "idle"
    /\ code < MaxCode
    /\ code' = code + 1
    /\ UNCHANGED <<history, pc, freezing, disk, verdict>>

----------------------------------------------------------------------------
StartFreeze ==
    /\ pc = "idle"
    /\ pc' = "train"
    /\ UNCHANGED <<history, code, freezing, disk, verdict>>

\* freeze_one up to its save: no calibrator is fitted on a one-class tail.
Train(calibrated) ==
    /\ pc = "train"
    /\ Trainable(history[winner])
    /\ work' = [bars |-> history[winner], code |-> code, calibrated |-> calibrated]
    /\ pc' = "model"
    /\ UNCHANGED <<history, code, winner, entries, disk, verdict>>

SaveModel ==
    /\ pc = "model"
    /\ saved' = [saved EXCEPT ![winner].model = work]
    /\ dirty' = TRUE
    /\ pc' = IF work.calibrated THEN "calibrator" ELSE "manifest"
    /\ UNCHANGED <<history, code, freezing, frozen, verdict>>

SaveCalibrator ==
    /\ pc = "calibrator"
    /\ saved' = [saved EXCEPT ![winner].calibrator = work]
    /\ pc' = "manifest"
    /\ UNCHANGED <<history, code, freezing, frozen, dirty, verdict>>

\* The artifact's own manifest completes it; main goes on to the next winner.
SaveManifest ==
    /\ pc = "manifest"
    /\ saved' = [saved EXCEPT ![winner].manifest = work]
    /\ entries' = [entries EXCEPT ![winner] =
                     [cutoff |-> Cutoff(work.bars), hash |-> Hash(work)]]
    /\ IF winner < NSymbols THEN winner' = winner + 1 /\ pc' = "train"
                            ELSE pc' = "finish" /\ UNCHANGED winner
    /\ UNCHANGED <<history, code, work, frozen, dirty, verdict>>

\* The process is gone, and what it held in memory with it.
EndFreeze ==
    /\ pc' = "idle"
    /\ winner' = 1
    /\ work' = NoTraining
    /\ entries' = [s \in Symbols |-> NoEntry]

WriteFreezeManifest ==
    /\ pc = "finish"
    /\ frozen' = entries
    /\ dirty' = FALSE
    /\ EndFreeze
    /\ UNCHANGED <<history, code, saved, verdict>>

\* The run is killed, or raises: no bars, no labels, a failing disk.
Abort ==
    /\ pc # "idle"
    /\ EndFreeze
    /\ UNCHANGED <<history, code, disk, verdict>>

----------------------------------------------------------------------------
\* evaluate_forward and PaperSymbolBundle: is the artifact the one the
\* manifest claims?
Verified(s) ==
    /\ saved[s].manifest # NoTraining
    /\ Hash(saved[s].manifest) = frozen[s].hash

\* A winner with an entry, and a forward file that reaches past its cutoff.
Judgeable(s, last) == frozen[s] # NoEntry /\ last > frozen[s].cutoff

(***************************************************************************)
(* forward_test.run for one winner: the forward file goes up to bar `last`;*)
(* its bars after the cutoff are stitched onto the history file, and every *)
(* bar after the cutoff is tested.  A mismatch raises, and no bars blocks. *)
(***************************************************************************)
Forward(s, last) ==
    /\ Judgeable(s, last)
    /\ Verified(s)
    /\ LET a == saved[s]
       IN  verdict' = [ start      |-> frozen[s].cutoff + 1,
                        model      |-> a.model.bars,
                        calibrator |-> LoadedCalibrator(a).bars,
                        dirty      |-> dirty ]
    /\ UNCHANGED <<history, code, pc, freezing, disk>>

FreezeNext ==
    \/ \E s \in Symbols : Extend(s)
    \/ Commit
    \/ StartFreeze
    \/ \E calibrated \in BOOLEAN : Train(calibrated)
    \/ SaveModel
    \/ SaveCalibrator
    \/ SaveManifest
    \/ WriteFreezeManifest
    \/ Abort
    \/ \E s \in Symbols, last \in 0..MaxBars : Forward(s, last)

FreezeSpec == FreezeInit /\ [][FreezeNext]_freezeVars

----------------------------------------------------------------------------
FreezeType ==
    /\ history \in [Symbols -> 0..MaxBars]
    /\ code \in 1..MaxCode
    /\ pc \in {"idle", "train", "model", "calibrator", "manifest", "finish"}
    /\ winner \in Symbols
    /\ work \in Trainings
    /\ entries \in [Symbols -> Entries \cup {NoEntry}]
    /\ saved \in [Symbols -> [model : Trainings, calibrator : Trainings,
                              manifest : Trainings]]
    /\ frozen \in [Symbols -> Entries \cup {NoEntry}]
    /\ dirty \in BOOLEAN
    /\ verdict \in [start : 0..MaxBars, model : 0..MaxBars, calibrator : 0..MaxBars,
                    dirty : BOOLEAN]

(***************************************************************************)
(* Unless a freeze is under way or was cut short, a winner is judged only  *)
(* on bars that came after every bar it was trained on, with the           *)
(* calibrator of the same training, however the history file grew since.   *)
(***************************************************************************)
OutOfSample ==
    ~verdict.dirty => /\ verdict.model <= verdict.start
                      /\ verdict.calibrator = verdict.model

(***************************************************************************)
(* The same of every judgement: what forward_test.py says of itself.       *)
(***************************************************************************)
NeverSeen == verdict.model <= verdict.start

============================================================================
