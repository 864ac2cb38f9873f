------------------------- MODULE OcrEnginesProofs -------------------------
(***************************************************************************)
(* Proofs about OcrEngines, for every set of keys, requests and            *)
(* extractions: a save that nobody disturbed carries the configuration     *)
(* that is in the table when it is applied.                                *)
(***************************************************************************)
EXTENDS OcrEngines, TLAPS

(***************************************************************************)
(* A save that read the whole table and has been alone since read what is  *)
(* there.                                                                  *)
(***************************************************************************)
SaveIsFresh ==
  \A s \in Saves : save[s].pc = "apply" /\ save[s].alone /\ save[s].whole => save[s].cfg = Effective

(***************************************************************************)
(* An extraction uses the keys of the configuration it was begun with, or  *)
(* none, and that configuration ran.                                       *)
(***************************************************************************)
UsesOne(e) ==
  e.pc # "idle" => e.cfg \in e.ran /\ \A p \in Providers : e.used[p] \in {e.cfg[p], NoKey}

Inv ==
  /\ OcrTypeOK
  /\ SaveIsFresh
  /\ RunningMatchesTable
  /\ \A x \in Extractions : UsesOne(extraction[x])

SaveState == [pc : {"idle", "reload", "apply"}, cfg : Config, alone : BOOLEAN,
              whole : BOOLEAN]

ExtractionState == [pc : {"idle", "vision", "gpt", "done"}, cfg : Config, used : Config,
                    ran : SUBSET Config]

LEMMA InvOneConfig == Inv => OneConfigPerExtraction
<1> SUFFICES ASSUME Inv, NEW x \in Extractions, extraction[x].pc = "done"
             PROVE  \E cfg \in extraction[x].ran :
                      \A p \in Providers : extraction[x].used[p] \in {cfg[p], NoKey}
  BY DEF OneConfigPerExtraction
<1>1. UsesOne(extraction[x])
  BY DEF Inv
<1> QED
  BY <1>1 DEF UsesOne

LEMMA Shapes ==
  /\ NoConfig \in Config /\ EnvKeys \in Config
  /\ IdleSave \in SaveState /\ IdleExtraction \in ExtractionState
  /\ UsesOne(IdleExtraction) /\ IdleSave.pc = "idle"
<1>1. NoConfig \in Config /\ EnvKeys \in Config
  BY OcrAssumption DEF NoConfig, Config, KeyOrNone
<1> QED
  BY <1>1 DEF IdleSave, IdleExtraction, SaveState, ExtractionState, UsesOne

LEMMA EffectiveIsConfig == OcrTypeOK => Effective \in Config
  BY DEF OcrTypeOK, Effective, Config, KeyOrNone

LEMMA InitInv == OcrInit => Inv
<1> SUFFICES ASSUME OcrInit PROVE Inv
  OBVIOUS
<1>1. OcrTypeOK
  <2>1. table \in [Providers -> [key : KeyOrNone, enabled : BOOLEAN]]
    BY DEF OcrInit, KeyOrNone
  <2>2. save \in [Saves -> SaveState] /\ extraction \in [Extractions -> ExtractionState]
    BY Shapes DEF OcrInit
  <2>3. running \in Config /\ stray \subseteq {"environment", "failed", "overlap"}
    BY Shapes DEF OcrInit
  <2> QED
    BY <2>1, <2>2, <2>3 DEF OcrTypeOK, SaveState, ExtractionState
<1>2. SaveIsFresh
  BY Shapes DEF OcrInit, SaveIsFresh
<1>3. RunningMatchesTable
  <2> SUFFICES ASSUME stray = {} PROVE running = Effective
    BY DEF RunningMatchesTable
  <2>1. running = NoConfig
    BY DEF OcrInit
  <2>2. Effective = NoConfig
    BY DEF OcrInit, Effective, NoConfig
  <2> QED
    BY <2>1, <2>2
<1>4. \A x \in Extractions : UsesOne(extraction[x])
  BY Shapes DEF OcrInit
<1> QED
  BY <1>1, <1>2, <1>3, <1>4 DEF Inv

-----------------------------------------------------------------------------
(* The save.                                                               *)

LEMMA UpsertKeepsInv ==
  ASSUME Inv, NEW s \in Saves, NEW p \in Providers, NEW key \in KeyOrNone,
         NEW enabled \in BOOLEAN, UpsertOCRConfig(s, p, key, enabled)
  PROVE  Inv'
<1>1. /\ save' = [q \in Saves |->
            IF q = s THEN [pc |-> "reload", cfg |-> NoConfig, alone |-> InFlight = {},
                           whole |-> TRUE]
            ELSE [save[q] EXCEPT !.alone = @ /\ q \notin InFlight]]
      /\ table' = [table EXCEPT ![p] = [key |-> IF key = NoKey THEN @.key ELSE key,
                                        enabled |-> enabled]]
      /\ UNCHANGED <<running, extraction, stray>>
  BY DEF UpsertOCRConfig
<1>2. /\ table \in [Providers -> [key : KeyOrNone, enabled : BOOLEAN]]
      /\ save \in [Saves -> SaveState]
  BY DEF Inv, OcrTypeOK, SaveState
<1>3. table' \in [Providers -> [key : KeyOrNone, enabled : BOOLEAN]]
  <2>1. table[p].key \in KeyOrNone
    BY <1>2
  <2>2. [key |-> IF key = NoKey THEN table[p].key ELSE key, enabled |-> enabled]
          \in [key : KeyOrNone, enabled : BOOLEAN]
    BY <2>1
  <2> QED
    BY <1>1, <1>2, <2>2
<1>4. save'[s] = [pc |-> "reload", cfg |-> NoConfig, alone |-> InFlight = {},
                  whole |-> TRUE]
  BY <1>1
<1>5. ASSUME NEW q \in Saves, q # s
      PROVE  /\ save'[q] \in SaveState /\ save'[q].pc = save[q].pc
             /\ save'[q].pc = "apply" => ~save'[q].alone
  <2>1. save'[q] = [save[q] EXCEPT !.alone = @ /\ q \notin InFlight]
    BY <1>1, <1>5
  <2>2. save[q] \in SaveState
    BY <1>2
  <2>3. save'[q] \in SaveState /\ save'[q].pc = save[q].pc
        /\ save'[q].alone = (save[q].alone /\ q \notin InFlight)
    BY <2>1, <2>2 DEF SaveState
  <2> QED
    BY <2>3 DEF InFlight
<1>6. save' \in [Saves -> SaveState]
  <2>1. save'[s] \in SaveState
    BY <1>4, Shapes DEF SaveState
  <2> QED
    BY <1>1, <1>5, <2>1
<1>7. OcrTypeOK'
  BY <1>1, <1>3, <1>6 DEF Inv, OcrTypeOK, SaveState
<1>8. SaveIsFresh'
  BY <1>4, <1>5 DEF SaveIsFresh
<1>9. RunningMatchesTable'
  BY <1>4 DEF RunningMatchesTable, InFlight
<1> QED
  BY <1>1, <1>7, <1>8, <1>9 DEF Inv

LEMMA ReadKeepsInv ==
  ASSUME Inv, NEW s \in Saves, ReadOCRConfigs(s)
  PROVE  Inv'
<1>1. /\ save' = [save EXCEPT ![s].pc = "apply", ![s].cfg = Effective]
      /\ UNCHANGED <<table, running, extraction, stray>>
  BY DEF ReadOCRConfigs
<1>2. save \in [Saves -> SaveState] /\ Effective \in Config
  BY EffectiveIsConfig DEF Inv, OcrTypeOK, SaveState
<1>3. save'[s] = [save[s] EXCEPT !.pc = "apply", !.cfg = Effective]
  BY <1>1, <1>2
<1>4. save'[s] \in SaveState /\ save'[s].pc = "apply" /\ save'[s].cfg = Effective
  BY <1>2, <1>3 DEF SaveState
<1>5. save' \in [Saves -> SaveState] /\ \A q \in Saves \ {s} : save'[q] = save[q]
  BY <1>1, <1>2, <1>4
<1>6. Effective' = Effective
  BY <1>1 DEF Effective
<1>7. OcrTypeOK'
  BY <1>1, <1>5 DEF Inv, OcrTypeOK, SaveState
<1>8. SaveIsFresh'
  BY <1>4, <1>5, <1>6 DEF Inv, SaveIsFresh
<1>9. RunningMatchesTable'
  BY <1>4 DEF RunningMatchesTable, InFlight
<1> QED
  BY <1>1, <1>7, <1>8, <1>9 DEF Inv

LEMMA CutReadingsAreConfigs == OcrTypeOK => CutReadings \subseteq Config
  BY Shapes, EffectiveIsConfig DEF CutReadings, Config, KeyOrNone

LEMMA CutOffKeepsInv ==
  ASSUME Inv, NEW s \in Saves, ReadIsCutOff(s)
  PROVE  Inv'
<1>1. PICK cfg \in CutReadings :
        save' = [save EXCEPT ![s].pc = "apply", ![s].cfg = cfg, ![s].whole = FALSE]
  BY DEF ReadIsCutOff
<1>2. /\ save \in [Saves -> SaveState] /\ cfg \in Config
      /\ UNCHANGED <<table, running, extraction, stray>>
  BY CutReadingsAreConfigs DEF Inv, OcrTypeOK, SaveState, ReadIsCutOff
<1>3. save'[s] = [save[s] EXCEPT !.pc = "apply", !.cfg = cfg, !.whole = FALSE]
  BY <1>1, <1>2
<1>4. save'[s] \in SaveState /\ save'[s].pc = "apply" /\ ~save'[s].whole
  BY <1>2, <1>3 DEF SaveState
<1>5. save' \in [Saves -> SaveState] /\ \A q \in Saves \ {s} : save'[q] = save[q]
  BY <1>1, <1>2, <1>4
<1>6. Effective' = Effective
  BY <1>2 DEF Effective
<1>7. OcrTypeOK'
  BY <1>2, <1>5 DEF Inv, OcrTypeOK, SaveState
<1>8. SaveIsFresh'
  BY <1>4, <1>5, <1>6 DEF Inv, SaveIsFresh
<1>9. RunningMatchesTable'
  BY <1>4 DEF RunningMatchesTable, InFlight
<1> QED
  BY <1>2, <1>7, <1>8, <1>9 DEF Inv

LEMMA ReloadFailsKeepsInv ==
  ASSUME Inv, NEW s \in Saves, ReloadFails(s)
  PROVE  Inv'
<1>1. /\ save' = [save EXCEPT ![s] = IdleSave] /\ stray' = {"failed"}
      /\ UNCHANGED <<table, running, extraction>>
  BY DEF ReloadFails
<1>2. save \in [Saves -> SaveState]
  BY DEF Inv, OcrTypeOK, SaveState
<1>3. save' \in [Saves -> SaveState] /\ save'[s] = IdleSave
      /\ \A q \in Saves \ {s} : save'[q] = save[q]
  BY <1>1, <1>2, Shapes
<1>4. OcrTypeOK'
  BY <1>1, <1>3 DEF Inv, OcrTypeOK, SaveState
<1>5. SaveIsFresh'
  <2>1. Effective' = Effective
    BY <1>1 DEF Effective
  <2> QED
    BY <1>3, <2>1, Shapes DEF Inv, SaveIsFresh
<1>6. RunningMatchesTable'
  BY <1>1 DEF RunningMatchesTable
<1> QED
  BY <1>1, <1>4, <1>5, <1>6 DEF Inv

LEMMA ApplyKeepsInv ==
  ASSUME Inv, NEW s \in Saves, ApplyConfig(s)
  PROVE  Inv'
<1> DEFINE cfg == save[s].cfg
<1>1. /\ running' = cfg /\ table' = table
      /\ extraction' = [x \in Extractions |->
           IF extraction[x].pc \in {"vision", "gpt"}
           THEN [extraction[x] EXCEPT !.ran = @ \cup {cfg}] ELSE extraction[x]]
      /\ save' = [save EXCEPT ![s] = IdleSave]
      /\ stray' = IF ~save[s].whole THEN {"failed"}
                  ELSE IF save[s].alone THEN {} ELSE {"overlap"}
      /\ save[s].pc = "apply"
  BY DEF ApplyConfig
<1>2. /\ save \in [Saves -> SaveState] /\ cfg \in Config
      /\ extraction \in [Extractions -> ExtractionState]
  BY DEF Inv, OcrTypeOK, SaveState, ExtractionState
<1>3. save' \in [Saves -> SaveState] /\ save'[s] = IdleSave
      /\ \A q \in Saves \ {s} : save'[q] = save[q]
  BY <1>1, <1>2, Shapes
<1>4. Effective' = Effective
  BY <1>1 DEF Effective
<1>5. ASSUME NEW x \in Extractions
      PROVE  extraction'[x] \in ExtractionState /\ UsesOne(extraction'[x])
  <2>1. extraction[x] \in ExtractionState /\ UsesOne(extraction[x])
    BY <1>2 DEF Inv
  <2>2. CASE extraction[x].pc \in {"vision", "gpt"}
    <3>1. extraction'[x] = [extraction[x] EXCEPT !.ran = @ \cup {cfg}]
      BY <1>1, <2>2
    <3>2. /\ extraction'[x].pc = extraction[x].pc /\ extraction'[x].cfg = extraction[x].cfg
          /\ extraction'[x].used = extraction[x].used
          /\ extraction'[x].ran = extraction[x].ran \cup {cfg}
      BY <2>1, <3>1 DEF ExtractionState
    <3>3. extraction'[x] \in ExtractionState
      BY <1>2, <2>1, <3>1 DEF ExtractionState
    <3>4. UsesOne(extraction'[x])
      BY <2>1, <3>2 DEF UsesOne
    <3> QED
      BY <3>3, <3>4
  <2>3. CASE extraction[x].pc \notin {"vision", "gpt"}
    BY <1>1, <2>1, <2>3
  <2> QED
    BY <2>2, <2>3
<1>6. OcrTypeOK'
  <2>1. extraction' \in [Extractions -> ExtractionState]
    BY <1>1, <1>5
  <2>2. stray' \subseteq {"environment", "failed", "overlap"}
    BY <1>1
  <2> QED
    BY <1>1, <1>2, <1>3, <2>1, <2>2 DEF Inv, OcrTypeOK, SaveState, ExtractionState
<1>7. SaveIsFresh'
  BY <1>3, <1>4, Shapes DEF Inv, SaveIsFresh
<1>8. RunningMatchesTable'
  <2>1. save[s].alone /\ save[s].whole => running' = Effective
    BY <1>1 DEF Inv, SaveIsFresh
  <2> QED
    BY <1>1, <1>4, <2>1 DEF RunningMatchesTable
<1> QED
  BY <1>5, <1>6, <1>7, <1>8 DEF Inv

-----------------------------------------------------------------------------
(* The extraction.                                                         *)

\* An extraction moves alone, and nothing else does.
LEMMA ExtractionStep ==
  ASSUME Inv, NEW x \in Extractions, NEW e \in ExtractionState, UsesOne(e),
         extraction' = [extraction EXCEPT ![x] = e],
         UNCHANGED <<table, running, save, stray>>
  PROVE  Inv'
<1>1. extraction \in [Extractions -> ExtractionState]
  BY DEF Inv, OcrTypeOK, ExtractionState
<1>2. extraction' \in [Extractions -> ExtractionState]
      /\ \A y \in Extractions : UsesOne(extraction'[y])
  BY <1>1 DEF Inv
<1>3. Effective' = Effective /\ InFlight' = InFlight
  BY DEF Effective, InFlight
<1> QED
  BY <1>2, <1>3 DEF Inv, OcrTypeOK, ExtractionState, SaveIsFresh, RunningMatchesTable

LEMMA ExtractKeepsInv ==
  ASSUME Inv, NEW x \in Extractions,
         BeginExtract(x) \/ CallVision(x) \/ CallGPT(x) \/ EndExtract(x)
  PROVE  Inv'
<1>1. /\ extraction \in [Extractions -> ExtractionState] /\ running \in Config
      /\ extraction[x] \in ExtractionState /\ UsesOne(extraction[x])
  BY DEF Inv, OcrTypeOK, ExtractionState
<1>2. UNCHANGED <<table, running, save, stray>>
  BY DEF BeginExtract, CallVision, CallGPT, EndExtract
<1>3. CASE BeginExtract(x)
  <2>1. PICK image \in BOOLEAN :
          extraction' = [extraction EXCEPT ![x] =
            [pc |-> IF image /\ running # NoConfig THEN "vision" ELSE "done",
             cfg |-> running, used |-> NoConfig, ran |-> {running}]]
    BY <1>3 DEF BeginExtract
  <2>2. PICK e : e = [pc |-> IF image /\ running # NoConfig THEN "vision" ELSE "done",
                      cfg |-> running, used |-> NoConfig, ran |-> {running}]
    OBVIOUS
  <2>3. e \in ExtractionState
    BY <1>1, <2>2, Shapes DEF ExtractionState
  <2>4. UsesOne(e)
    BY <2>2 DEF UsesOne, NoConfig
  <2>5. extraction' = [extraction EXCEPT ![x] = e]
    BY <2>1, <2>2
  <2> QED
    BY <1>2, <2>3, <2>4, <2>5, ExtractionStep
<1>4. ASSUME NEW pc \in {"gpt", "done"}, NEW p \in Providers, NEW e,
             extraction[x].pc # "idle",
             e = [extraction[x] EXCEPT !.pc = pc, !.used[p] = extraction[x].cfg[p]],
             extraction' = [extraction EXCEPT ![x] = e]
      PROVE  Inv'
  <2>1. /\ extraction[x].cfg \in Config /\ extraction[x].used \in Config
        /\ extraction[x].ran \in SUBSET Config
    BY <1>1 DEF ExtractionState
  <2>2. /\ e.pc = pc /\ e.cfg = extraction[x].cfg /\ e.ran = extraction[x].ran
        /\ e.used = [extraction[x].used EXCEPT ![p] = extraction[x].cfg[p]]
    BY <1>1, <1>4 DEF ExtractionState
  <2>3. e.used \in Config
    BY <2>1, <2>2 DEF Config
  <2>4. e \in ExtractionState
    BY <1>1, <1>4, <2>2, <2>3 DEF ExtractionState
  <2>5. UsesOne(e)
    <3>1. \A q \in Providers : e.used[q] = IF q = p THEN extraction[x].cfg[q]
                                           ELSE extraction[x].used[q]
      BY <2>1, <2>2 DEF Config
    <3> QED
      BY <1>1, <1>4, <2>2, <3>1 DEF UsesOne
  <2> QED
    BY <1>2, <1>4, <2>4, <2>5, ExtractionStep
<1>5. CASE CallVision(x)
  <2>1. PICK next \in {"gpt", "done"} :
          extraction' = [extraction EXCEPT ![x].pc = next,
                           ![x].used["gcv"] = extraction[x].cfg["gcv"]]
    BY <1>5 DEF CallVision
  <2>2. PICK e : e = [extraction[x] EXCEPT !.pc = next,
                        !.used["gcv"] = extraction[x].cfg["gcv"]]
    OBVIOUS
  <2>3. extraction' = [extraction EXCEPT ![x] = e]
    BY <1>1, <2>1, <2>2
  <2> QED
    BY <1>4, <1>5, <2>2, <2>3 DEF CallVision, Providers
<1>6. CASE CallGPT(x)
  <2>1. PICK e : e = [extraction[x] EXCEPT !.pc = "done",
                        !.used["openai"] = extraction[x].cfg["openai"]]
    OBVIOUS
  <2>2. extraction' = [extraction EXCEPT ![x] = e]
    BY <1>1, <1>6, <2>1 DEF CallGPT
  <2> QED
    BY <1>4, <1>6, <2>1, <2>2 DEF CallGPT, Providers
<1>7. CASE EndExtract(x)
  <2>1. extraction' = [extraction EXCEPT ![x] = IdleExtraction]
    BY <1>7 DEF EndExtract
  <2> QED
    BY <1>2, <2>1, Shapes, ExtractionStep
<1> QED
  BY <1>3, <1>5, <1>6, <1>7

-----------------------------------------------------------------------------
LEMMA RestartKeepsInv == Inv /\ RestartProcess => Inv'
<1> SUFFICES ASSUME Inv, RestartProcess PROVE Inv'
  OBVIOUS
<1>1. PICK cfg \in {Effective} \cup IF OcrFaults THEN CutReadings ELSE {} :
        /\ running' = AtStart(cfg)
        /\ stray' = IF AtStart(cfg) = Effective THEN {}
                    ELSE IF cfg = NoConfig THEN {"environment"} ELSE {"failed"}
  BY DEF RestartProcess
<1>2. /\ save' = [s \in Saves |-> IdleSave] /\ table' = table
      /\ extraction' = [x \in Extractions |-> IdleExtraction]
  BY DEF RestartProcess
<1>3. AtStart(cfg) \in Config
  BY <1>1, Shapes, EffectiveIsConfig, CutReadingsAreConfigs DEF Inv, AtStart
<1>4. Effective' = Effective
  BY <1>2 DEF Effective
<1>5. save' \in [Saves -> SaveState] /\ extraction' \in [Extractions -> ExtractionState]
  BY <1>2, Shapes
<1>6. OcrTypeOK'
  BY <1>1, <1>2, <1>3, <1>5 DEF Inv, OcrTypeOK, SaveState, ExtractionState
<1>7. SaveIsFresh' /\ RunningMatchesTable'
  BY <1>1, <1>2, <1>4, Shapes DEF SaveIsFresh, RunningMatchesTable
<1>8. \A x \in Extractions : UsesOne(extraction'[x])
  BY <1>2, Shapes
<1> QED
  BY <1>6, <1>7, <1>8 DEF Inv

LEMMA InductiveInv == Inv /\ [OcrNext]_ocrVars => Inv'
<1> SUFFICES ASSUME Inv, [OcrNext]_ocrVars PROVE Inv'
  OBVIOUS
<1>1. CASE UNCHANGED ocrVars
  BY <1>1 DEF Inv, OcrTypeOK, SaveIsFresh, RunningMatchesTable, InFlight, Effective, ocrVars
<1> QED
  BY <1>1, UpsertKeepsInv, ReadKeepsInv, CutOffKeepsInv, ReloadFailsKeepsInv, ApplyKeepsInv,
     ExtractKeepsInv, RestartKeepsInv DEF OcrNext

-----------------------------------------------------------------------------
\* The types of the variables, for every set of keys, requests and extractions.
THEOREM OcrTypes == OcrSpec => []OcrTypeOK
<1>1. Inv => OcrTypeOK
  BY DEF Inv
<1> QED
  BY InitInv, InductiveInv, <1>1, PTL DEF OcrSpec

\* updateOCRConfig, reloadOCRService: what runs is what is in the table, but for
\* the ways stray names.
THEOREM RunsTheTable == OcrSpec => []RunningMatchesTable
<1>1. Inv => RunningMatchesTable
  BY DEF Inv
<1> QED
  BY InitInv, InductiveInv, <1>1, PTL DEF OcrSpec

\* Extract: a reload in the middle of an extraction does not reach it.
THEOREM ExtractsWithOneConfig == OcrSpec => []OneConfigPerExtraction
  BY InitInv, InductiveInv, InvOneConfig, PTL DEF OcrSpec
=============================================================================
