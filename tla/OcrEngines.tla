---------------------------- MODULE OcrEngines ----------------------------
(***************************************************************************)
(* The keys of the OCR engines: the table ocr_config, the engines the      *)
(* process runs with, the requests that save a key and reload the engines, *)
(* and the extractions that use them meanwhile.                            *)
(*                                                                         *)
(* A step is one SQL statement, one section under the lock of the service, *)
(* or one call of an engine.                                               *)
(***************************************************************************)
EXTENDS Naturals

CONSTANTS
  ApiKeys,
  NoKey,        \* the empty key
  EnvKeys,      \* the keys the process is started with, by provider
  Saves,        \* requests to updateOCRConfig
  Extractions,
  OcrFaults     \* BOOLEAN: a read of the table may fail or be cut off

Providers == {"openai", "gcv"}

ASSUME OcrAssumption ==
  /\ NoKey \notin ApiKeys
  /\ EnvKeys \in [Providers -> ApiKeys \cup {NoKey}]
  /\ OcrFaults \in BOOLEAN

VARIABLES
  table,     \* ocr_config; a provider without a row is one disabled without a key
  running,   \* the engines of the service, by the key they were made with
  save,      \* the requests that save
  extraction,
  stray      \* history: why running may differ from the table

ocrVars == <<table, running, save, extraction, stray>>

-----------------------------------------------------------------------------
KeyOrNone == ApiKeys \cup {NoKey}

Config == [Providers -> KeyOrNone]

NoConfig == [p \in Providers |-> NoKey]

\* reloadOCRService, buildOCRConfigFromDB: the enabled rows that have a key.
Effective == [p \in Providers |-> IF table[p].enabled THEN table[p].key ELSE NoKey]

\* ListOCRConfigs never asks rows.Err: a connection lost after no row or after that
\* of "gcv", the first by name, leaves a shorter list and no error.
CutReadings == {NoConfig, [Effective EXCEPT !["openai"] = NoKey]}

\* The keys in the table, when there are any, come before those of the process.
AtStart(cfg) == IF cfg = NoConfig THEN EnvKeys ELSE cfg

\* "alone" and "whole" are history: no other save meanwhile, every row was read.
IdleSave == [pc |-> "idle", cfg |-> NoConfig, alone |-> TRUE, whole |-> TRUE]

\* "used": the keys of the calls made; "ran" is history: the configurations that
\* ran while the extraction was in progress.
IdleExtraction == [pc |-> "idle", cfg |-> NoConfig, used |-> NoConfig, ran |-> {}]

InFlight == {s \in Saves : save[s].pc \in {"reload", "apply"}}

OcrInit ==
  /\ table = [p \in Providers |-> [key |-> NoKey, enabled |-> FALSE]]
  /\ running = EnvKeys
  /\ save = [s \in Saves |-> IdleSave]
  /\ extraction = [x \in Extractions |-> IdleExtraction]
  /\ stray = IF EnvKeys = NoConfig THEN {} ELSE {"environment"}

-----------------------------------------------------------------------------
(* updateOCRConfig.                                                        *)

\* UpsertOCRConfig: an empty key leaves the one that is there.
UpsertOCRConfig(s, p, key, enabled) ==
  /\ save[s].pc = "idle"
  /\ table' = [table EXCEPT ![p] = [key |-> IF key = NoKey THEN @.key ELSE key,
                                    enabled |-> enabled]]
  /\ save' = [q \in Saves |->
       IF q = s THEN [pc |-> "reload", cfg |-> NoConfig, alone |-> InFlight = {},
                      whole |-> TRUE]
       ELSE [save[q] EXCEPT !.alone = @ /\ q \notin InFlight]]
  /\ UNCHANGED <<running, extraction, stray>>

\* Variant with a bug: the keys of disabled rows are taken as well.
ReadEveryKey(s) ==
  /\ save[s].pc = "reload"
  /\ save' = [save EXCEPT ![s].pc = "apply", ![s].cfg = [p \in Providers |-> table[p].key]]
  /\ UNCHANGED <<table, running, extraction, stray>>

\* ListOCRConfigs.
ReadOCRConfigs(s) ==
  /\ save[s].pc = "reload"
  /\ save' = [save EXCEPT ![s].pc = "apply", ![s].cfg = Effective]
  /\ UNCHANGED <<table, running, extraction, stray>>

ReadIsCutOff(s) ==
  /\ save[s].pc = "reload" /\ OcrFaults
  /\ \E cfg \in CutReadings :
       save' = [save EXCEPT ![s].pc = "apply", ![s].cfg = cfg, ![s].whole = FALSE]
  /\ UNCHANGED <<table, running, extraction, stray>>

\* The request is answered with 200 all the same.
ReloadFails(s) ==
  /\ save[s].pc = "reload" /\ OcrFaults
  /\ save' = [save EXCEPT ![s] = IdleSave]
  /\ stray' = {"failed"}
  /\ UNCHANGED <<table, running, extraction>>

\* UpdateConfig, under the lock.
ApplyConfig(s) ==
  /\ save[s].pc = "apply"
  /\ running' = save[s].cfg
  /\ extraction' = [x \in Extractions |->
       IF extraction[x].pc \in {"vision", "gpt"}
       THEN [extraction[x] EXCEPT !.ran = @ \cup {save[s].cfg}] ELSE extraction[x]]
  /\ save' = [save EXCEPT ![s] = IdleSave]
  /\ stray' = IF ~save[s].whole THEN {"failed"}
              ELSE IF save[s].alone THEN {} ELSE {"overlap"}
  /\ UNCHANGED table

-----------------------------------------------------------------------------
(* Extract: the engines are read once, under the lock.                     *)

\* Without an engine, or for a file that is not an image, nothing is called.
BeginExtract(x) ==
  /\ extraction[x].pc = "idle"
  /\ \E image \in BOOLEAN : extraction' = [extraction EXCEPT ![x] =
       [pc |-> IF image /\ running # NoConfig THEN "vision" ELSE "done",
        cfg |-> running, used |-> NoConfig, ran |-> {running}]]
  /\ UNCHANGED <<table, running, save, stray>>

\* Vision reads the text first; an error of an engine ends the extraction.
CallVision(x) ==
  /\ extraction[x].pc = "vision"
  /\ \E next \in {"gpt"} \cup IF extraction[x].cfg["gcv"] = NoKey THEN {} ELSE {"done"} :
       extraction' = [extraction EXCEPT ![x].pc = next,
                        ![x].used["gcv"] = extraction[x].cfg["gcv"]]
  /\ UNCHANGED <<table, running, save, stray>>

\* Variant with a bug: the second engine is looked up when it is needed.
CallLatestGPT(x) ==
  /\ extraction[x].pc = "gpt"
  /\ extraction' = [extraction EXCEPT ![x].pc = "done", ![x].used["openai"] = running["openai"]]
  /\ UNCHANGED <<table, running, save, stray>>

CallGPT(x) ==
  /\ extraction[x].pc = "gpt"
  /\ extraction' = [extraction EXCEPT ![x].pc = "done",
                      ![x].used["openai"] = extraction[x].cfg["openai"]]
  /\ UNCHANGED <<table, running, save, stray>>

EndExtract(x) ==
  /\ extraction[x].pc = "done"
  /\ extraction' = [extraction EXCEPT ![x] = IdleExtraction]
  /\ UNCHANGED <<table, running, save, stray>>

-----------------------------------------------------------------------------
\* main: the environment, then the table, unless it has no key, fails or is read as
\* if it had none.
RestartProcess ==
  /\ \E cfg \in {Effective} \cup IF OcrFaults THEN CutReadings ELSE {} :
       /\ running' = AtStart(cfg)
       /\ stray' = IF AtStart(cfg) = Effective THEN {}
                   ELSE IF cfg = NoConfig THEN {"environment"} ELSE {"failed"}
  /\ save' = [s \in Saves |-> IdleSave]
  /\ extraction' = [x \in Extractions |-> IdleExtraction]
  /\ UNCHANGED table

OcrNext ==
  \/ \E s \in Saves :
       \/ \E p \in Providers, key \in KeyOrNone, enabled \in BOOLEAN :
            UpsertOCRConfig(s, p, key, enabled)
       \/ ReadOCRConfigs(s) \/ ReadIsCutOff(s) \/ ReloadFails(s) \/ ApplyConfig(s)
  \/ \E x \in Extractions :
       BeginExtract(x) \/ CallVision(x) \/ CallGPT(x) \/ EndExtract(x)
  \/ RestartProcess

OcrSpec == OcrInit /\ [][OcrNext]_ocrVars

-----------------------------------------------------------------------------
(* Properties.                                                             *)

OcrTypeOK ==
  /\ table \in [Providers -> [key : KeyOrNone, enabled : BOOLEAN]]
  /\ running \in Config
  /\ save \in [Saves -> [pc : {"idle", "reload", "apply"}, cfg : Config,
                          alone : BOOLEAN, whole : BOOLEAN]]
  /\ extraction \in [Extractions -> [pc : {"idle", "vision", "gpt", "done"},
                                     cfg : Config, used : Config, ran : SUBSET Config]]
  /\ stray \subseteq {"environment", "failed", "overlap"}

\* Once no save is in progress the process runs the engines of the table, unless
\* the saves before overlapped, the table could not be read or not to its end, or
\* the process took the keys it was started with.
RunningMatchesTable == InFlight = {} /\ stray = {} => running = Effective

\* The two engines of one extraction come from one configuration that ran at
\* the time: a save in the middle of it never mixes an old key and a new one.
OneConfigPerExtraction ==
  \A x \in Extractions :
    extraction[x].pc = "done" =>
      \E cfg \in extraction[x].ran : \A p \in Providers : extraction[x].used[p] \in {cfg[p], NoKey}

\* "DB takes priority over env vars": an engine that is disabled in the table does
\* not run once no save is in progress.
TableHasPriority ==
  InFlight = {} => \A p \in Providers :
    table[p].key # NoKey /\ ~table[p].enabled => running[p] = NoKey
=============================================================================
