--------------------------- MODULE MCOcrEngines ---------------------------
(***************************************************************************)
(* OcrEngines with one key of each provider that the process may be        *)
(* started with; TLC checks it by itself and as a part of MCServices.      *)
(***************************************************************************)
EXTENDS OcrEngines

CONSTANT k1

\* OPENAI_API_KEY is set, GCV_API_KEY is not.
OnlyOpenAI == [p \in Providers |-> IF p = "openai" THEN k1 ELSE NoKey]
=============================================================================
