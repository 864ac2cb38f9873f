---------------------------- MODULE MCServices ----------------------------
(***************************************************************************)
(* The services around the pipeline for TLC, each in an instance of its    *)
(* own.  They share no state: the initial state chooses which one moves.   *)
(***************************************************************************)
EXTENDS LineConversation, Classification, MCOcrEngines, VendorRegistry,
        ArchiveLogs, RateLimiter, Migrations, AdminClient

CONSTANTS
  f1, t1, t2, i1, g1, ann,           \* LINE events of one user
  ink, toner, cartridge, paper,      \* keywords and items
  s1, s2, x1,                        \* saves and an extraction
  n1, n2, named, renamed,            \* tax numbers and what vendors are called
  old, new,                          \* processes of two versions
  c1, c2, c3                         \* calls of the admin application

VARIABLE focus

services ==
  <<lineVars, classificationVars, ocrVars, vendorVars, archiveVars, limiterVars,
    migrationVars, clientVars>>

-----------------------------------------------------------------------------
(* Instances.                                                              *)

EventKinds == [e \in Events |-> CASE e = f1 -> "follow" [] e \in {t1, t2} -> "text"
                                  [] e = i1 -> "image" [] e = g1 -> "login"]

AllFromAnn == [e \in Events |-> ann]

Contains == {<<ink, ink>>, <<toner, toner>>, <<ink, cartridge>>, <<toner, cartridge>>}

PaperIsKnown == [t \in Texts |-> IF t = paper THEN "expense" ELSE "pending"]

TwoVersions == [p \in Starters |-> IF p = old THEN 2 ELSE 3]

KindsOfCalls == [c \in Calls |-> IF c = c1 THEN "plain" ELSE IF c = c2 THEN "me" ELSE "login"]

\* Some services are seen in scenes, each a part of the instance: a follow and
\* two texts, or two texts after a conversation made by hand; an image and a login
\* of a user whose account may be deactivated; two saves; a save and an extraction;
\* runs that read two tax numbers; runs that read one number with two names.
LineScenes == {"texts", "images"}

OcrScenes == {"saves", "extraction"}

VendorScenes == {"numbers", "names"}

LineScene ==
  \/ /\ focus = "texts"
     /\ \A e \in {i1, g1} : LineAt(e, "new")
     /\ \A e \in Events : account[e] # "inactive"
     /\ Len(convs) > 0 => convs[1].by # ByHand \/ LineAt(f1, "new")
  \/ /\ focus = "images" /\ hasBranch
     /\ \A e \in {f1, t1, t2} : LineAt(e, "new")
     /\ \A i \in 1..Len(convs) : convs[i].by # ByHand

OcrScene ==
  \/ focus = "saves" /\ extraction[x1].pc = "idle"
  \/ focus = "extraction" /\ save[s2].pc = "idle"

VendorScene ==
  \/ focus = "numbers" /\ \A r \in VendorRuns : vrun[r].info = named
     /\ \A n \in TaxNumbers : ~vendor[n].verified
  \/ focus = "names" /\ \A r \in VendorRuns : vrun[r].tax # n2
     /\ \A i \in Linked : invoiceTax[i] # n2

ServicesInit ==
  /\ focus \in LineScenes \cup OcrScenes \cup VendorScenes
               \cup {"rules", "archive", "limiter", "migrations", "client"}
  /\ LineInit /\ ClassificationInit /\ OcrInit /\ VendorInit /\ ArchiveInit
  /\ LimiterInit /\ MigrationInit /\ ClientInit
  /\ focus # "texts" => hasBranch
  /\ focus # "archive" => aged = {} /\ execMode = "simple_protocol"
  /\ focus # "migrations" => ~byHand
  /\ focus # "client" => ~refreshToken

-----------------------------------------------------------------------------
LineFocus == focus \in LineScenes /\ UNCHANGED
  <<focus, classificationVars, ocrVars, vendorVars, archiveVars, limiterVars,
    migrationVars, clientVars>>

RulesFocus == focus = "rules" /\ UNCHANGED
  <<focus, lineVars, ocrVars, vendorVars, archiveVars, limiterVars, migrationVars, clientVars>>

OcrFocus == focus \in OcrScenes /\ UNCHANGED
  <<focus, lineVars, classificationVars, vendorVars, archiveVars, limiterVars,
    migrationVars, clientVars>>

VendorFocus == focus \in VendorScenes /\ UNCHANGED
  <<focus, lineVars, classificationVars, ocrVars, archiveVars, limiterVars,
    migrationVars, clientVars>>

ArchiveFocus == focus = "archive" /\ UNCHANGED
  <<focus, lineVars, classificationVars, ocrVars, vendorVars, limiterVars,
    migrationVars, clientVars>>

LimiterFocus == focus = "limiter" /\ UNCHANGED
  <<focus, lineVars, classificationVars, ocrVars, vendorVars, archiveVars,
    migrationVars, clientVars>>

MigrationFocus == focus = "migrations" /\ UNCHANGED
  <<focus, lineVars, classificationVars, ocrVars, vendorVars, archiveVars, limiterVars,
    clientVars>>

ClientFocus == focus = "client" /\ UNCHANGED
  <<focus, lineVars, classificationVars, ocrVars, vendorVars, archiveVars, limiterVars,
    migrationVars>>

ServicesNext ==
  \/ LineFocus /\ LineNext /\ LineScene'
  \/ RulesFocus /\ ClassificationNext
  \/ OcrFocus /\ OcrNext /\ OcrScene'
  \/ VendorFocus /\ VendorNext /\ VendorScene'
  \/ ArchiveFocus /\ ArchiveNext
  \/ LimiterFocus /\ LimiterNext
  \/ MigrationFocus /\ MigrationNext
  \/ ClientFocus /\ ClientNext

\* The fairness of ClientSpec.
ServicesSpec ==
  /\ ServicesInit /\ [][ServicesNext]_<<services, focus>>
  /\ \A c \in Calls : WF_clientVars(ClientFocus /\ Answer(c))
===========================================================================
