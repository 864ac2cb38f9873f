------------------------ MODULE VendorRegistryProofs ------------------------
(***************************************************************************)
(* Proofs about VendorRegistry, for every number of tax numbers, invoices  *)
(* and runs: what a person verified stands, and a run that was alone on    *)
(* its invoice leaves link and tax number together.                        *)
(***************************************************************************)
EXTENDS VendorRegistry, TLAPS

Active(r) == vrun[r].pc # "idle"

VerifiedIsKnown == \A n \in TaxNumbers : vendor[n].verified => vendor[n].known

\* A run counts as alone only while no other works on its invoice.
AloneIsAlone ==
  \A r, q \in VendorRuns :
    Active(r) /\ vrun[r].alone /\ Active(q) /\ vrun[q].invoice = vrun[r].invoice => q = r

\* Runs work on invoices that have a row, and nothing else is linked.
OnlyMade ==
  /\ \A r \in VendorRuns : Active(r) => vrun[r].invoice \in made
  /\ \A i \in Linked \ made : link[i] = NoTax

(***************************************************************************)
(* Where a run that is alone stands: link and tax number are still those   *)
(* it found, or the link is already that of the number it will write.      *)
(***************************************************************************)
Halfway(run) ==
  LET i == run.invoice
  IN  run.pc # "idle" /\ run.alone /\ cause[i] = {} =>
        /\ run.pc \in {"upsert", "link"} => link[i] = invoiceTax[i] /\ run.tax # NoTax
        /\ run.pc = "write" =>
             link[i] = IF run.tax = NoTax THEN invoiceTax[i] ELSE run.tax

Inv ==
  /\ VendorTypeOK
  /\ VerifiedIsKnown
  /\ AloneIsAlone
  /\ OnlyMade
  /\ \A r \in VendorRuns : Halfway(vrun[r])
  /\ LinkFollowsTaxNumber

LEMMA IdleShape == IdleRun \in VendorRun /\ IdleRun.pc = "idle"
  BY VendorAssumption DEF IdleRun, VendorRun

LEMMA InitInv == VendorInit => Inv
<1> SUFFICES ASSUME VendorInit PROVE Inv
  OBVIOUS
<1>1. VendorTypeOK
  BY IdleShape DEF VendorInit, VendorTypeOK, Vendor
<1>2. VerifiedIsKnown
  BY DEF VendorInit, VerifiedIsKnown
<1>3. AloneIsAlone /\ \A r \in VendorRuns : Halfway(vrun[r])
  BY IdleShape DEF VendorInit, AloneIsAlone, Halfway, Active
<1>4. LinkFollowsTaxNumber /\ OnlyMade
  BY IdleShape DEF VendorInit, LinkFollowsTaxNumber, OnlyMade, Active
<1> QED
  BY <1>1, <1>2, <1>3, <1>4 DEF Inv

-----------------------------------------------------------------------------
(* The vendors.                                                            *)

\* A run reads a vendor but writes only what nobody has verified.
LEMMA UpsertStands ==
  ASSUME Inv, NEW r \in VendorRuns, UpsertVendorFromOCR(r), NEW n \in TaxNumbers
  PROVE  /\ vendor' \in [TaxNumbers -> Vendor]
         /\ vendor'[n].verified = vendor[n].verified
         /\ vendor[n].verified => vendor'[n] = vendor[n]
         /\ vendor'[n].verified => vendor'[n].known
<1> DEFINE run == vrun[r]
<1>1. /\ vendor \in [TaxNumbers -> Vendor] /\ run \in VendorRun
      /\ vendor' = [vendor EXCEPT ![run.tax] = UpsertedVendor(run.tax, run.info)]
  BY DEF Inv, VendorTypeOK, UpsertVendorFromOCR
<1>2. ASSUME NEW m \in TaxNumbers, NEW info \in Infos
      PROVE  /\ UpsertedVendor(m, info) \in Vendor
             /\ UpsertedVendor(m, info).verified = vendor[m].verified
             /\ UpsertedVendor(m, info).known = TRUE
             /\ vendor[m].verified => UpsertedVendor(m, info) = vendor[m]
  <2>1. vendor[m] \in Vendor /\ (vendor[m].verified => vendor[m].known)
    BY <1>1 DEF Inv, VerifiedIsKnown
  <2>2. UpsertedVendor(m, info) =
          [known |-> TRUE, verified |-> vendor[m].verified,
           info |-> IF vendor[m].verified THEN vendor[m].info ELSE info]
    BY DEF UpsertedVendor
  <2>3. UpsertedVendor(m, info) \in Vendor
    BY <2>1, <2>2 DEF Vendor
  <2>4. vendor[m].verified => UpsertedVendor(m, info) = vendor[m]
    BY <2>1, <2>2 DEF Vendor
  <2> QED
    BY <2>2, <2>3, <2>4
<1>3. run.info \in Infos
  BY <1>1 DEF VendorRun
<1>4. vendor' \in [TaxNumbers -> Vendor]
  BY <1>1, <1>2, <1>3
<1>5. CASE n = run.tax
  <2>1. vendor'[n] = UpsertedVendor(n, run.info)
    BY <1>1, <1>5
  <2> QED
    BY <1>2, <1>3, <1>4, <2>1
<1>6. CASE n # run.tax
  <2>1. vendor'[n] = vendor[n]
    BY <1>1, <1>6
  <2> QED
    BY <1>4, <2>1 DEF Inv, VerifiedIsKnown
<1> QED
  BY <1>5, <1>6

LEMMA VerifyStands ==
  ASSUME Inv, NEW n \in TaxNumbers, NEW info \in Infos, VerifyVendor(n, info)
  PROVE  vendor' \in [TaxNumbers -> Vendor] /\ VerifiedIsKnown'
<1>1. /\ vendor \in [TaxNumbers -> Vendor] /\ vendor[n].known
      /\ vendor' = [vendor EXCEPT ![n].verified = TRUE, ![n].info = info]
  BY DEF Inv, VendorTypeOK, VerifyVendor
<1>2. vendor'[n] = [vendor[n] EXCEPT !.verified = TRUE, !.info = info]
  BY <1>1
<1>3. vendor[n] \in Vendor
  BY <1>1
<1>4. vendor'[n] \in Vendor /\ vendor'[n].known
  BY <1>1, <1>2, <1>3 DEF Vendor
<1>5. \A m \in TaxNumbers \ {n} : vendor'[m] = vendor[m]
  BY <1>1
<1> QED
  BY <1>1, <1>4, <1>5 DEF Inv, VerifiedIsKnown

-----------------------------------------------------------------------------
(* The runs.                                                               *)

\* A run on invoice i moves within its work: only i can be disturbed.
LEMMA RunMoves ==
  ASSUME Inv, NEW r \in VendorRuns, NEW s \in VendorRun, vrun' = [vrun EXCEPT ![r] = s],
         Active(r), s.invoice = vrun[r].invoice, s.alone = vrun[r].alone, s.pc # "idle",
         UNCHANGED <<made, invoiceTax>>, link' \in [Linked -> TaxNumbers \cup {NoTax}],
         cause' \in [Linked -> SUBSET Causes],
         \A i \in Linked \ {s.invoice} : link'[i] = link[i] /\ cause'[i] = cause[i],
         Halfway(s)'
  PROVE  /\ AloneIsAlone' /\ LinkFollowsTaxNumber' /\ OnlyMade'
         /\ \A q \in VendorRuns : Halfway(vrun[q])'
         /\ vrun' \in [VendorRuns -> VendorRun]
<1>1. vrun \in [VendorRuns -> VendorRun] /\ vrun[r] \in VendorRun
  BY DEF Inv, VendorTypeOK
<1>2. /\ vrun' \in [VendorRuns -> VendorRun] /\ vrun'[r] = s
      /\ \A q \in VendorRuns \ {r} : vrun'[q] = vrun[q]
  BY <1>1
<1>3. AloneIsAlone'
  BY <1>2 DEF Inv, AloneIsAlone, Active
<1>4. ASSUME NEW q \in VendorRuns PROVE Halfway(vrun[q])'
  <2>1. CASE q = r
    BY <1>2, <2>1 DEF Halfway
  <2>2. CASE q # r
    <3>1. vrun'[q] = vrun[q] /\ vrun[q] \in VendorRun /\ Halfway(vrun[q])
      BY <1>1, <1>2, <2>2 DEF Inv
    <3>2. CASE vrun[q].pc # "idle" /\ vrun[q].alone
      <4>1. vrun[q].invoice # s.invoice
        BY <2>2, <3>2 DEF Inv, AloneIsAlone, Active
      <4>2. vrun[q].invoice \in Linked
        BY <3>1 DEF VendorRun
      <4> QED
        BY <3>1, <4>1, <4>2 DEF Halfway
    <3>3. CASE ~(vrun[q].pc # "idle" /\ vrun[q].alone)
      BY <3>1, <3>3 DEF Halfway
    <3> QED
      BY <3>2, <3>3
  <2> QED
    BY <2>1, <2>2
<1>5. LinkFollowsTaxNumber'
  <2> SUFFICES ASSUME NEW i \in Linked, RunsOn(i)' = {}, cause'[i] = {}
               PROVE  link'[i] = invoiceTax'[i]
    BY DEF LinkFollowsTaxNumber
  <2>1. i # s.invoice
    BY <1>2 DEF RunsOn
  <2>2. RunsOn(i) = {}
    BY <1>2, <2>1 DEF RunsOn
  <2> QED
    BY <2>1, <2>2 DEF Inv, LinkFollowsTaxNumber
<1>6. OnlyMade'
  BY <1>2 DEF Inv, OnlyMade, Active
<1> QED
  BY <1>2, <1>3, <1>4, <1>5, <1>6

\* A run ends: what is left of its invoice is together, or has a cause.
LEMMA RunEnds ==
  ASSUME Inv, NEW r \in VendorRuns, NEW j \in Linked, Active(r), vrun[r].invoice = j,
         vrun' = [vrun EXCEPT ![r] = IdleRun], UNCHANGED <<vendor, made, link>>,
         invoiceTax' \in [Linked -> TaxNumbers \cup {NoTax}],
         cause' \in [Linked -> SUBSET Causes],
         \A i \in Linked \ {j} : invoiceTax'[i] = invoiceTax[i] /\ cause'[i] = cause[i],
         ~vrun[r].alone => cause'[j] # {},
         vrun[r].alone /\ cause'[j] = {} => link[j] = invoiceTax'[j]
  PROVE  Inv'
<1>1. vrun \in [VendorRuns -> VendorRun]
  BY DEF Inv, VendorTypeOK
<1>2. /\ vrun' \in [VendorRuns -> VendorRun] /\ vrun'[r] = IdleRun
      /\ \A q \in VendorRuns \ {r} : vrun'[q] = vrun[q]
  BY <1>1, IdleShape
<1>3. AloneIsAlone'
  BY <1>2, IdleShape DEF Inv, AloneIsAlone, Active
<1>4. ASSUME NEW q \in VendorRuns PROVE Halfway(vrun[q])'
  <2>1. CASE q = r
    BY <1>2, <2>1, IdleShape DEF Halfway
  <2>2. CASE q # r
    <3>1. vrun'[q] = vrun[q] /\ vrun[q] \in VendorRun /\ Halfway(vrun[q])
      BY <1>1, <1>2, <2>2 DEF Inv
    <3>2. CASE vrun[q].pc # "idle" /\ vrun[q].alone
      <4>1. vrun[q].invoice # j
        BY <2>2, <3>2 DEF Inv, AloneIsAlone, Active
      <4>2. vrun[q].invoice \in Linked
        BY <3>1 DEF VendorRun
      <4> QED
        BY <3>1, <4>1, <4>2 DEF Halfway
    <3>3. CASE ~(vrun[q].pc # "idle" /\ vrun[q].alone)
      BY <3>1, <3>3 DEF Halfway
    <3> QED
      BY <3>2, <3>3
  <2> QED
    BY <2>1, <2>2
<1>5. LinkFollowsTaxNumber'
  <2> SUFFICES ASSUME NEW i \in Linked, RunsOn(i)' = {}, cause'[i] = {}
               PROVE  link'[i] = invoiceTax'[i]
    BY DEF LinkFollowsTaxNumber
  <2>1. CASE i = j
    BY <2>1
  <2>2. CASE i # j
    <3>1. RunsOn(i) = {}
      BY <1>2, <2>2 DEF RunsOn
    <3> QED
      BY <2>2, <3>1 DEF Inv, LinkFollowsTaxNumber
  <2> QED
    BY <2>1, <2>2
<1>6. VendorTypeOK' /\ VerifiedIsKnown' /\ OnlyMade'
  BY <1>2, IdleShape DEF Inv, VendorTypeOK, VerifiedIsKnown, OnlyMade, Active
<1> QED
  BY <1>3, <1>4, <1>5, <1>6 DEF Inv

-----------------------------------------------------------------------------
(* The actions.                                                            *)

LEMMA StartKeepsInv ==
  ASSUME Inv, NEW r \in VendorRuns, NEW i \in Linked, NEW n \in TaxNumbers \cup {NoTax},
         NEW info \in Infos, StartVendorRun(r, i, n, info)
  PROVE  Inv'
<1> DEFINE s == [pc |-> IF n = NoTax THEN "write" ELSE "upsert", invoice |-> i,
                 tax |-> n, info |-> info, alone |-> RunsOn(i) = {}]
<1>1. /\ vrun' = [q \in VendorRuns |-> IF q = r THEN s
                    ELSE [vrun[q] EXCEPT !.alone = @ /\ q \notin RunsOn(i)]]
      /\ vrun[r].pc = "idle" /\ i \in made
      /\ UNCHANGED <<vendor, made, invoiceTax, link, cause>>
  BY DEF StartVendorRun
<1>2. vrun \in [VendorRuns -> VendorRun]
  BY DEF Inv, VendorTypeOK
<1>3. /\ vrun'[r] = s /\ s \in VendorRun /\ vrun'[r].invoice = i /\ vrun'[r].pc # "idle"
      /\ vrun'[r].alone => RunsOn(i) = {}
  <2>1. vrun'[r] = s
    BY <1>1
  <2>2. s.alone = (RunsOn(i) = {}) /\ s.invoice = i /\ s.pc # "idle"
    OBVIOUS
  <2>3. s \in VendorRun
    BY DEF VendorRun
  <2> QED
    BY <2>1, <2>2, <2>3
<1>4. ASSUME NEW q \in VendorRuns, q # r
      PROVE  /\ vrun'[q] \in VendorRun /\ vrun'[q].pc = vrun[q].pc
             /\ vrun'[q].invoice = vrun[q].invoice /\ vrun'[q].tax = vrun[q].tax
             /\ vrun'[q].alone => vrun[q].alone /\ q \notin RunsOn(i)
  <2>1. vrun'[q] = [vrun[q] EXCEPT !.alone = @ /\ q \notin RunsOn(i)]
    BY <1>1, <1>4
  <2>2. vrun[q] \in VendorRun
    BY <1>2
  <2> QED
    BY <2>1, <2>2 DEF VendorRun
<1>5. VendorTypeOK' /\ VerifiedIsKnown'
  <2>1. vrun' \in [VendorRuns -> VendorRun]
    BY <1>1, <1>3, <1>4
  <2> QED
    BY <1>1, <2>1 DEF Inv, VendorTypeOK, VerifiedIsKnown
<1>6. AloneIsAlone'
  <2> SUFFICES ASSUME NEW p \in VendorRuns, NEW q \in VendorRuns,
                      vrun'[p].pc # "idle", vrun'[p].alone, vrun'[q].pc # "idle",
                      vrun'[q].invoice = vrun'[p].invoice
               PROVE  q = p
    BY DEF AloneIsAlone, Active
  <2>1. CASE p = r /\ q # r
    <3>1. RunsOn(i) = {}
      BY <1>3, <2>1
    <3> QED
      BY <1>3, <1>4, <2>1, <3>1 DEF RunsOn
  <2>2. CASE p # r /\ q = r
    <3>1. p \notin RunsOn(i) /\ vrun[p].pc # "idle" /\ vrun[p].invoice = i
      BY <1>3, <1>4, <2>2
    <3> QED
      BY <3>1 DEF RunsOn
  <2>3. CASE p # r /\ q # r
    BY <1>4, <2>3 DEF Inv, AloneIsAlone, Active
  <2> QED
    BY <2>1, <2>2, <2>3
<1>7. ASSUME NEW q \in VendorRuns PROVE Halfway(vrun[q])'
  <2>1. CASE q = r
    <3>1. s.alone /\ cause[i] = {} => link[i] = invoiceTax[i]
      BY DEF Inv, LinkFollowsTaxNumber
    <3> QED
      BY <1>1, <1>3, <2>1, <3>1 DEF Halfway
  <2>2. CASE q # r
    <3>1. Halfway(vrun[q])
      BY DEF Inv
    <3> QED
      BY <1>1, <1>4, <2>2, <3>1 DEF Halfway
  <2> QED
    BY <2>1, <2>2
<1>8. LinkFollowsTaxNumber'
  <2> SUFFICES ASSUME NEW j \in Linked, RunsOn(j)' = {}, cause'[j] = {}
               PROVE  link'[j] = invoiceTax'[j]
    BY DEF LinkFollowsTaxNumber
  <2>1. ASSUME NEW q \in RunsOn(j) PROVE FALSE
    <3>1. q \in VendorRuns /\ vrun[q].pc # "idle" /\ vrun[q].invoice = j /\ q # r
      BY <1>1, <2>1 DEF RunsOn
    <3>2. vrun'[q].pc # "idle" /\ vrun'[q].invoice = j
      BY <1>4, <3>1
    <3> QED
      BY <3>1, <3>2 DEF RunsOn
  <2>2. RunsOn(j) = {}
    BY <2>1
  <2> QED
    BY <1>1, <2>2 DEF Inv, LinkFollowsTaxNumber
<1>9. OnlyMade'
  BY <1>1, <1>3, <1>4 DEF Inv, OnlyMade, Active
<1> QED
  BY <1>5, <1>6, <1>7, <1>8, <1>9 DEF Inv

LEMMA UpsertKeepsInv ==
  ASSUME Inv, NEW r \in VendorRuns, UpsertVendorFromOCR(r)
  PROVE  Inv'
<1>1. PICK s : s = [vrun[r] EXCEPT !.pc = "link"]
  OBVIOUS
<1>2. /\ vrun' = [vrun EXCEPT ![r] = s] /\ vrun[r].pc = "upsert"
      /\ UNCHANGED <<made, invoiceTax, link, cause>>
  BY <1>1 DEF UpsertVendorFromOCR
<1>3. vrun[r] \in VendorRun
  BY DEF Inv, VendorTypeOK
<1>4. /\ s \in VendorRun /\ s.invoice = vrun[r].invoice /\ s.alone = vrun[r].alone
      /\ s.pc = "link" /\ s.tax = vrun[r].tax
  BY <1>1, <1>3 DEF VendorRun
<1>5. Halfway(s)'
  <2>1. Halfway(vrun[r])
    BY DEF Inv
  <2> QED
    BY <1>2, <1>4, <2>1 DEF Halfway
<1>6. /\ AloneIsAlone' /\ LinkFollowsTaxNumber' /\ OnlyMade' /\ (\A q \in VendorRuns : Halfway(vrun[q])')
      /\ vrun' \in [VendorRuns -> VendorRun]
  BY <1>2, <1>4, <1>5, RunMoves DEF Inv, VendorTypeOK, Active
<1>7. VerifiedIsKnown'
  BY UpsertStands DEF VerifiedIsKnown
<1>8. vendor' \in [TaxNumbers -> Vendor]
  <2>1. CASE TaxNumbers = {}
    <3>1. vendor' = [vendor EXCEPT ![vrun[r].tax] = UpsertedVendor(vrun[r].tax, vrun[r].info)]
          /\ vendor \in [TaxNumbers -> Vendor]
      BY DEF UpsertVendorFromOCR, Inv, VendorTypeOK
    <3> QED
      BY <2>1, <3>1
  <2>2. CASE TaxNumbers # {}
    BY <2>2, UpsertStands
  <2> QED
    BY <2>1, <2>2
<1>9. VendorTypeOK'
  BY <1>2, <1>6, <1>8 DEF Inv, VendorTypeOK
<1> QED
  BY <1>6, <1>7, <1>9 DEF Inv

LEMMA LinkKeepsInv ==
  ASSUME Inv, NEW r \in VendorRuns, LinkInvoiceVendor(r)
  PROVE  Inv'
<1>1. PICK s : s = [vrun[r] EXCEPT !.pc = "write"]
  OBVIOUS
<1>2. /\ vrun' = [vrun EXCEPT ![r] = s] /\ vrun[r].pc = "link"
      /\ link' = [link EXCEPT ![vrun[r].invoice] = vrun[r].tax]
      /\ UNCHANGED <<vendor, made, invoiceTax, cause>>
  BY <1>1 DEF LinkInvoiceVendor
<1>3. vrun[r] \in VendorRun /\ link \in [Linked -> TaxNumbers \cup {NoTax}]
  BY DEF Inv, VendorTypeOK
<1>4. /\ s \in VendorRun /\ s.invoice = vrun[r].invoice /\ s.alone = vrun[r].alone
      /\ s.pc = "write" /\ s.tax = vrun[r].tax
  BY <1>1, <1>3 DEF VendorRun
<1>5. /\ link' \in [Linked -> TaxNumbers \cup {NoTax}] /\ s.invoice \in Linked
      /\ link'[s.invoice] = s.tax /\ \A i \in Linked \ {s.invoice} : link'[i] = link[i]
  BY <1>2, <1>3, <1>4 DEF VendorRun
<1>6. Halfway(s)'
  <2>1. Halfway(vrun[r])
    BY DEF Inv
  <2> QED
    BY <1>2, <1>4, <1>5, <2>1 DEF Halfway
<1>7. /\ AloneIsAlone' /\ LinkFollowsTaxNumber' /\ OnlyMade' /\ (\A q \in VendorRuns : Halfway(vrun[q])')
      /\ vrun' \in [VendorRuns -> VendorRun]
  BY <1>2, <1>4, <1>5, <1>6, RunMoves DEF Inv, VendorTypeOK, Active
<1>8. VendorTypeOK' /\ VerifiedIsKnown'
  BY <1>2, <1>5, <1>7 DEF Inv, VendorTypeOK, VerifiedIsKnown
<1> QED
  BY <1>7, <1>8 DEF Inv

LEMMA WriteKeepsInv ==
  ASSUME Inv, NEW r \in VendorRuns, WriteInvoiceTax(r)
  PROVE  Inv'
<1>1. PICK j : j = vrun[r].invoice
  OBVIOUS
<1>2. /\ vrun' = [vrun EXCEPT ![r] = IdleRun] /\ vrun[r].pc = "write"
      /\ invoiceTax' = [invoiceTax EXCEPT ![j] = WrittenTax(j, vrun[r].tax)]
      /\ cause' = [cause EXCEPT ![j] =
           IF ~vrun[r].alone THEN @ \cup {"overlap"}
           ELSE IF vrun[r].tax # NoTax /\ link[j] = vrun[r].tax THEN {} ELSE @]
      /\ UNCHANGED <<vendor, made, link>>
  BY <1>1 DEF WriteInvoiceTax
<1>3. /\ vrun[r] \in VendorRun /\ j \in Linked /\ vrun[r].tax \in TaxNumbers \cup {NoTax}
      /\ invoiceTax \in [Linked -> TaxNumbers \cup {NoTax}]
      /\ cause \in [Linked -> SUBSET Causes]
  BY <1>1 DEF Inv, VendorTypeOK, VendorRun
<1>4. /\ invoiceTax'[j] = IF vrun[r].tax = NoTax THEN invoiceTax[j] ELSE vrun[r].tax
      /\ invoiceTax' \in [Linked -> TaxNumbers \cup {NoTax}]
      /\ \A i \in Linked \ {j} : invoiceTax'[i] = invoiceTax[i]
  BY <1>2, <1>3 DEF WrittenTax
<1>5. /\ cause' \in [Linked -> SUBSET Causes]
      /\ cause'[j] = IF ~vrun[r].alone THEN cause[j] \cup {"overlap"}
                     ELSE IF vrun[r].tax # NoTax /\ link[j] = vrun[r].tax THEN {}
                     ELSE cause[j]
      /\ \A i \in Linked \ {j} : cause'[i] = cause[i]
  BY <1>2, <1>3 DEF Causes
<1>6. vrun[r].alone /\ cause'[j] = {} => link[j] = invoiceTax'[j]
  <2>1. Halfway(vrun[r])
    BY DEF Inv
  <2> QED
    BY <1>1, <1>2, <1>4, <1>5, <2>1 DEF Halfway
<1> QED
  BY <1>1, <1>2, <1>3, <1>4, <1>5, <1>6, RunEnds DEF Active

LEMMA FailKeepsInv ==
  ASSUME Inv, NEW r \in VendorRuns, VendorStatementFails(r)
  PROVE  Inv'
<1>1. PICK j : j = vrun[r].invoice
  OBVIOUS
<1>2. /\ vrun' = IF vrun[r].pc = "write" THEN [vrun EXCEPT ![r] = IdleRun]
                 ELSE [vrun EXCEPT ![r].pc = "write"]
      /\ vrun[r].pc # "idle"
      /\ cause' = [cause EXCEPT ![j] =
           @ \cup {"fault"} \cup IF vrun[r].alone THEN {} ELSE {"overlap"}]
      /\ UNCHANGED <<vendor, made, invoiceTax, link>>
  BY <1>1 DEF VendorStatementFails
<1>3. /\ vrun[r] \in VendorRun /\ j \in Linked /\ cause \in [Linked -> SUBSET Causes]
      /\ invoiceTax \in [Linked -> TaxNumbers \cup {NoTax}]
      /\ link \in [Linked -> TaxNumbers \cup {NoTax}]
  BY <1>1 DEF Inv, VendorTypeOK, VendorRun
<1>4. /\ cause' \in [Linked -> SUBSET Causes] /\ "fault" \in cause'[j]
      /\ \A i \in Linked \ {j} : cause'[i] = cause[i]
  BY <1>2, <1>3 DEF Causes
<1>5. CASE vrun[r].pc = "write"
  BY <1>1, <1>2, <1>3, <1>4, <1>5, RunEnds DEF Active
<1>6. CASE vrun[r].pc # "write"
  <2>1. PICK s : s = [vrun[r] EXCEPT !.pc = "write"]
    OBVIOUS
  <2>2. vrun' = [vrun EXCEPT ![r] = s]
    BY <1>2, <1>6, <2>1
  <2>3. /\ s \in VendorRun /\ s.invoice = j /\ s.alone = vrun[r].alone /\ s.pc = "write"
    BY <1>1, <1>3, <2>1 DEF VendorRun
  <2>4. Halfway(s)'
    BY <1>4, <2>3 DEF Halfway
  <2>5. /\ AloneIsAlone' /\ LinkFollowsTaxNumber' /\ OnlyMade'
        /\ (\A q \in VendorRuns : Halfway(vrun[q])')
        /\ vrun' \in [VendorRuns -> VendorRun]
    BY <1>1, <1>2, <1>3, <1>4, <2>2, <2>3, <2>4, RunMoves DEF Active
  <2>6. VendorTypeOK' /\ VerifiedIsKnown'
    BY <1>2, <1>4, <2>5 DEF Inv, VendorTypeOK, VerifiedIsKnown
  <2> QED
    BY <2>5, <2>6 DEF Inv
<1> QED
  BY <1>5, <1>6

LEMMA CrashKeepsInv == Inv /\ VendorCrash => Inv'
<1> SUFFICES ASSUME Inv, VendorCrash PROVE Inv'
  OBVIOUS
<1>1. /\ vrun' = [r \in VendorRuns |-> IdleRun]
      /\ cause' = [i \in Linked |-> cause[i] \cup IF RunsOn(i) = {} THEN {} ELSE {"fault"}]
      /\ UNCHANGED <<vendor, made, invoiceTax, link>>
  BY DEF VendorCrash
<1>2. VendorTypeOK' /\ VerifiedIsKnown'
  <2>1. cause' \in [Linked -> SUBSET Causes]
    BY <1>1 DEF Inv, VendorTypeOK, Causes
  <2>2. vrun' \in [VendorRuns -> VendorRun]
    BY <1>1, IdleShape
  <2> QED
    BY <1>1, <2>1, <2>2 DEF Inv, VendorTypeOK, VerifiedIsKnown
<1>3. AloneIsAlone' /\ OnlyMade' /\ \A q \in VendorRuns : Halfway(vrun[q])'
  BY <1>1, IdleShape DEF AloneIsAlone, Halfway, Active, Inv, OnlyMade
<1>4. LinkFollowsTaxNumber'
  <2> SUFFICES ASSUME NEW i \in Linked, cause'[i] = {} PROVE link'[i] = invoiceTax'[i]
    BY DEF LinkFollowsTaxNumber
  <2>1. cause[i] = {} /\ RunsOn(i) = {}
    BY <1>1
  <2> QED
    BY <1>1, <2>1 DEF Inv, LinkFollowsTaxNumber
<1> QED
  BY <1>2, <1>3, <1>4 DEF Inv

LEMMA EditKeepsInv ==
  ASSUME Inv, NEW i \in Linked, NEW n \in TaxNumbers \cup {NoTax}, FullUpdateInvoice(i, n)
  PROVE  Inv'
<1>1. /\ invoiceTax' = [invoiceTax EXCEPT ![i] = n]
      /\ cause' = [cause EXCEPT ![i] = @ \cup {"edit"}]
      /\ UNCHANGED <<vendor, made, link, vrun>>
  BY DEF FullUpdateInvoice
<1>2. /\ invoiceTax \in [Linked -> TaxNumbers \cup {NoTax}]
      /\ cause \in [Linked -> SUBSET Causes] /\ vrun \in [VendorRuns -> VendorRun]
  BY DEF Inv, VendorTypeOK
<1>3. /\ invoiceTax' \in [Linked -> TaxNumbers \cup {NoTax}]
      /\ cause' \in [Linked -> SUBSET Causes] /\ cause'[i] # {}
      /\ \A j \in Linked \ {i} : invoiceTax'[j] = invoiceTax[j] /\ cause'[j] = cause[j]
  BY <1>1, <1>2 DEF Causes
<1>4. VendorTypeOK' /\ VerifiedIsKnown' /\ AloneIsAlone' /\ OnlyMade'
  BY <1>1, <1>3 DEF Inv, VendorTypeOK, VerifiedIsKnown, AloneIsAlone, OnlyMade, Active
<1>5. ASSUME NEW q \in VendorRuns PROVE Halfway(vrun[q])'
  <2>1. Halfway(vrun[q]) /\ vrun[q].invoice \in Linked
    BY <1>2 DEF Inv, VendorRun
  <2> QED
    BY <1>1, <1>3, <2>1 DEF Halfway
<1>6. LinkFollowsTaxNumber'
  <2>1. \A j \in Linked : RunsOn(j)' = RunsOn(j)
    BY <1>1 DEF RunsOn
  <2> QED
    BY <1>1, <1>3, <2>1 DEF Inv, LinkFollowsTaxNumber
<1> QED
  BY <1>4, <1>5, <1>6 DEF Inv

LEMMA CreateKeepsInv ==
  ASSUME Inv, NEW i \in Linked, NEW n \in TaxNumbers \cup {NoTax}, CreateInvoice(i, n)
  PROVE  Inv'
<1>1. /\ i \notin made /\ made' = made \cup {i}
      /\ invoiceTax' = [invoiceTax EXCEPT ![i] = n]
      /\ cause' = [cause EXCEPT ![i] = IF n = NoTax THEN @ ELSE @ \cup {"byHand"}]
      /\ UNCHANGED <<vendor, link, vrun>>
  BY DEF CreateInvoice
<1>2. /\ invoiceTax \in [Linked -> TaxNumbers \cup {NoTax}]
      /\ cause \in [Linked -> SUBSET Causes] /\ vrun \in [VendorRuns -> VendorRun]
      /\ made \subseteq Linked
  BY DEF Inv, VendorTypeOK
<1>3. /\ invoiceTax' \in [Linked -> TaxNumbers \cup {NoTax}] /\ invoiceTax'[i] = n
      /\ cause' \in [Linked -> SUBSET Causes] /\ (n # NoTax => cause'[i] # {})
      /\ \A j \in Linked \ {i} : invoiceTax'[j] = invoiceTax[j] /\ cause'[j] = cause[j]
  BY <1>1, <1>2 DEF Causes
<1>4. VendorTypeOK' /\ VerifiedIsKnown' /\ AloneIsAlone' /\ OnlyMade'
  BY <1>1, <1>2, <1>3 DEF Inv, VendorTypeOK, VerifiedIsKnown, AloneIsAlone, OnlyMade, Active
<1>5. ASSUME NEW q \in VendorRuns PROVE Halfway(vrun[q])'
  <2>1. /\ Halfway(vrun[q]) /\ vrun[q].invoice \in Linked
        /\ vrun[q].pc # "idle" => vrun[q].invoice # i
    BY <1>1, <1>2 DEF Inv, VendorRun, OnlyMade, Active
  <2> QED
    BY <1>1, <1>3, <2>1 DEF Halfway
<1>6. LinkFollowsTaxNumber'
  <2>1. \A j \in Linked : RunsOn(j)' = RunsOn(j)
    BY <1>1 DEF RunsOn
  <2>2. link[i] = NoTax
    BY <1>1 DEF Inv, OnlyMade
  <2> QED
    BY <1>1, <1>3, <2>1, <2>2 DEF Inv, LinkFollowsTaxNumber
<1> QED
  BY <1>4, <1>5, <1>6 DEF Inv

LEMMA VerifyKeepsInv ==
  ASSUME Inv, NEW n \in TaxNumbers, NEW info \in Infos, VerifyVendor(n, info)
  PROVE  Inv'
<1>1. UNCHANGED <<made, invoiceTax, link, vrun, cause>>
  BY DEF VerifyVendor
<1>2. VendorTypeOK' /\ VerifiedIsKnown'
  BY <1>1, VerifyStands DEF Inv, VendorTypeOK
<1>3. /\ AloneIsAlone' /\ LinkFollowsTaxNumber' /\ OnlyMade'
      /\ \A q \in VendorRuns : Halfway(vrun[q])'
  BY <1>1 DEF Inv, AloneIsAlone, LinkFollowsTaxNumber, OnlyMade, Halfway, Active, RunsOn
<1> QED
  BY <1>2, <1>3 DEF Inv

LEMMA InductiveInv == Inv /\ [VendorNext]_vendorVars => Inv'
<1> SUFFICES ASSUME Inv, [VendorNext]_vendorVars PROVE Inv'
  OBVIOUS
<1>1. CASE UNCHANGED vendorVars
  BY <1>1 DEF Inv, VendorTypeOK, VerifiedIsKnown, AloneIsAlone, LinkFollowsTaxNumber,
              OnlyMade, Halfway, Active, RunsOn, vendorVars
<1> QED
  BY <1>1, StartKeepsInv, UpsertKeepsInv, LinkKeepsInv, WriteKeepsInv, FailKeepsInv,
     CrashKeepsInv, CreateKeepsInv, EditKeepsInv, VerifyKeepsInv DEF VendorNext, VendorRunStep

-----------------------------------------------------------------------------
\* The types of the variables, for every number of vendors, invoices and runs.
THEOREM VendorTypes == VendorSpec => []VendorTypeOK
<1>1. Inv => VendorTypeOK
  BY DEF Inv
<1> QED
  BY InitInv, InductiveInv, <1>1, PTL DEF VendorSpec

\* UpdateInvoiceData, LinkInvoiceVendor: link and tax number agree, but for the
\* causes that are named.
THEOREM LinkFollows == VendorSpec => []LinkFollowsTaxNumber
<1>1. Inv => LinkFollowsTaxNumber
  BY DEF Inv
<1> QED
  BY InitInv, InductiveInv, <1>1, PTL DEF VendorSpec

\* A step leaves a verified vendor as it is, or is another verification of it.
LEMMA StepStands ==
  ASSUME Inv, [VendorNext]_vendorVars, NEW n \in TaxNumbers,
         vendor[n].verified, vendor'[n] # vendor[n]
  PROVE  \E info \in Infos : VerifyVendor(n, info)
<1>1. ASSUME NEW m \in TaxNumbers, NEW info \in Infos, VerifyVendor(m, info), m # n
      PROVE  FALSE
  <2>1. vendor' = [vendor EXCEPT ![m].verified = TRUE, ![m].info = info]
        /\ vendor \in [TaxNumbers -> Vendor]
    BY <1>1 DEF VerifyVendor, Inv, VendorTypeOK
  <2>2. vendor'[n] = vendor[n]
    BY <1>1, <2>1
  <2> QED
    BY <2>2
<1>2. ASSUME NEW r \in VendorRuns, VendorRunStep(r) PROVE FALSE
  <2>1. UpsertVendorFromOCR(r)
    BY <1>2 DEF VendorRunStep, StartVendorRun, LinkInvoiceVendor, WriteInvoiceTax,
                VendorStatementFails
  <2> QED
    BY <2>1, UpsertStands
<1>3. CASE UNCHANGED vendorVars
  BY <1>3 DEF vendorVars
<1>4. vendor' # vendor
  OBVIOUS
<1> QED
  BY <1>1, <1>2, <1>3, <1>4 DEF VendorNext, VendorCrash, CreateInvoice,
              FullUpdateInvoice

\* UpsertVendorFromOCR: what a person verified is not read over by any run.
THEOREM VerifiedStands == VendorSpec => VerifiedInfoStands
<1>1. Inv /\ [VendorNext]_vendorVars =>
        [\A n \in TaxNumbers : vendor[n].verified /\ vendor'[n] # vendor[n]
           => \E info \in Infos : VerifyVendor(n, info)]_vendorVars
  BY StepStands
<1> QED
  BY InitInv, InductiveInv, <1>1, PTL DEF VendorSpec, VerifiedInfoStands
=============================================================================
