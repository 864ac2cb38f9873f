-------------------------- MODULE VendorRegistry --------------------------
(***************************************************************************)
(* The registry of vendors by tax number, the link of an invoice to its    *)
(* vendor, and the tax number in the row of the invoice.  A run of the     *)
(* worker writes the three one after the other, in statements of their own *)
(* whose errors it drops; people make invoices, correct them and verify    *)
(* vendors.  Invoices are not deleted here: link and number go together.   *)
(***************************************************************************)
EXTENDS Naturals

CONSTANTS
  TaxNumbers,
  NoTax,        \* no tax number was read; no vendor
  Infos,        \* names and addresses of a vendor
  NoInfo,
  Linked,       \* invoices
  VendorRuns,   \* runs of the worker at once
  VendorFaults  \* BOOLEAN: a statement may fail

ASSUME VendorAssumption ==
  /\ NoTax \notin TaxNumbers
  /\ NoInfo \notin Infos
  /\ Linked # {} /\ Infos # {}
  /\ VendorFaults \in BOOLEAN

VARIABLES
  vendor,    \* the vendors table, by tax number
  made,      \* invoices that have a row
  invoiceTax,\* invoices.vendor_tax_id
  link,      \* invoices.vendor_id
  vrun,      \* the runs of the worker
  cause      \* history: what may have parted link and tax number since they met

vendorVars == <<vendor, made, invoiceTax, link, vrun, cause>>

-----------------------------------------------------------------------------
Vendor == [known : BOOLEAN, info : Infos \cup {NoInfo}, verified : BOOLEAN]

Causes == {"fault", "overlap", "edit", "byHand"}

VendorRun == [pc : {"idle", "upsert", "link", "write"}, invoice : Linked,
              tax : TaxNumbers \cup {NoTax}, info : Infos, alone : BOOLEAN]

IdleRun == [pc |-> "idle", invoice |-> CHOOSE i \in Linked : TRUE, tax |-> NoTax,
            info |-> CHOOSE n \in Infos : TRUE, alone |-> TRUE]

RunsOn(i) == {r \in VendorRuns : vrun[r].pc # "idle" /\ vrun[r].invoice = i}

VendorInit ==
  /\ vendor = [n \in TaxNumbers |-> [known |-> FALSE, info |-> NoInfo, verified |-> FALSE]]
  /\ made = {}
  /\ invoiceTax = [i \in Linked |-> NoTax]
  /\ link = [i \in Linked |-> NoTax]
  /\ vrun = [r \in VendorRuns |-> IdleRun]
  /\ cause = [i \in Linked |-> {}]

-----------------------------------------------------------------------------
(* A run of the worker.                                                    *)

\* OCR has read a tax number, or none, and a name.
StartVendorRun(r, i, n, info) ==
  /\ vrun[r].pc = "idle" /\ i \in made
  /\ vrun' = [q \in VendorRuns |->
       IF q = r THEN [pc |-> IF n = NoTax THEN "write" ELSE "upsert", invoice |-> i,
                      tax |-> n, info |-> info, alone |-> RunsOn(i) = {}]
       ELSE [vrun[q] EXCEPT !.alone = @ /\ q \notin RunsOn(i)]]
  /\ UNCHANGED <<vendor, made, invoiceTax, link, cause>>

\* Variant with a bug: ON CONFLICT updates whatever is there.
OverwrittenVendor(n, info) == [vendor[n] EXCEPT !.known = TRUE, !.info = info]

\* UpsertVendorFromOCR: ON CONFLICT keeps what a person has verified.
UpsertedVendor(n, info) ==
  [known |-> TRUE, verified |-> vendor[n].verified,
   info |-> IF vendor[n].verified THEN vendor[n].info ELSE info]

UpsertVendorFromOCR(r) ==
  /\ vrun[r].pc = "upsert"
  /\ vendor' = [vendor EXCEPT ![vrun[r].tax] = UpsertedVendor(vrun[r].tax, vrun[r].info)]
  /\ vrun' = [vrun EXCEPT ![r].pc = "link"]
  /\ UNCHANGED <<made, invoiceTax, link, cause>>

LinkInvoiceVendor(r) ==
  /\ vrun[r].pc = "link"
  /\ link' = [link EXCEPT ![vrun[r].invoice] = vrun[r].tax]
  /\ vrun' = [vrun EXCEPT ![r].pc = "write"]
  /\ UNCHANGED <<vendor, made, invoiceTax, cause>>

\* Variant with a bug: no tax number on the document clears the one in the row.
ClearingTax(i, n) == n

\* UpdateInvoiceData leaves what was there when none was read.
WrittenTax(i, n) == IF n = NoTax THEN invoiceTax[i] ELSE n

\* A run that was alone and read a number has brought both together again.
WriteInvoiceTax(r) ==
  LET i == vrun[r].invoice
  IN  /\ vrun[r].pc = "write"
      /\ invoiceTax' = [invoiceTax EXCEPT ![i] = WrittenTax(i, vrun[r].tax)]
      /\ cause' = [cause EXCEPT ![i] =
           IF ~vrun[r].alone THEN @ \cup {"overlap"}
           ELSE IF vrun[r].tax # NoTax /\ link[i] = vrun[r].tax THEN {} ELSE @]
      /\ vrun' = [vrun EXCEPT ![r] = IdleRun]
      /\ UNCHANGED <<vendor, made, link>>

\* The error is dropped and the run goes on; a refused upsert skips the link.
VendorStatementFails(r) ==
  /\ VendorFaults /\ vrun[r].pc # "idle"
  /\ vrun' = IF vrun[r].pc = "write" THEN [vrun EXCEPT ![r] = IdleRun]
             ELSE [vrun EXCEPT ![r].pc = "write"]
  /\ cause' = [cause EXCEPT ![vrun[r].invoice] =
       @ \cup {"fault"} \cup IF vrun[r].alone THEN {} ELSE {"overlap"}]
  /\ UNCHANGED <<vendor, made, invoiceTax, link>>

\* The process dies between two of the statements.
VendorCrash ==
  /\ VendorFaults
  /\ \E r \in VendorRuns : vrun[r].pc # "idle"
  /\ vrun' = [r \in VendorRuns |-> IdleRun]
  /\ cause' = [i \in Linked |-> cause[i] \cup IF RunsOn(i) = {} THEN {} ELSE {"fault"}]
  /\ UNCHANGED <<vendor, made, invoiceTax, link>>

-----------------------------------------------------------------------------
(* People.                                                                 *)

\* CreateInvoice: an upload has no tax number yet; createInvoice may be given one,
\* and links no vendor to it.
CreateInvoice(i, n) ==
  /\ i \notin made
  /\ made' = made \cup {i}
  /\ invoiceTax' = [invoiceTax EXCEPT ![i] = n]
  /\ cause' = [cause EXCEPT ![i] = IF n = NoTax THEN @ ELSE @ \cup {"byHand"}]
  /\ UNCHANGED <<vendor, link, vrun>>

\* verifyVendor, with the name as it is or a corrected one.
VerifyVendor(n, info) ==
  /\ vendor[n].known
  /\ vendor' = [vendor EXCEPT ![n].verified = TRUE, ![n].info = info]
  /\ UNCHANGED <<made, invoiceTax, link, vrun, cause>>

\* FullUpdateInvoice writes the tax number and leaves the link.
FullUpdateInvoice(i, n) ==
  /\ i \in made
  /\ invoiceTax' = [invoiceTax EXCEPT ![i] = n]
  /\ cause' = [cause EXCEPT ![i] = @ \cup {"edit"}]
  /\ UNCHANGED <<vendor, made, link, vrun>>

-----------------------------------------------------------------------------
VendorRunStep(r) ==
  \/ \E i \in Linked, n \in TaxNumbers \cup {NoTax}, info \in Infos :
       StartVendorRun(r, i, n, info)
  \/ UpsertVendorFromOCR(r) \/ LinkInvoiceVendor(r) \/ WriteInvoiceTax(r)
  \/ VendorStatementFails(r)

VendorNext ==
  \/ \E r \in VendorRuns : VendorRunStep(r)
  \/ VendorCrash
  \/ \E n \in TaxNumbers, info \in Infos : VerifyVendor(n, info)
  \/ \E i \in Linked, n \in TaxNumbers \cup {NoTax} : CreateInvoice(i, n) \/ FullUpdateInvoice(i, n)

VendorSpec == VendorInit /\ [][VendorNext]_vendorVars

-----------------------------------------------------------------------------
(* Properties.                                                             *)

VendorTypeOK ==
  /\ vendor \in [TaxNumbers -> Vendor]
  /\ made \subseteq Linked
  /\ invoiceTax \in [Linked -> TaxNumbers \cup {NoTax}]
  /\ link \in [Linked -> TaxNumbers \cup {NoTax}]
  /\ vrun \in [VendorRuns -> VendorRun]
  /\ cause \in [Linked -> SUBSET Causes]

\* What a person has verified stays as verified, whatever runs of the worker read
\* the old row before: only another verification changes it.
VerifiedInfoStands ==
  [][\A n \in TaxNumbers :
       vendor[n].verified /\ vendor'[n] # vendor[n]
         => \E info \in Infos : VerifyVendor(n, info)]_vendorVars

\* An invoice is linked to the vendor of its tax number once its runs are over,
\* unless it was made by hand with a number, runs overlapped, a statement failed,
\* the process died between two, or a person corrected the number, and no later run
\* has put it right.
LinkFollowsTaxNumber ==
  \A i \in Linked : RunsOn(i) = {} /\ cause[i] = {} => link[i] = invoiceTax[i]
=============================================================================
