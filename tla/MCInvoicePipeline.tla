------------------------ MODULE MCInvoicePipeline ------------------------
(***************************************************************************)
(* Values of the constants of InvoicePipeline for TLC, and the symmetry of *)
(* the identifiers nothing distinguishes.  Liveness is checked of a file   *)
(* of a zip and of an invoice made by hand, one of the two at a time.      *)
(***************************************************************************)
EXTENDS InvoicePipeline, TLC

CONSTANTS v1, n1, zip, m1

\* Every invoice is a file of one zip import, except one that is made by hand.
OneZip == [i \in Invoices |-> IF i = m1 THEN NoDocument ELSE zip]

\* Every file is the same document.
SameReading == [i \in Invoices |-> {<<v1, n1>>}]

\* OCR reads the number or misses it, from run to run.
UnsureReading == [i \in Invoices |-> {<<v1, n1>>, <<v1, Empty>>}]

Symmetric == Permutations(Tasks)
SymmetricInvoices == Symmetric \cup Permutations(Invoices)

\* Of the two one has never existed.  The one made by hand keeps the vendor it
\* was given until OCR has read its file: what edits change is seen of the other.
OneKind ==
  \/ table[m1].status = "absent"
  \/ /\ imports[zip] = "none"
     /\ table[m1].amounts = "human" => <<table[m1].vendor, table[m1].docNo>> = <<v1, Empty>>

MCNext == Next /\ OneKind'

MCFairSpec == Init /\ [][MCNext]_vars /\ Fairness
==========================================================================
