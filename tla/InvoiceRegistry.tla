-------------------------- MODULE InvoiceRegistry --------------------------
(***************************************************************************)
(* What the detection of duplicates promises: an invoice is registered     *)
(* once, under its vendor and number, in one step that also settles for    *)
(* good which invoice is its original - the one registered first.          *)
(* InvoicePipeline, which looks for duplicates in one statement and writes *)
(* the row in another, implements it while nobody edits or deletes         *)
(* invoices and OCR reads a file always the same.                          *)
(***************************************************************************)
CONSTANTS
  Invoices,
  Keys,       \* vendor and number of an invoice
  NoKey,      \* of an invoice that is not registered
  NoInvoice

VARIABLES
  key,        \* of each invoice
  original    \* of each invoice: itself, or the invoice it is a copy of

vars == <<key, original>>

Init ==
  /\ key = [i \in Invoices |-> NoKey]
  /\ original = [i \in Invoices |-> NoInvoice]

Holders(k) == {j \in Invoices : key[j] = k /\ original[j] = j}

Register(i, k, j) ==
  /\ key[i] = NoKey
  /\ key' = [key EXCEPT ![i] = k]
  /\ original' = [original EXCEPT ![i] = j]

RegisterOriginal(i, k) == Holders(k) = {} /\ Register(i, k, i)

RegisterDuplicate(i, k) == \E j \in Holders(k) : Register(i, k, j)

Next ==
  \E i \in Invoices, k \in Keys : RegisterOriginal(i, k) \/ RegisterDuplicate(i, k)

Spec == Init /\ [][Next]_vars
============================================================================
