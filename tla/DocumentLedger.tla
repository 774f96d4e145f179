--------------------------- MODULE DocumentLedger ---------------------------
(***************************************************************************)
(* What the document store promises its readers (the list and get          *)
(* endpoints, and the retrieval queries, which join document_chunks with    *)
(* documents whose status is COMPLETED): a document goes through            *)
(*                                                                         *)
(*     absent -> PENDING -> PROCESSING -> COMPLETED | FAILED -> deleted    *)
(*                                                                         *)
(* it may be deleted at any point once it exists, its chunks appear all    *)
(* together in the step that completes it and disappear in the step that   *)
(* deletes it, and a deleted document never comes back.  DocumentIngestion *)
(* is the program that has to keep this promise.                           *)
(***************************************************************************)
EXTENDS Naturals, Sequences

CONSTANTS Docs,        \* document ids, each used for one upload
          MaxChunks    \* bound on the chunks of one document, at least 1

VARIABLES status,      \* documents.status, with "absent" and "deleted" rows
          chunks       \* the embeddings of a document's rows in document_chunks

ledgerVars == <<status, chunks>>

\* models.DocumentStatus: the values of the column.
DocumentStatus == {"PENDING", "PROCESSING", "COMPLETED", "FAILED"}

\* A chunk's embedding is Gemini's vector or the zero vector of the fallback.
Embedding == {"vector", "zero"}

LedgerTypeOK == /\ status \in [Docs -> DocumentStatus \cup {"absent", "deleted"}]
                /\ chunks \in [Docs -> Seq(Embedding)]

LedgerInit == /\ status = [d \in Docs |-> "absent"]
              /\ chunks = [d \in Docs |-> <<>>]

Submit(d) == /\ status[d] = "absent"
             /\ status' = [status EXCEPT ![d] = "PENDING"]
             /\ UNCHANGED chunks

Begin(d) == /\ status[d] = "PENDING"
            /\ status' = [status EXCEPT ![d] = "PROCESSING"]
            /\ UNCHANGED chunks

Publish(d) == /\ status[d] = "PROCESSING"
              /\ status' = [status EXCEPT ![d] = "COMPLETED"]
              /\ chunks' = [chunks EXCEPT ![d] = chunks'[d]]
              /\ chunks'[d] \in Seq(Embedding)
              /\ Len(chunks'[d]) \in 1..MaxChunks

GiveUp(d) == /\ status[d] = "PROCESSING"
             /\ status' = [status EXCEPT ![d] = "FAILED"]
             /\ UNCHANGED chunks

Erase(d) == /\ status[d] \in DocumentStatus
             /\ status' = [status EXCEPT ![d] = "deleted"]
             /\ chunks' = [chunks EXCEPT ![d] = <<>>]

LedgerNext == \E d \in Docs : \/ Submit(d)
                              \/ Begin(d)
                              \/ Publish(d)
                              \/ GiveUp(d)
                              \/ Erase(d)

LedgerSpec == LedgerInit /\ [][LedgerNext]_ledgerVars
=============================================================================
