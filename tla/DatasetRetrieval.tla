-------------------------- MODULE DatasetRetrieval --------------------------
(***************************************************************************)
(* How a knowledge dataset is indexed and how it is searched.  Dify fixes  *)
(* the index with the first document, in the technique the platform asks   *)
(* for at that moment; the search method is written separately, by every   *)
(* repair and every change of top_k.  A method that does not suit the      *)
(* index answers every query with nothing and reports no error.            *)
(***************************************************************************)
EXTENDS Naturals

CONSTANTS
  Repairers,           \* calls of SetDatasetRetrievalWith in flight at once
  MaxTechniques,       \* bound: changes of the platform's technique
  MaxRetrievalFaults   \* bound: failing console requests and settings reads

Techniques == {"economy", "high_quality"}
\* DIFY_INDEXING_TECHNIQUE, used while the stored technique cannot be read.
FromEnv == "high_quality"

VARIABLES
  technique,     \* the platform's stored technique
  techniques,    \* changes of it
  index,         \* the dataset's own, "" before the first document
  method,        \* its search method, "" as Dify creates it
  repair,        \* [Repairers -> the call in hand]
  upload,        \* [Repairers -> the technique of the document on its way, "" for none]
  settled,       \* a call that was answered with success found the index decided,
                 \* and no call that had found it open has written since (history)
  retrievalFaults

retrievalVars == <<technique, techniques, index, method, repair, upload, settled, retrievalFaults>>

Repair(pc, t, knew) == [pc |-> pc, technique |-> t, knew |-> knew]
NoRepair == Repair("idle", "economy", FALSE)

RetrievalInit ==
  /\ technique \in Techniques /\ techniques = 0
  /\ index = "" /\ method = "" /\ repair = [r \in Repairers |-> NoRepair]
  /\ upload = [r \in Repairers |-> ""] /\ settled = FALSE /\ retrievalFaults = 0

RetrievalFault == retrievalFaults < MaxRetrievalFaults /\ retrievalFaults' = retrievalFaults + 1

RetrievalModel(t) == IF t = "economy" THEN "keyword_search" ELSE "semantic_search"

ClassifyRetrieval ==
  CASE method = "" -> "unset"
    [] method # "" /\ index = "" -> "index_pending"
    [] index # "" /\ method = RetrievalModel(index) -> "sound"
    [] OTHER -> "mismatched"

\* storedIndexingTechnique, asked at every use.
Resolved(t) ==
  \/ t = technique /\ UNCHANGED retrievalFaults
  \/ t = FromEnv /\ RetrievalFault

\* An administrator stores another technique.
SwitchTechnique ==
  /\ techniques < MaxTechniques /\ techniques' = techniques + 1
  /\ technique' \in Techniques \ {technique}
  /\ UNCHANGED <<index, method, repair, upload, settled, retrievalFaults>>

\* An upload, as a file or as text, asks for the technique of the moment, and
\* sends a document that may take minutes to arrive.
Upload(u) ==
  /\ upload[u] = "" /\ index = ""
  /\ \E t \in Techniques : Resolved(t) /\ upload' = [upload EXCEPT ![u] = t]
  /\ UNCHANGED <<technique, techniques, index, method, repair, settled>>

\* The first document to arrive decides the index; later ones take it.
CreateDocument(u) ==
  /\ upload[u] # "" /\ upload' = [upload EXCEPT ![u] = ""]
  /\ \/ index' = (IF index = "" THEN upload[u] ELSE index) /\ UNCHANGED retrievalFaults
     \/ RetrievalFault /\ UNCHANGED index
  /\ UNCHANGED <<technique, techniques, method, repair, settled>>

\* SetDatasetRetrievalWith, for a new dataset, a repair or another top_k: the
\* technique is resolved once and used to the end.
SetRetrieval(r) ==
  /\ repair[r] = NoRepair
  /\ \E t \in Techniques : Resolved(t) /\ repair' = [repair EXCEPT ![r] = Repair("read", t, FALSE)]
  /\ UNCHANGED <<technique, techniques, index, method, upload, settled>>

\* Mutant: the dataset's own technique is not asked about.
AcceptAny(r) == TRUE

\* Undecided, or decided and the same; any other dataset is refused.
Accepts(r) == index \in {"", repair[r].technique}

\* GetDatasetConfig.
ReadDataset(r) ==
  /\ repair[r].pc = "read"
  /\ \/ Accepts(r) /\ repair' = [repair EXCEPT ![r] = Repair("patch", @.technique, index # "")] /\ UNCHANGED retrievalFaults
     \/ ~Accepts(r) /\ repair' = [repair EXCEPT ![r] = NoRepair] /\ UNCHANGED retrievalFaults
     \/ RetrievalFault /\ repair' = [repair EXCEPT ![r] = NoRepair]
  /\ UNCHANGED <<technique, techniques, index, method, upload, settled>>

\* The PATCH, whose answer may be lost.
PatchDataset(r) ==
  /\ repair[r].pc = "patch"
  /\ \/ /\ method' = RetrievalModel(repair[r].technique) /\ settled' = (settled /\ repair[r].knew)
        /\ \/ repair' = [repair EXCEPT ![r].pc = "verify"] /\ UNCHANGED retrievalFaults
           \/ repair' = [repair EXCEPT ![r] = NoRepair] /\ RetrievalFault
     \/ RetrievalFault /\ repair' = [repair EXCEPT ![r] = NoRepair] /\ UNCHANGED <<method, settled>>
  /\ UNCHANGED <<technique, techniques, index, upload>>

\* Every field that was written is compared.
VerifyDataset(r) ==
  /\ repair[r].pc = "verify" /\ repair' = [repair EXCEPT ![r] = NoRepair]
  /\ \/ /\ method = RetrievalModel(repair[r].technique)
        /\ settled' = (settled \/ repair[r].knew) /\ UNCHANGED retrievalFaults
     \/ method # RetrievalModel(repair[r].technique) /\ UNCHANGED <<settled, retrievalFaults>>
     \/ RetrievalFault /\ UNCHANGED settled
  /\ UNCHANGED <<technique, techniques, index, method, upload>>

RetrievalNext ==
  \/ SwitchTechnique
  \/ \E u \in Repairers : Upload(u) \/ CreateDocument(u)
  \/ \E r \in Repairers : SetRetrieval(r) \/ ReadDataset(r) \/ PatchDataset(r) \/ VerifyDataset(r)

RetrievalSpec == RetrievalInit /\ [][RetrievalNext]_retrievalVars

-----------------------------------------------------------------------------
\* Once a repair of a dataset with documents has been answered with success its
\* queries are not answered with nothing, whatever the platform's technique is
\* changed to and whoever writes it after that, until a call that had read the
\* dataset before its first document writes what it meant for an empty one.
RepairedStaysSound == settled => ClassifyRetrieval = "sound"
=============================================================================
