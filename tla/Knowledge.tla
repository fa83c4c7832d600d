------------------------------ MODULE Knowledge ------------------------------
(***************************************************************************)
(* The documents of a bot: the upload (app/api/knowledge.py) and the task  *)
(* that makes one searchable (app/worker/tasks.py), over the rows of       *)
(* Postgres, the points of the vector store and the broker's queue.        *)
(*                                                                         *)
(* A run of the task mints the ids of its points, which stand here as one  *)
(* batch.  Its statements are one transaction until the last commit, and   *)
(* the vector store knows nothing of transactions.                         *)
(***************************************************************************)
EXTENDS Naturals, FiniteSets

CONSTANTS
  Document,
  Loader,         \* worker processes
  Nothing,
  MaxKills,       \* bound: workers killed
  MaxErrors,      \* bound: commits that fail
  MaxAgain        \* bound: messages delivered again while their worker lives

ASSUME KnowledgeAssumption ==
  /\ Nothing \notin Document
  /\ MaxKills \in Nat /\ MaxErrors \in Nat /\ MaxAgain \in Nat

VARIABLES
  document,   \* [Document -> status]
  upload,     \* [Document -> step of its upload]
  message,    \* [Document -> Nat], on the queue
  rows,       \* [Document -> set of batches], knowledge_chunks
  points,     \* batches in the vector store
  loader,     \* [Loader -> its step and what it holds]
  minted,     \* batches so far
  raised,     \* documents whose task ended with an exception
  mishaps     \* messages delivered again, workers killed, and documents
              \* whose message was acknowledged for a killed worker process

knowledgeVars ==
  <<document, upload, message, rows, points, loader, minted, raised, mishaps>>

DocumentStatus == {"none", "queued", "processing", "ready", "failed"}

Free == [pc |-> "idle", doc |-> Nothing, read |-> "none", gone |-> {}, batch |-> 0]

KnowledgeTypeOK ==
  /\ document \in [Document -> DocumentStatus]
  /\ upload \in [Document -> {"none", "stored", "accepted", "refused"}]
  /\ message \in [Document -> 0..(1 + MaxAgain + MaxKills)]
  /\ minted \in Nat
  /\ points \subseteq 1..minted
  /\ \A d \in Document : rows[d] \subseteq 1..minted
  /\ \A w \in Loader :
       /\ loader[w].pc \in {"idle", "taken", "loaded", "working", "deleted",
                            "stored", "failing"}
       /\ loader[w].doc \in Document \cup {Nothing}
       /\ (loader[w].doc = Nothing) = (loader[w].pc = "idle")
  /\ raised \subseteq Document
  /\ mishaps.copies \in 0..MaxAgain /\ mishaps.kills \in 0..MaxKills
  /\ mishaps.lost \subseteq Document

KnowledgeInit ==
  /\ document = [d \in Document |-> "none"]
  /\ upload = [d \in Document |-> "none"]
  /\ message = [d \in Document |-> 0]
  /\ rows = [d \in Document |-> {}]
  /\ points = {}
  /\ loader = [w \in Loader |-> Free]
  /\ minted = 0
  /\ raised = {}
  /\ mishaps = [copies |-> 0, kills |-> 0, lost |-> {}]

-----------------------------------------------------------------------------
(* upload_document: the file and the row are stored ... *)
Upload(d) ==
  /\ upload[d] = "none"
  /\ upload' = [upload EXCEPT ![d] = "stored"]
  /\ document' = [document EXCEPT ![d] = "queued"]
  /\ UNCHANGED <<message, rows, points, loader, minted, raised, mishaps>>

(* ... and then the task published; the broker or the process may be down. *)
Publish(d) ==
  /\ upload[d] = "stored"
  /\ \/ /\ upload' = [upload EXCEPT ![d] = "accepted"]
        /\ message' = [message EXCEPT ![d] = @ + 1]
     \/ upload' = [upload EXCEPT ![d] = "refused"] /\ UNCHANGED message
  /\ UNCHANGED <<document, rows, points, loader, minted, raised, mishaps>>

-----------------------------------------------------------------------------
(* ingest_knowledge_document, from here to the end of the section. *)
At(w, pc) == loader[w].pc = pc

Doc(w) == loader[w].doc

Moves(w, pc) == loader' = [loader EXCEPT ![w].pc = pc]

(* The task ends and its message is acknowledged. *)
Ends(w) == loader' = [loader EXCEPT ![w] = Free]

Take(w, d) ==
  /\ At(w, "idle") /\ message[d] > 0
  /\ message' = [message EXCEPT ![d] = @ - 1]
  /\ loader' = [loader EXCEPT ![w] = [@ EXCEPT !.pc = "taken", !.doc = d]]
  /\ UNCHANGED <<document, upload, rows, points, minted, raised, mishaps>>

(* Variants of definitions below, each with one mistake, used to see that  *)
(* the properties notice it, stand before the definition they vary.        *)

(* A document that is being worked on is left to the run that does. *)
LoadOnce(w) ==
  /\ At(w, "taken")
  /\ IF document[Doc(w)] \in {"ready", "processing"} THEN Ends(w)
     ELSE loader' = [loader EXCEPT ![w] =
                      [@ EXCEPT !.pc = "loaded", !.read = document[Doc(w)]]]
  /\ UNCHANGED <<document, upload, message, rows, points, minted, raised, mishaps>>

Load(w) ==
  /\ At(w, "taken")
  /\ IF document[Doc(w)] = "ready" THEN Ends(w)
     ELSE loader' = [loader EXCEPT ![w] =
                      [@ EXCEPT !.pc = "loaded", !.read = document[Doc(w)]]]
  /\ UNCHANGED <<document, upload, message, rows, points, minted, raised, mishaps>>

(* A status that was read as "processing" is not written again. *)
Mark(w) ==
  /\ At(w, "loaded")
  /\ document' = IF loader[w].read = "processing" THEN document
                 ELSE [document EXCEPT ![Doc(w)] = "processing"]
  /\ Moves(w, "working")
  /\ UNCHANGED <<upload, message, rows, points, minted, raised, mishaps>>

(* Text, chunks and vectors are there; the rows seen are deleted and ids   *)
(* minted.                                                                 *)
Prepare(w) ==
  /\ At(w, "working")
  /\ minted' = minted + 1
  /\ loader' = [loader EXCEPT ![w] =
       [@ EXCEPT !.pc = "deleted", !.gone = rows[Doc(w)], !.batch = minted + 1]]
  /\ UNCHANGED <<document, upload, message, rows, points, raised, mishaps>>

(* The upsert does not wait for the store to have the points. *)
UpsertUnawaited(w) ==
  /\ At(w, "deleted")
  /\ points' \in {points, points \cup {loader[w].batch}}
  /\ Moves(w, "stored")
  /\ UNCHANGED <<document, upload, message, rows, minted, raised, mishaps>>

Upsert(w) ==
  /\ At(w, "deleted")
  /\ points' = points \cup {loader[w].batch}
  /\ Moves(w, "stored")
  /\ UNCHANGED <<document, upload, message, rows, minted, raised, mishaps>>

(* No text, no vectors, a collection another run is creating, or an        *)
(* upsert that fails, or seems to.                                         *)
Fail(w) ==
  /\ loader[w].pc \in {"working", "deleted"}
  /\ points' \in {points} \cup {points \cup {b} : b \in {loader[w].batch} \ {0}}
  /\ Moves(w, "failing")
  /\ UNCHANGED <<document, upload, message, rows, minted, raised, mishaps>>

(* The last commit: the deletion with the new rows and READY, or FAILED.   *)
Commit(w, status, new) ==
  /\ document' = [document EXCEPT ![Doc(w)] = status]
  /\ rows' = [rows EXCEPT ![Doc(w)] = (@ \ loader[w].gone) \cup new]
  /\ Ends(w)
  /\ UNCHANGED <<upload, message, points, minted, raised, mishaps>>

Finish(w) == At(w, "stored") /\ Commit(w, "ready", {loader[w].batch})

GiveUp(w) == At(w, "failing") /\ Commit(w, "failed", {})

(* A commit fails: the task raises, and is acknowledged all the same. *)
Raise(w) ==
  /\ loader[w].pc \in {"loaded", "stored", "failing"}
  /\ Cardinality(raised) < MaxErrors
  /\ raised' = raised \cup {Doc(w)}
  /\ Ends(w)
  /\ UNCHANGED <<document, upload, message, rows, points, minted, mishaps>>

(* A worker is killed.  When the whole of it dies, the broker has had no   *)
(* acknowledgement and the message comes again: task_acks_late.  When it   *)
(* is a process of its pool, the worker itself acknowledges the message:   *)
(* task_reject_on_worker_lost is not set.                                  *)
Kill(w) ==
  /\ ~At(w, "idle")
  /\ mishaps.kills < MaxKills
  /\ \/ /\ message' = [message EXCEPT ![Doc(w)] = @ + 1]
        /\ mishaps' = [mishaps EXCEPT !.kills = @ + 1]
     \/ /\ mishaps' = [mishaps EXCEPT !.kills = @ + 1, !.lost = @ \cup {Doc(w)}]
        /\ UNCHANGED message
  /\ Ends(w)
  /\ UNCHANGED <<document, upload, rows, points, minted, raised>>

(* A message that is not acknowledged for too long comes again too. *)
Redeliver(w) ==
  /\ ~At(w, "idle")
  /\ mishaps.copies < MaxAgain
  /\ mishaps' = [mishaps EXCEPT !.copies = @ + 1]
  /\ message' = [message EXCEPT ![Doc(w)] = @ + 1]
  /\ UNCHANGED <<document, upload, rows, points, loader, minted, raised>>

Ingest(w) ==
  \/ Load(w)
  \/ Mark(w)
  \/ Prepare(w)
  \/ Upsert(w)
  \/ Fail(w)
  \/ Finish(w)
  \/ GiveUp(w)
  \/ Raise(w)

KnowledgeStep ==
  \/ \E d \in Document : Upload(d) \/ Publish(d) \/ \E w \in Loader : Take(w, d)
  \/ \E w \in Loader : Ingest(w) \/ Kill(w) \/ Redeliver(w)

KnowledgeSpec == KnowledgeInit /\ [][KnowledgeStep]_knowledgeVars

-----------------------------------------------------------------------------
(* A document shown as ready is searchable: it has rows, and every row's   *)
(* points are in the store, whichever runs of its task crossed, died or    *)
(* failed on the way.                                                      *)
ReadyIsSearchable ==
  \A d \in Document :
    document[d] = "ready" => rows[d] # {} /\ rows[d] \subseteq points

Settled(d) == document[d] \in {"ready", "failed"}

(* An upload that was answered is decided for good, ready or failed,       *)
(* however often its workers die with all their processes, its message is  *)
(* delivered twice and runs of its task cross -- unless a commit of the    *)
(* task fails, or a process is killed and its message acknowledged.        *)
EveryUploadSettles ==
  \A d \in Document :
    (upload[d] = "accepted") ~> [](Settled(d) \/ d \in raised \cup mishaps.lost)

(* "A worker killed mid-task returns the message to the queue instead of   *)
(* losing it": so only a commit that fails leaves an upload undecided.     *)
KilledLosesNothing ==
  \A d \in Document :
    (upload[d] = "accepted") ~> [](Settled(d) \/ d \in raised)

=============================================================================
