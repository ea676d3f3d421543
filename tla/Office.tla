------------------------------- MODULE Office -------------------------------
(***************************************************************************)
(* The paper work: documents and files (Documents), tasks given to         *)
(* employees (Boarding), and what employees answer to tasks and trainings  *)
(* (TaskResponses).  No handler of one touches a table of another, so a    *)
(* behaviour is one of the three.                                          *)
(***************************************************************************)
EXTENDS TaskResponses

CONSTANTS
    Requests,             \* the Calls of Documents and of Boarding
    Known,                \* of Documents
    Given, Category       \* of Boarding

(* The id of a new row is not that of a row there from the start.          *)
ASSUME NewDocumentIds == Known \cap Requests = {}
ASSUME NewRowIds == Given \cap (Requests \X (Tasks \cup Requests \cup {"none"})) = {}

VARIABLES
    side,                                                   \* which of the three is running
    folder, document, shelf, file, object, doomed, paperPc, paperCall, paperVar, paperCrossed,
    task, category, row, boardPc, boardCall, boardVar, boardCrossed

papers == <<folder, document, shelf, file, object, doomed,
            paperPc, paperCall, paperVar, paperCrossed>>
board  == <<task, category, row, boardPc, boardCall, boardVar, boardCrossed>>

D == INSTANCE Documents WITH Calls <- Requests,
    pc <- paperPc, call <- paperCall, var <- paperVar, crossed <- paperCrossed

B == INSTANCE Boarding WITH Calls <- Requests,
    pc <- boardPc, call <- boardCall, var <- boardVar, crossed <- boardCrossed

OfficeInit ==
    /\ side \in {"documents", "boarding", "answers"}
    /\ Init /\ D!Init /\ B!Init

DocumentsStep == side = "documents" /\ D!Next /\ UNCHANGED <<side, vars, board>>
BoardingStep  == side = "boarding" /\ B!Next /\ UNCHANGED <<side, vars, papers>>
AnswersStep   == side = "answers" /\ Next /\ UNCHANGED <<side, papers, board>>

OfficeNext == DocumentsStep \/ BoardingStep \/ AnswersStep

OfficeSpec == OfficeInit /\ [][OfficeNext]_<<side, vars, papers, board>>

(* A stored row of a document or file links a stored object (LinksWork of  *)
(* Documents, with its exceptions).                                        *)
LinksWork == D!LinksWork

(* A document is removed by a call that names it, or with its folder       *)
(* (OnlyTheNamedGo of Documents, with its exceptions).                     *)
OnlyTheNamedGo == D!OnlyTheNamedGo

(* What is given to an employee stays until it is removed by a call for    *)
(* just that (GivenStays of Boarding, with its exceptions).                *)
GivenStays == B!GivenStays

(* A row that gives a task names a stored task (GivenTasksAreStored of     *)
(* Boarding, with its exceptions).                                         *)
GivenTasksAreStored == B!GivenTasksAreStored
=============================================================================
