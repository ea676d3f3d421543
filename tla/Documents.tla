----------------------------- MODULE Documents -----------------------------
(***************************************************************************)
(* Documents and files: DocumentService (which CompanyLogoService repeats, *)
(* except that its DELETE leaves the object and throws) on hrm_folders and *)
(* hrm_files, FilesService on the newer tables folders and files, and the  *)
(* objects in S3 that their rows link.                                     *)
(*                                                                         *)
(* Two things TypeORM does decide what a deletion of a folder takes away:  *)
(* remove(row) clears the id of the row it is given, and a find whose      *)
(* condition is undefined has no condition.  deleteFolderById removes each *)
(* subfolder and then looks for the documents in it by the cleared id.     *)
(*                                                                         *)
(* The id of a row is the call that stored it, or one of Known, there from *)
(* the start; an upload of several files is as many of one.  An object is  *)
(* deleted by a request nobody waits for: it is doomed, and may vanish.    *)
(***************************************************************************)
EXTENDS Rows

CONSTANTS
    Calls,      \* HTTP calls; bounds how many are ever made
    Known       \* ids of the rows there from the start

Ids == Known \cup Calls

VARIABLES
    folder,     \* the table hrm_folders
    document,   \* the table hrm_files
    shelf,      \* ids stored in folders
    file,       \* the table files
    object,     \* keys of the objects in S3
    doomed,     \* keys whose deletion has been asked for
    pc, call,
    var,        \* var[h]: the variables of call h
    crossed     \* history: pairs of calls that were in flight together

tables == <<folder, document, shelf, file, object, doomed>>
vars   == <<tables, pc, call, var, crossed>>

None    == "none"
Renamed == <<"renamed">>      \* a link under which nothing was ever stored
Keys    == {"document", "file"} \X Ids

FolderRow == [parent: Ids \cup {None}, path: SUBSET Ids]
FileRow   == [folder: Ids \cup {None}, link: Keys \cup {Renamed}]

InFlight == {"folder_save", "drop_remove", "drop_find", "drop_documents", "drop_all",
             "drop_sub", "drop_every", "drop_wipe", "upload_save", "add_read", "add_save",
             "change_save", "remove_read", "remove_act", "shelf_save", "shelf_files",
             "file_read", "file_save", "file_delete"}
Steps    == InFlight \cup {"idle", "done", "failed"}

Idle == [todo |-> {}, subs |-> {}, rows |-> NoRows, row |-> None]
Busy == {h \in DOMAIN call : pc[h] \in InFlight}

Goto(h, from, to) == pc[h] = from /\ pc' = [pc EXCEPT ![h] = to]

Begin(h, op, ids) ==
    /\ call' = Save(call, h, [op |-> op, ids |-> ids])
    /\ crossed' = crossed \cup {{h, x} : x \in Busy}

Set(h, field, value) == var' = [var EXCEPT ![h][field] = value]
Same    == UNCHANGED <<call, crossed>>
Docs    == <<folder, document>>
Newer   == <<shelf, file>>
Bucket  == <<object, doomed>>

Init ==
    /\ \E parent \in [Known -> Known \cup {None}], path \in [Known -> SUBSET Known] :
         /\ \A f \in Known :
              /\ f \notin path[f]
              /\ path[f] = IF parent[f] = None THEN {} ELSE path[parent[f]] \cup {parent[f]}
         /\ folder = [f \in Known |-> [parent |-> parent[f], path |-> path[f]]]
    /\ \E home \in [Known -> Known \cup {None}] :
         /\ document = [d \in Known |-> [folder |-> home[d], link |-> <<"document", d>>]]
         /\ file = [d \in Known |-> [folder |-> home[d], link |-> <<"file", d>>]]
    /\ shelf = Known /\ object = {"document", "file"} \X Known /\ doomed = {}
    /\ pc = [h \in Calls |-> "idle"]
    /\ call = NoRows /\ var = [h \in Calls |-> Idle] /\ crossed = {}
-----------------------------------------------------------------------------
(* Slips that a change to the handlers could make; each stands in for the  *)
(* definition it is named after.                                           *)

(* The documents of a folder are looked for by the cleared id, too.        *)
InFolder_Every(id) == DOMAIN document

(* The row is saved before the object is.                                  *)
Upload_RowFirst(h) ==
    /\ Goto(h, "idle", "upload_save")
    /\ \E kind \in {"document", "file"} :
         /\ Begin(h, "upload", {kind})
         /\ document' = IF kind = "document"
              THEN Save(document, h, [folder |-> None, link |-> <<kind, h>>]) ELSE document
    /\ UNCHANGED <<folder, Newer, Bucket, var>>
-----------------------------------------------------------------------------
(* POST folders: postFolders.  A folder has the path of its parent, read   *)
(* before, and the parent.                                                 *)
NewFolder(p) ==
    IF p = None THEN [parent |-> None, path |-> {}]
    ELSE [parent |-> p, path |-> folder[p].path \cup {p}]

PostFolder(h) ==
    /\ Goto(h, "idle", "folder_save")
    /\ \E p \in DOMAIN folder \cup {None} :
         /\ Begin(h, "folder_post", {h})
         /\ Set(h, "rows", One(h, NewFolder(p)))
    /\ UNCHANGED tables

(* PUT folders/:id: putFolderById, which may move a folder and leaves the  *)
(* path as it was.                                                         *)
PutFolder(h) ==
    /\ Goto(h, "idle", "folder_save")
    /\ \E f \in DOMAIN folder, p \in DOMAIN folder \cup {None} :
         /\ Begin(h, "folder_put", {f})
         /\ Set(h, "rows", One(f, [folder[f] EXCEPT !.parent = p]))
    /\ UNCHANGED tables

SaveFolder(h) ==
    /\ Goto(h, "folder_save", "done")
    /\ folder' = SaveAll(folder, var[h].rows)
    /\ Same /\ UNCHANGED <<document, Newer, Bucket, var>>
-----------------------------------------------------------------------------
(* DELETE folders/:id: deleteFolderById                                    *)
InFolder(id) == {d \in DOMAIN document : document[d].folder = id}

DropFolder(h) ==
    /\ Goto(h, "idle", "drop_remove")
    /\ \E f \in DOMAIN folder : Begin(h, "folder_drop", {f})
    /\ UNCHANGED <<tables, var>>

Dropped(h) == CHOOSE f \in call[h].ids : TRUE

DropRemove(h) ==
    /\ Goto(h, "drop_remove", "drop_find")
    /\ folder' = Delete(folder, Dropped(h))
    /\ Same /\ UNCHANGED <<document, Newer, Bucket, var>>

DropFind(h) ==
    /\ Goto(h, "drop_find", "drop_documents")
    /\ Set(h, "todo", InFolder(Dropped(h)))
    /\ Same /\ UNCHANGED tables

(* One after the other is removed, and the loop is left.                   *)
RemoveEach(h, at, next) ==
    \/ /\ pc[h] = at
       /\ \E d \in var[h].todo :
            /\ document' = Delete(document, d)
            /\ Set(h, "todo", var[h].todo \ {d})
       /\ Same /\ UNCHANGED <<folder, Newer, Bucket, pc>>
    \/ /\ Goto(h, at, next)
       /\ var[h].todo = {}
       /\ Same /\ UNCHANGED <<tables, var>>

DropDocuments(h) == RemoveEach(h, "drop_documents", "drop_all")

(* All folders, of whatever company, that have the id in their path        *)
DropAll(h) ==
    /\ Goto(h, "drop_all", "drop_sub")
    /\ Set(h, "subs", {f \in DOMAIN folder : Dropped(h) \in folder[f].path})
    /\ Same /\ UNCHANGED tables

DropSub(h) ==
    \/ /\ Goto(h, "drop_sub", "drop_every")
       /\ \E f \in var[h].subs :
            /\ folder' = Delete(folder, f)
            /\ Set(h, "subs", var[h].subs \ {f})
       /\ Same /\ UNCHANGED <<document, Newer, Bucket>>
    \/ /\ Goto(h, "drop_sub", "done")
       /\ var[h].subs = {}
       /\ Same /\ UNCHANGED <<tables, var>>

(* find({where: {folderId: undefined}}): every document there is           *)
DropEvery(h) ==
    /\ Goto(h, "drop_every", "drop_wipe")
    /\ Set(h, "todo", DOMAIN document)
    /\ Same /\ UNCHANGED tables

DropWipe(h) == RemoveEach(h, "drop_wipe", "drop_sub")
-----------------------------------------------------------------------------
(* POST upload-documents and file/new/upload: postDuplicateDocuments and   *)
(* postUploadFiles.  The object comes first; an upload that fails is       *)
(* swallowed, and its missing answer then throws.                          *)
Upload(h) ==
    /\ Goto(h, "idle", "upload_save")
    /\ \E kind \in {"document", "file"} :
         /\ Begin(h, "upload", {kind})
         /\ object' = object \cup {<<kind, h>>}
    /\ UNCHANGED <<Docs, Newer, doomed, var>>

Uploaded(kind, h) == [folder |-> None, link |-> <<kind, h>>]

UploadDocument(h) ==
    /\ Goto(h, "upload_save", "done")
    /\ call[h].ids = {"document"}
    /\ document' = Save(document, h, Uploaded("document", h))
    /\ Same /\ UNCHANGED <<folder, Newer, Bucket, var>>

UploadFile(h) ==
    /\ Goto(h, "upload_save", "done")
    /\ call[h].ids = {"file"}
    /\ file' = Save(file, h, Uploaded("file", h))
    /\ Same /\ UNCHANGED <<Docs, shelf, Bucket, var>>

(* POST documents: postDocuments reads one document after the other and    *)
(* saves them all.                                                         *)
AddDocuments(h) ==
    /\ Goto(h, "idle", "add_read")
    /\ \E ds \in (SUBSET DOMAIN document) \ {{}}, f \in DOMAIN folder :
         /\ Begin(h, "add", ds)
         /\ var' = [var EXCEPT ![h].todo = ds, ![h].row = f]
    /\ UNCHANGED tables

AddRead(h) ==
    /\ \E d \in var[h].todo \cap DOMAIN document :
         /\ var' = [var EXCEPT ![h].todo = @ \ {d},
                        ![h].rows = Save(@, d, [document[d] EXCEPT !.folder = var[h].row])]
         /\ Goto(h, "add_read", IF var[h].todo = {d} THEN "add_save" ELSE "add_read")
    /\ Same /\ UNCHANGED tables

AddSave(h) ==
    /\ Goto(h, "add_save", "done")
    /\ document' = SaveAll(document, var[h].rows)
    /\ Same /\ UNCHANGED <<folder, Newer, Bucket, var>>

(* PUT documents/:id: putDocumentsById.  A new name is a new link, which   *)
(* fs.rename, meant for a disk, does nothing for.                          *)
PutDocument(h) ==
    /\ Goto(h, "idle", "change_save")
    /\ \E d \in DOMAIN document, renamed \in BOOLEAN :
         /\ Begin(h, "put", {d})
         /\ Set(h, "rows", One(d, IF renamed THEN [document[d] EXCEPT !.link = Renamed]
                                  ELSE document[d]))
    /\ UNCHANGED tables

(* PUT move/documents: putMoveMultipleDocumentsById returns from within    *)
(* its loop, with the first document moved.                                *)
MoveDocuments(h) ==
    /\ Goto(h, "idle", "change_save")
    /\ \E d \in DOMAIN document, f \in DOMAIN folder :
         /\ Begin(h, "move", {d})
         /\ Set(h, "rows", One(d, [document[d] EXCEPT !.folder = f]))
    /\ UNCHANGED tables

ChangeSave(h) ==
    /\ Goto(h, "change_save", "done")
    /\ document' = SaveAll(document, var[h].rows)
    /\ Same /\ UNCHANGED <<folder, Newer, Bucket, var>>

(* DELETE documents/:id and PUT delete/documents: deleteDocumentById and   *)
(* putDeleteMultipleDocumentsById, one by one.                             *)
RemoveDocuments(h) ==
    /\ Goto(h, "idle", "remove_read")
    /\ \E ds \in (SUBSET DOMAIN document) \ {{}} :
         /\ Begin(h, "remove", ds)
         /\ Set(h, "todo", ds)
    /\ UNCHANGED tables

RemoveRead(h) ==
    /\ Goto(h, "remove_read", "remove_act")
    /\ \E d \in var[h].todo \cap DOMAIN document : Set(h, "rows", One(d, document[d]))
    /\ Same /\ UNCHANGED tables

Linked(rows) == {rows[d].link : d \in DOMAIN rows} \ {Renamed}

RemoveAct(h) ==
    LET gone == DOMAIN var[h].rows  left == var[h].todo \ gone IN
    /\ Goto(h, "remove_act", IF left = {} THEN "done" ELSE "remove_read")
    /\ document' = [d \in DOMAIN document \ gone |-> document[d]]
    /\ doomed' = doomed \cup Linked(var[h].rows)
    /\ Set(h, "todo", left)
    /\ Same /\ UNCHANGED <<folder, Newer, object>>

(* CompanyLogoService looks for a file on disk, and throws.                *)
RemoveLogo(h) ==
    /\ Goto(h, "remove_act", "failed")
    /\ document' = [d \in DOMAIN document \ DOMAIN var[h].rows |-> document[d]]
    /\ Same /\ UNCHANGED <<folder, Newer, Bucket, var>>
-----------------------------------------------------------------------------
(* POST, PUT and DELETE folders of FilesService: postFolders, putFolders,  *)
(* which saves the row that the form was opened with, and deletefolder,    *)
(* which deletes the objects of the files in it and leaves the files.      *)
PostShelf(h) ==
    /\ Goto(h, "idle", "done")
    /\ Begin(h, "shelf_post", {h})
    /\ shelf' = shelf \cup {h}
    /\ UNCHANGED <<Docs, file, Bucket, var>>

PutShelf(h) ==
    /\ Goto(h, "idle", "shelf_save")
    /\ \E s \in shelf : Begin(h, "shelf_put", {s})
    /\ UNCHANGED <<tables, var>>

ShelfSave(h) ==
    /\ Goto(h, "shelf_save", "done")
    /\ shelf' = shelf \cup call[h].ids
    /\ Same /\ UNCHANGED <<Docs, file, Bucket, var>>

DeleteShelf(h) ==
    /\ Goto(h, "idle", "shelf_files")
    /\ \E s \in shelf : Begin(h, "shelf_drop", {s}) /\ shelf' = shelf \ {s}
    /\ UNCHANGED <<Docs, file, Bucket, var>>

ShelfFiles(h) ==
    LET in == {f \in DOMAIN file : file[f].folder \in call[h].ids} IN
    /\ Goto(h, "shelf_files", "done")
    /\ doomed' = doomed \cup {file[f].link : f \in in}
    /\ Set(h, "todo", in)
    /\ Same /\ UNCHANGED <<Docs, Newer, object>>
-----------------------------------------------------------------------------
(* POST, PUT and DELETE file/new/files: postFiles reads and saves one file *)
(* after the other; putFiles saves the row the form was opened with;       *)
(* deleteFile deletes the row and the object.                              *)
PostFiles(h) ==
    /\ Goto(h, "idle", "file_read")
    /\ \E fs \in (SUBSET DOMAIN file) \ {{}}, s \in shelf :
         /\ Begin(h, "file_post", fs)
         /\ var' = [var EXCEPT ![h].todo = fs, ![h].row = s]
    /\ UNCHANGED tables

FileRead(h) ==
    /\ Goto(h, "file_read", "file_save")
    /\ \E f \in var[h].todo \cap DOMAIN file :
         var' = [var EXCEPT ![h].todo = @ \ {f},
                            ![h].rows = One(f, [file[f] EXCEPT !.folder = var[h].row])]
    /\ Same /\ UNCHANGED tables

PutFile(h) ==
    /\ Goto(h, "idle", "file_save")
    /\ \E f \in DOMAIN file, s \in shelf \cup {None} :
         /\ Begin(h, "file_put", {f})
         /\ Set(h, "rows", One(f, [file[f] EXCEPT !.folder = s]))
    /\ UNCHANGED tables

FileSave(h) ==
    /\ Goto(h, "file_save", IF var[h].todo = {} THEN "done" ELSE "file_read")
    /\ file' = SaveAll(file, var[h].rows)
    /\ Same /\ UNCHANGED <<Docs, shelf, Bucket, var>>

DeleteFile(h) ==
    /\ Goto(h, "idle", "file_delete")
    /\ \E f \in DOMAIN file : Begin(h, "file_drop", {f}) /\ Set(h, "rows", One(f, file[f]))
    /\ UNCHANGED tables

FileDelete(h) ==
    /\ Goto(h, "file_delete", "done")
    /\ file' = [f \in DOMAIN file \ call[h].ids |-> file[f]]
    /\ doomed' = doomed \cup Linked(var[h].rows)
    /\ Same /\ UNCHANGED <<Docs, shelf, object, var>>
-----------------------------------------------------------------------------
(* deleteObject, whenever it comes through                                 *)
Vanish(o) ==
    /\ o \in doomed \cap object
    /\ object' = object \ {o}
    /\ UNCHANGED <<Docs, Newer, doomed, pc, call, var, crossed>>

(* A row looked for is gone, or any await throws.                          *)
Abort(h) ==
    /\ pc[h] \in InFlight
    /\ pc' = [pc EXCEPT ![h] = "failed"]
    /\ UNCHANGED <<tables, call, var, crossed>>

OfFolders(h)   == PostFolder(h) \/ PutFolder(h) \/ SaveFolder(h)
Drop(h)        == \/ DropFolder(h) \/ DropRemove(h) \/ DropFind(h) \/ DropDocuments(h)
                  \/ DropAll(h) \/ DropSub(h) \/ DropEvery(h) \/ DropWipe(h)
OfDocuments(h) == \/ UploadDocument(h) \/ AddDocuments(h) \/ AddRead(h) \/ AddSave(h)
                  \/ PutDocument(h) \/ MoveDocuments(h) \/ ChangeSave(h)
                  \/ RemoveDocuments(h) \/ RemoveRead(h) \/ RemoveAct(h) \/ RemoveLogo(h)
OfFiles(h)     == \/ PostShelf(h) \/ PutShelf(h) \/ ShelfSave(h) \/ DeleteShelf(h)
                  \/ ShelfFiles(h) \/ UploadFile(h) \/ PostFiles(h) \/ FileRead(h)
                  \/ PutFile(h) \/ FileSave(h) \/ DeleteFile(h) \/ FileDelete(h)

Next ==
    \/ \E h \in Calls : OfFolders(h) \/ Drop(h) \/ Upload(h) \/ OfDocuments(h)
                        \/ OfFiles(h) \/ Abort(h)
    \/ \E o \in doomed : Vanish(o)

Spec == Init /\ [][Next]_vars
-----------------------------------------------------------------------------
TypeOK ==
    /\ IsTable(folder, Ids, FolderRow) /\ IsTable(document, Ids, FileRow)
    /\ shelf \subseteq Ids /\ IsTable(file, Ids, FileRow)
    /\ object \subseteq Keys /\ doomed \subseteq Keys
    /\ pc \in [Calls -> Steps] /\ DOMAIN call \subseteq Calls
    /\ crossed \subseteq {{h, x} : h, x \in Calls}

Made(ops)       == {h \in DOMAIN call : call[h].op \in ops}
Crossed(h, ops) == \E x \in Made(ops) \ {h} : {h, x} \in crossed
Savers          == {"add", "put", "move", "file_post", "file_put"}

(* A document is removed by a call that names it, or while the folder it   *)
(* has been in is deleted: unless the folder has a subfolder, for every    *)
(* one of which the whole table is emptied, of all companies.              *)
OnlyTheNamedGo ==
    [][\A d \in DOMAIN document \ DOMAIN document' :
         \E h \in Busy :
           \/ call[h].op = "remove" /\ d \in call[h].ids
           \/ pc[h] = "drop_documents" /\ document[d].folder = Dropped(h)
           \/ pc[h] = "drop_documents" /\ Crossed(h, {"add", "move", "put"})
           \/ pc[h] = "drop_wipe"]_vars

(* A stored row links a stored object: unless a document has been given    *)
(* another name; a row was deleted, with its object, while a call that     *)
(* saves it again was in flight; or the folder of a file has been deleted, *)
(* which deletes the objects of the files it leaves.                       *)
LinksWork ==
    /\ \A d \in DOMAIN document :
         \/ document[d].link \in object \cup {Renamed}
         \/ \E h \in Made({"remove"}) : d \in call[h].ids /\ Crossed(h, Savers)
    /\ \A f \in DOMAIN file :
         \/ file[f].link \in object
         \/ \E h \in Made({"shelf_drop"}) : f \in var[h].todo
         \/ \E h \in Made({"file_drop"}) : f \in call[h].ids /\ Crossed(h, Savers)
-----------------------------------------------------------------------------
(* What makes these inductive.  A call is at a step of its handler, and    *)
(* two in flight have crossed.                                             *)
Changers == {"add", "move", "put"}
FileSavers == {"file_post", "file_put"}
Adding   == {"add_read", "add_save"}
Removing == {"remove_read", "remove_act"}
Filing   == {"file_read", "file_save"}

Placed(h) ==
    /\ pc[h] = "upload_save" => call[h].op = "upload"
    /\ pc[h] \in Adding => call[h].op = "add"
    /\ pc[h] = "change_save" => call[h].op \in {"put", "move"}
    /\ pc[h] \in Removing => call[h].op = "remove"
    /\ pc[h] = "shelf_files" => call[h].op = "shelf_drop"
    /\ pc[h] \in Filing => call[h].op \in FileSavers
    /\ pc[h] = "file_delete" => call[h].op = "file_drop"
    /\ call[h].op = "upload" => pc[h] \in {"upload_save", "done", "failed"}

VarsInv == var = [h \in Calls |-> [todo |-> var[h].todo, subs |-> var[h].subs,
                                  rows |-> var[h].rows, row |-> var[h].row]]

CallsInv ==
    /\ \A h \in Calls : pc[h] = "idle" <=> h \notin DOMAIN call
    /\ \A g, h \in Busy : g = h \/ {g, h} \in crossed
    /\ \A h \in DOMAIN call : Placed(h)

(* A row of the kind that has been stored.                                 *)
Had(kind, d) ==
    \/ d \in Known
    \/ d \in DOMAIN call /\ call[d].op = "upload" /\ call[d].ids = {kind} /\ pc[d] = "done"

OfDocument == Changers \cup {"remove"}
OfFile     == FileSavers \cup {"file_drop"}

HadInv ==
    /\ \A d \in DOMAIN document : Had("document", d)
    /\ \A f \in DOMAIN file : Had("file", f)
    /\ \A h \in Made(OfDocument) : \A d \in call[h].ids : Had("document", d)
    /\ \A h \in Made(OfFile) : \A f \in call[h].ids : Had("file", f)

(* A row links its own object, or is renamed.                              *)
Own(kind, table) ==
    \A d \in DOMAIN table : table[d] \in FileRow /\ table[d].link \in {<<kind, d>>, Renamed}

Files(table) ==
    \A f \in DOMAIN table : table[f] \in FileRow /\ table[f].link = <<"file", f>>

(* What a call has read for the step it is at.                             *)
Holding(h) ==
    /\ pc[h] = "idle" => DOMAIN var[h].rows = {} /\ var[h].todo = {}
    /\ pc[h] = "folder_save" => IsTable(var[h].rows, Ids, FolderRow)
    /\ pc[h] = "shelf_save" => call[h].ids \subseteq Ids
    /\ pc[h] \in {"add_read", "file_read"} => var[h].row \in Ids
    /\ pc[h] = "file_save" => var[h].todo = {} \/ var[h].row \in Ids
    /\ pc[h] \in Adding \cup {"change_save"} \cup Removing =>
         DOMAIN var[h].rows \subseteq call[h].ids /\ Own("document", var[h].rows)
    /\ pc[h] \in Filing \cup {"file_delete"} =>
         DOMAIN var[h].rows \subseteq call[h].ids /\ Files(var[h].rows)
    /\ pc[h] \in Adding \cup Removing \cup Filing => var[h].todo \subseteq call[h].ids
    /\ pc[h] = "drop_documents" => \A d \in var[h].todo : Had("document", d)

HoldingInv == \A h \in Calls : Holding(h)

(* The documents a call is about to remove with a folder are in it, but    *)
(* for those that are moved meanwhile.                                     *)
FolderInv ==
    \A h \in DOMAIN call : pc[h] = "drop_documents" =>
      \A d \in var[h].todo \cap DOMAIN document :
        document[d].folder = Dropped(h) \/ Crossed(h, Changers)

(* A row whose object is gone, or is to go, was deleted by a call; what    *)
(* may bring the row back has crossed that call.                           *)
Gone(w, d, table, savers) ==
    /\ d \in call[w].ids
    /\ \/ Crossed(w, Savers)
       \/ d \notin DOMAIN table /\ \A x \in Busy \cap Made(savers) : d \notin call[x].ids

Kept(kind, d) == <<kind, d>> \in object \ doomed

LinksInv ==
    /\ Own("document", document) /\ Files(file)
    /\ \A h \in DOMAIN call : pc[h] = "upload_save" =>
         \E kind \in {"document", "file"} : call[h].ids = {kind} /\ <<kind, h>> \in object
    /\ \A key \in doomed : Had(key[1], key[2])
    /\ \A d \in Ids : Had("document", d) /\ ~Kept("document", d) =>
         \E w \in Made({"remove"}) : Gone(w, d, document, Changers)
    /\ \A f \in Ids : Had("file", f) /\ ~Kept("file", f) =>
         \/ \E w \in Made({"shelf_drop"}) : pc[w] = "done" /\ f \in var[w].todo
         \/ \E w \in Made({"file_drop"}) : Gone(w, f, file, FileSavers)

IInv == TypeOK /\ VarsInv /\ CallsInv /\ HadInv /\ HoldingInv /\ FolderInv /\ LinksInv
=============================================================================
