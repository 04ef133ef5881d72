--------------------------- MODULE DocumentIntake ---------------------------
(***************************************************************************)
(* Uploads of one file (application/services/file_upload_service.py): it   *)
(* is stored under its hash, parsed, registered in documents, and          *)
(* extracted into a page and its chunks (page_extraction_service.py).  A   *)
(* process runs one upload at a time, up to its next write.                *)
(*                                                                         *)
(* The daemon streams uploads into a temporary file of their own           *)
(* (register_stream); the command line writes small files in one piece,    *)
(* into a temporary file that all uploads of the content share             *)
(* (register_bytes).                                                       *)
(***************************************************************************)
EXTENDS Naturals, Sequences, FiniteSets

CONSTANTS
    Process,
    MaxUploads,  \* bound: uploads
    Small,       \* the uploads that register_bytes takes
    MaxDeaths    \* bound: processes that die in an upload

Upload == 1..MaxUploads
None == 0

VARIABLES
    pc,       \* how far each process is
    upload,   \* the upload it works on
    doc,      \* the document that upload is about
    text,     \* what the process has read of it
    shared,   \* the shared temporary file: the upload that created it
    stored,   \* the file under its hash: the upload that created it
    torn,     \* who has truncated a file and not written it yet
    writes,   \* the file that an upload has open
    rows,     \* documents in the order of their rows
    content,  \* column content of each document
    page,     \* its page in document_pages
    chunks,   \* pages for which it has chunks in document_chunks
    answered, \* the uploads that were answered, and what was extracted
    uploads,
    deaths

files == <<shared, stored, torn, writes>>
tables == <<rows, content, page, chunks>>
vars == <<pc, upload, doc, text, files, tables, answered, uploads, deaths>>

IntakeAssumption ==
    /\ MaxUploads \in Nat /\ MaxDeaths \in Nat
    /\ Small \subseteq Upload
    /\ IsFiniteSet(Process)

(* What a parser makes of the file: all of it, a torn one, or an error. *)
Text == {"whole", "cut", "error"}

TypeOK ==
    /\ pc \in [Process -> {"free", "lookup", "exists", "open", "write", "move", "parse", "save",
                           "read", "page", "chunks", "answer"}]
    /\ upload \in [Process -> Upload \cup {None}] /\ doc \in [Process -> Upload \cup {None}]
    /\ text \in [Process -> Text \cup {"none"}]
    /\ shared \in Upload \cup {None} /\ stored \in Upload \cup {None}
    /\ torn \in [Upload -> Upload \cup {None}]
    /\ writes \in [Upload -> Upload \cup {None}]
    /\ rows \in Seq(Upload)
    /\ content \in [Upload -> Text \cup {"none"}]
    /\ page \in [Upload -> Text \cup {"none"}]
    /\ chunks \in [Upload -> SUBSET Text]
    /\ answered \in [Upload -> Text \cup {"none"}]
    /\ uploads \in 0..MaxUploads /\ deaths \in 0..MaxDeaths

Init ==
    /\ pc = [p \in Process |-> "free"]
    /\ upload = [p \in Process |-> None] /\ doc = [p \in Process |-> None]
    /\ text = [p \in Process |-> "none"]
    /\ shared = None /\ stored = None
    /\ torn = [u \in Upload |-> None] /\ writes = [u \in Upload |-> None]
    /\ rows = <<>>
    /\ content = [u \in Upload |-> "none"]
    /\ page = [u \in Upload |-> "none"] /\ chunks = [u \in Upload |-> {}]
    /\ answered = [u \in Upload |-> "none"]
    /\ uploads = 0 /\ deaths = 0

-----------------------------------------------------------------------------
(* The file. *)

Goes(p, from, to) == pc[p] = from /\ pc' = [pc EXCEPT ![p] = to]

bounds == <<uploads, deaths>>

(* A process takes the next upload. *)
Begin(p) ==
    /\ Goes(p, "free", IF uploads + 1 \in Small THEN "lookup" ELSE "open")
    /\ uploads < MaxUploads
    /\ uploads' = uploads + 1
    /\ upload' = [upload EXCEPT ![p] = uploads + 1]
    /\ UNCHANGED <<doc, text, files, tables, answered, deaths>>

(* Mutant: the hash is not looked up. *)
LookupNothing(p) ==
    /\ Goes(p, "lookup", IF upload[p] \in Small THEN "exists" ELSE "move")
    /\ doc' = [doc EXCEPT ![p] = upload[p]]
    /\ UNCHANGED <<upload, text, files, tables, answered, bounds>>

(* Mutant: a document that is known is answered as it is. *)
LookupAndAnswer(p) ==
    /\ IF rows = <<>>
       THEN /\ Goes(p, "lookup", IF upload[p] \in Small THEN "exists" ELSE "move")
            /\ doc' = [doc EXCEPT ![p] = upload[p]] /\ text' = text
       ELSE /\ Goes(p, "lookup", "answer")
            /\ doc' = [doc EXCEPT ![p] = rows[Len(rows)]]
            /\ text' = [text EXCEPT ![p] = "whole"]
    /\ UNCHANGED <<upload, files, tables, answered, bounds>>

(* get_by_hash: the newest document with this content is extracted again.  *)
Lookup(p) ==
    /\ IF rows = <<>>
       THEN /\ Goes(p, "lookup", IF upload[p] \in Small THEN "exists" ELSE "move")
            /\ doc' = [doc EXCEPT ![p] = upload[p]]
       ELSE /\ Goes(p, "lookup", "read")
            /\ doc' = [doc EXCEPT ![p] = rows[Len(rows)]]
    /\ UNCHANGED <<upload, text, files, tables, answered, bounds>>

(* destination.exists(): a file that is stored already is not written.     *)
Exists(p) ==
    /\ Goes(p, "exists", IF stored # None THEN "parse" ELSE "open")
    /\ UNCHANGED <<upload, doc, text, files, tables, answered, bounds>>

(* open(tmp, "wb"): a stream has a file of its own, the others truncate    *)
(* the file that may be there.                                             *)
Open(p) ==
    LET u == upload[p]
        file == IF u \in Small /\ shared # None THEN shared ELSE u IN
    /\ Goes(p, "open", "write")
    /\ shared' = IF u \in Small THEN file ELSE shared
    /\ writes' = [writes EXCEPT ![u] = file]
    /\ torn' = [torn EXCEPT ![file] = u]
    /\ UNCHANGED <<stored, upload, doc, text, tables, answered, bounds>>

(* Mutant: an upload gives up when its temporary file is gone. *)
WriteIfThere(p) ==
    LET u == upload[p]
        there == u \notin Small \/ writes[u] = shared IN
    /\ IF there THEN Goes(p, "write", IF u \in Small THEN "move" ELSE "lookup")
                ELSE Goes(p, "write", "free")
    /\ torn' = [torn EXCEPT ![writes[u]] = IF @ = u /\ there THEN None ELSE @]
    /\ writes' = [writes EXCEPT ![u] = None]
    /\ UNCHANGED <<shared, stored, upload, doc, text, tables, answered, bounds>>

(* The last byte: the file is whole unless another has truncated it. *)
Write(p) ==
    LET u == upload[p] IN
    /\ Goes(p, "write", IF u \in Small THEN "move" ELSE "lookup")
    /\ torn' = [torn EXCEPT ![writes[u]] = IF @ = u THEN None ELSE @]
    /\ writes' = [writes EXCEPT ![u] = None]
    /\ UNCHANGED <<shared, stored, upload, doc, text, tables, answered, bounds>>

(* A stream is moved unless the file is there by now. *)
MoveStream(p) ==
    /\ upload[p] \notin Small
    /\ Goes(p, "move", "parse")
    /\ stored' = IF stored = None THEN upload[p] ELSE stored
    /\ UNCHANGED <<shared, torn, writes, upload, doc, text, tables, answered, bounds>>

(* The shared file replaces what is there; if another upload has moved it  *)
(* already this one fails.                                                 *)
MoveShared(p) ==
    /\ upload[p] \in Small
    /\ IF shared = None
       THEN Goes(p, "move", "free") /\ UNCHANGED <<shared, stored>>
       ELSE Goes(p, "move", "parse") /\ stored' = shared /\ shared' = None
    /\ UNCHANGED <<torn, writes, upload, doc, text, tables, answered, bounds>>

-----------------------------------------------------------------------------
(* The document. *)

(* What a parser can return. *)
Parsed == {IF torn[stored] = None THEN "whole" ELSE "cut", "error"}

(* _register_stored_file: the provider or the local parser gives a text, or *)
(* the document is registered without.                                      *)
Parse(p) ==
    /\ Goes(p, "parse", "save")
    /\ \E t \in Parsed : text' = [text EXCEPT ![p] = t]
    /\ UNCHANGED <<upload, doc, files, tables, answered, bounds>>

Save(p) ==
    /\ Goes(p, "save", "read")
    /\ rows' = Append(rows, doc[p])
    /\ content' = [content EXCEPT ![doc[p]] = IF text[p] = "error" THEN "none" ELSE text[p]]
    /\ UNCHANGED <<page, chunks, upload, doc, text, files, answered, bounds>>

(* _extract_pages: the text of the row, or the file is parsed. *)
Read(p) ==
    /\ Goes(p, "read", "page")
    /\ \E t \in IF content[doc[p]] # "none" THEN {content[doc[p]]} ELSE Parsed :
          text' = [text EXCEPT ![p] = t]
    /\ UNCHANGED <<upload, doc, files, tables, answered, bounds>>

(* save_page replaces the page, whatever it was. *)
SavePage(p) ==
    /\ Goes(p, "page", "chunks")
    /\ page' = [page EXCEPT ![doc[p]] = text[p]]
    /\ UNCHANGED <<rows, content, chunks, upload, doc, text, files, answered, bounds>>

(* save_chunk: the ids of the chunks come from the page; an error has none. *)
(* Each chunk is a transaction; the step is the last of them, when all the  *)
(* chunks of this text are stored.  Who dies before has stored fewer.       *)
SaveChunks(p) ==
    /\ Goes(p, "chunks", "answer")
    /\ chunks' = [chunks EXCEPT ![doc[p]] = IF text[p] = "error" THEN @ ELSE @ \cup {text[p]}]
    /\ UNCHANGED <<rows, content, page, upload, doc, text, files, answered, bounds>>

Answer(p) ==
    /\ Goes(p, "answer", "free")
    /\ answered' = [answered EXCEPT ![upload[p]] = text[p]]
    /\ UNCHANGED <<upload, doc, text, files, tables, bounds>>

(* A process dies in an upload and is started again. *)
Die(p) ==
    /\ pc[p] # "free" /\ deaths < MaxDeaths
    /\ pc' = [pc EXCEPT ![p] = "free"]
    /\ writes' = [writes EXCEPT ![upload[p]] = None]
    /\ deaths' = deaths + 1
    /\ UNCHANGED <<upload, doc, text, shared, stored, torn, tables, answered, uploads>>

Proceed(p) ==
    \/ Lookup(p) \/ Exists(p) \/ Open(p) \/ Write(p) \/ MoveStream(p) \/ MoveShared(p)
    \/ Parse(p) \/ Save(p) \/ Read(p) \/ SavePage(p) \/ SaveChunks(p) \/ Answer(p)

Next == \E p \in Process : Begin(p) \/ Proceed(p) \/ Die(p)

Spec == Init /\ [][Next]_vars

(* A process goes on with its upload. *)
FairSpec == Spec /\ \A p \in Process : WF_vars(Proceed(p))

-----------------------------------------------------------------------------
(* Properties. *)

(* The file under its hash is the file that was hashed. *)
StoredIsWhole == stored # None => torn[stored] = None

(* The chunks of an upload that was answered are stored, also if an        *)
(* earlier upload of the file died on the way.                             *)
AnsweredIsExtracted ==
    \A p \in Process :
        pc[p] = "free" /\ upload[p] # None /\ answered[upload[p]] = "whole" =>
            "whole" \in chunks[doc[p]]

(* One content has at most one document for each process, however often it *)
(* is uploaded and whoever dies: a second row needs two uploads at once.   *)
RowsNeedOverlap == Len(rows) <= Cardinality(Process)

(* Chunks belong to the page that is stored. *)
ChunksHavePage == \A u \in Upload : \A t \in chunks[u] : page[u] = t

(* While nobody dies a torn file is written in the end. *)
TornHeals == ~StoredIsWhole ~> StoredIsWhole \/ deaths > 0
=============================================================================
