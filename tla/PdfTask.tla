----------------------------- MODULE PdfTask -------------------------------
(***************************************************************************)
(* One attempt at an analysis (processPdf in worker.ts) and the temporary  *)
(* directory it works in (temp-files.ts, pdf-processor.ts): the decrypted  *)
(* PDF is written to a file, Poppler reads it page by page, pages without  *)
(* text are rendered and recognised, the catalog is loaded and the engine  *)
(* runs (engine-runner.ts).  The worker process may crash at any point; its *)
(* start sweeps the directory.                                             *)
(*                                                                         *)
(* A command ends well, fails, or is killed when its time is over.  What   *)
(* becomes of the job is AnalysisJobs; here, only whether it is reported,   *)
(* given back for another attempt, or given up.                            *)
(***************************************************************************)
EXTENDS Naturals, Sequences

CONSTANTS
  Tasks,       \* attempts, at most one of them for each slot at a time
  Documents,   \* the uploaded PDFs that are tried
  OcrEnabled   \* OCR_ENABLED

\* What is wrong with a PDF, by the code of the PdfProcessingError.
Faults ==
  {"none", "MALFORMED_PDF", "PROTECTED_PDF", "TOO_MANY_PAGES",
   "PDF_PAGE_TOO_LARGE", "PDF_TEXT_TOO_LARGE"}

\* A page has text, only an image of text, or nothing.  The text layer of a
\* "short" page is not empty, whatever image is under it, and is too short for
\* the 30 characters that a document must have.
PageKinds == {"text", "short", "image", "blank"}

ASSUME DocumentAssumption ==
  /\ Documents \subseteq [fault : Faults, pages : Seq(PageKinds) \ {<<>>}]
  /\ OcrEnabled \in BOOLEAN

VARIABLES
  up,        \* the worker process runs
  disk,      \* files in ANALYSIS_TMP_DIR
  task,      \* the attempts
  stranded,  \* files nobody will remove before the next start
  broke      \* attempts in which a command failed without a timeout

vars == <<up, disk, task, stranded, broke>>

\* The end of an attempt: finishProcessing or failProcessing was called, or
\* neither, because the process died or the database did not answer.
Outcomes == {"none", "reported", "retried", "given up", "lost"}

\* Codes for which processPdf does not try again.
Permanent ==
  {"MALFORMED_PDF", "PROTECTED_PDF", "TOO_MANY_PAGES", "NO_READABLE_TEXT",
   "PDF_TEXT_TOO_LARGE", "PDF_PAGE_TOO_LARGE", "OCR_UNAVAILABLE"}

\* Any other error counts as one: the database, the file system, the engine.
Codes == Permanent \cup {"none", "COMMAND_TIMEOUT", "OCR_TIMEOUT", "other"}

Working ==
  {"writing", "inspecting", "bounding", "reading", "rendering", "recognising",
   "unrendering", "loading", "analysing", "finishing", "failing", "removing"}

Task ==
  [stage : Working \cup {"new", "ended"}, doc : Documents, page : Nat,
   found : BOOLEAN, code : Codes, path : BOOLEAN, outcome : Outcomes]

Files == Tasks \X {"pdf", "image"}

Init ==
  /\ up = FALSE
  /\ disk = {}
  /\ task \in [Tasks -> {[stage |-> "new", doc |-> d, page |-> 1, found |-> FALSE,
                          code |-> "none", path |-> FALSE, outcome |-> "none"] :
                         d \in Documents}]
  /\ stranded = {}
  /\ broke = {}

----------------------------------------------------------------------------
(* The process.                                                            *)

Running(t) == task[t].stage \in Working

Lost(t) == [[task[t] EXCEPT !.stage = "ended"] EXCEPT !.outcome = "lost"]

\* cleanupAnalysisDirectory: an error ends it, and start() goes on.
Start ==
  /\ ~up
  /\ up' = TRUE
  /\ disk' \in SUBSET disk
  /\ stranded' = disk'
  /\ UNCHANGED <<task, broke>>

Crash ==
  /\ up
  /\ up' = FALSE
  /\ stranded' = disk
  /\ task' = [t \in Tasks |-> IF Running(t) THEN Lost(t) ELSE task[t]]
  /\ UNCHANGED <<disk, broke>>

----------------------------------------------------------------------------
(* processPdf.                                                             *)

\* The attempt goes on, with what it now knows, or throws an error with a code.
Moves(t, stage, known) == task' = [task EXCEPT ![t] = [known EXCEPT !.stage = stage]]

At(t, stage) == Moves(t, stage, task[t])

Throws(t, code) == Moves(t, "failing", [task[t] EXCEPT !.code = code])

Same == UNCHANGED <<up, disk, stranded, broke>>

Begin(t) ==
  /\ up
  /\ task[t].stage = "new"
  /\ At(t, "writing")
  /\ Same

\* decryptPdf rejects the payload.
DecryptFails(t) ==
  /\ task[t].stage = "writing"
  /\ Throws(t, "other")
  /\ Same

WriteTemporaryPdf(t) ==
  /\ task[t].stage = "writing"
  /\ disk' = disk \cup {<<t, "pdf">>}
  /\ Moves(t, "inspecting", [task[t] EXCEPT !.path = TRUE])
  /\ UNCHANGED <<up, stranded, broke>>

\* writeFile stops half-way, or chmod fails: the task never learns the path.
WriteFails(t) ==
  /\ task[t].stage = "writing"
  /\ disk' = disk \cup {<<t, "pdf">>}
  /\ stranded' = stranded \cup {<<t, "pdf">>}
  /\ Throws(t, "other")
  /\ UNCHANGED <<up, broke>>

\* runTextCommand: a command that was killed timed out, and any other failure
\* means a malformed PDF.
Commands == {"inspecting", "bounding", "reading"}

TimesOut(t) ==
  /\ task[t].stage \in Commands
  /\ Throws(t, "COMMAND_TIMEOUT")
  /\ Same

CommandFails(t) ==
  /\ task[t].stage \in Commands
  /\ Throws(t, "MALFORMED_PDF")
  /\ broke' = broke \cup {t}
  /\ UNCHANGED <<up, disk, stranded>>

Inspect(t) ==
  /\ task[t].stage = "inspecting"
  /\ IF task[t].doc.fault \in {"MALFORMED_PDF", "PROTECTED_PDF", "TOO_MANY_PAGES"}
       THEN Throws(t, task[t].doc.fault)
       ELSE At(t, "bounding")
  /\ Same

AssertPagePixelBounds(t) ==
  /\ task[t].stage = "bounding"
  /\ IF task[t].doc.fault = "PDF_PAGE_TOO_LARGE"
       THEN Throws(t, "PDF_PAGE_TOO_LARGE")
       ELSE At(t, "reading")
  /\ Same

\* Mutation: the loop over the pages does not count.
SamePage(t, known) ==
  IF known.page < Len(known.doc.pages)
    THEN Moves(t, "bounding", known)
  ELSE IF known.found
    THEN Moves(t, "loading", known)
    ELSE Throws(t, "NO_READABLE_TEXT")

\* Mutation: one page too many.
PagePastTheEnd(t, known) ==
  IF known.page <= Len(known.doc.pages)
    THEN Moves(t, "bounding", [known EXCEPT !.page = @ + 1])
  ELSE IF known.found
    THEN Moves(t, "loading", known)
    ELSE Throws(t, "NO_READABLE_TEXT")

\* The page is done; after the last one, text must have been found.
NextPage(t, known) ==
  IF known.page < Len(known.doc.pages)
    THEN Moves(t, "bounding", [known EXCEPT !.page = @ + 1])
  ELSE IF known.found
    THEN Moves(t, "loading", known)
    ELSE Throws(t, "NO_READABLE_TEXT")

Kind(t) == task[t].doc.pages[task[t].page]

ReadPage(t) ==
  /\ task[t].stage = "reading"
  /\ IF Kind(t) = "text"
       THEN IF task[t].doc.fault = "PDF_TEXT_TOO_LARGE"
              THEN Throws(t, "PDF_TEXT_TOO_LARGE")
              ELSE NextPage(t, [task[t] EXCEPT !.found = TRUE])
     ELSE IF OcrEnabled /\ Kind(t) # "short"
       THEN At(t, "rendering")
       ELSE NextPage(t, task[t])
  /\ Same

\* ocrPage: pdftoppm, which may leave an image however it ends, then tesseract.
Render(t) ==
  /\ task[t].stage = "rendering"
  /\ disk' = disk \cup {<<t, "image">>}
  /\ At(t, "recognising")
  /\ UNCHANGED <<up, stranded, broke>>

\* ocrPage throws after a timeout, and returns no text after any other failure.
OcrTimesOut(t) ==
  /\ task[t].stage \in {"rendering", "recognising"}
  /\ disk' \in {disk, disk \cup {<<t, "image">>}}
  /\ Moves(t, "unrendering", [task[t] EXCEPT !.code = "OCR_TIMEOUT"])
  /\ UNCHANGED <<up, stranded, broke>>

OcrFails(t) ==
  /\ task[t].stage \in {"rendering", "recognising"}
  /\ disk' \in {disk, disk \cup {<<t, "image">>}}
  /\ At(t, "unrendering")
  /\ broke' = broke \cup {t}
  /\ UNCHANGED <<up, stranded>>

\* Recognised text counts towards PDF_MAX_TEXT_BYTES, once the image is removed.
Recognise(t) ==
  /\ task[t].stage = "recognising"
  /\ IF Kind(t) = "image" /\ task[t].doc.fault = "PDF_TEXT_TOO_LARGE"
       THEN Moves(t, "unrendering", [task[t] EXCEPT !.code = "PDF_TEXT_TOO_LARGE"])
       ELSE Moves(t, "unrendering", [task[t] EXCEPT !.found = @ \/ Kind(t) = "image"])
  /\ Same

\* Mutation: the image is removed only after a page was recognised.
RemoveImageUnlessThrown(t) ==
  /\ task[t].stage = "unrendering"
  /\ disk' = IF task[t].code = "none" THEN disk \ {<<t, "image">>} ELSE disk
  /\ IF task[t].code = "none" THEN NextPage(t, task[t]) ELSE At(t, "failing")
  /\ UNCHANGED <<up, stranded, broke>>

\* The `finally` of ocrPage.
RemoveImage(t) ==
  /\ task[t].stage = "unrendering"
  /\ disk' = disk \ {<<t, "image">>}
  /\ IF task[t].code = "none" THEN NextPage(t, task[t]) ELSE At(t, "failing")
  /\ UNCHANGED <<up, stranded, broke>>

RemoveImageFails(t) ==
  /\ task[t].stage = "unrendering"
  /\ stranded' = stranded \cup {<<t, "image">>}
  /\ Throws(t, "other")
  /\ UNCHANGED <<up, disk, broke>>

LoadCatalogForJob(t) ==
  /\ task[t].stage = "loading"
  /\ At(t, "analysing") \/ Throws(t, "other")
  /\ Same

\* The timer of run() kills an engine that does not end; so does an output that
\* is too long.  Whatever is wrong with the answer is an error without a code.
RunEngine(t) ==
  /\ task[t].stage = "analysing"
  /\ At(t, "finishing") \/ Throws(t, "other")
  /\ Same

FinishProcessing(t) ==
  /\ task[t].stage = "finishing"
  /\ \/ Moves(t, "removing", [task[t] EXCEPT !.outcome = "reported"])
     \/ Throws(t, "other")
  /\ Same

\* Mutation: a command that ran out of time is not tried again.
OnlyUnknownRetried(t) == task[t].code \notin Permanent \cup {"COMMAND_TIMEOUT"}

Retryable(t) == task[t].code \notin Permanent

FailProcessing(t) ==
  /\ task[t].stage = "failing"
  /\ \E outcome \in {IF Retryable(t) THEN "retried" ELSE "given up", "lost"} :
       Moves(t, "removing", [task[t] EXCEPT !.outcome = outcome])
  /\ Same

\* The `finally` of processPdf removes the file whose path it knows.
RemoveTemporaryFile(t) ==
  /\ task[t].stage = "removing"
  /\ disk' = IF task[t].path THEN disk \ {<<t, "pdf">>} ELSE disk
  /\ At(t, "ended")
  /\ UNCHANGED <<up, stranded, broke>>

RemoveFails(t) ==
  /\ task[t].stage = "removing"
  /\ task[t].path
  /\ stranded' = stranded \cup {<<t, "pdf">>}
  /\ At(t, "ended")
  /\ UNCHANGED <<up, disk, broke>>

----------------------------------------------------------------------------

Proceeds(t) ==
  \/ WriteTemporaryPdf(t) \/ Inspect(t) \/ AssertPagePixelBounds(t) \/ ReadPage(t)
  \/ Render(t) \/ Recognise(t) \/ RemoveImage(t) \/ LoadCatalogForJob(t)
  \/ RunEngine(t) \/ FinishProcessing(t) \/ FailProcessing(t) \/ RemoveTemporaryFile(t)

Breaks(t) ==
  \/ DecryptFails(t) \/ WriteFails(t) \/ TimesOut(t) \/ CommandFails(t)
  \/ OcrTimesOut(t) \/ OcrFails(t) \/ RemoveImageFails(t) \/ RemoveFails(t)

Next ==
  \/ Start \/ Crash
  \/ \E t \in Tasks : Begin(t) \/ Proceeds(t) \/ Breaks(t)

Spec == Init /\ [][Next]_vars

\* Every await comes back: a command ends or is killed by its timeout, the
\* engine by its timer, and the database answers or rejects.
FairSpec == Spec /\ \A t \in Tasks : WF_vars(Proceeds(t) \/ Breaks(t))

----------------------------------------------------------------------------
(* Properties.                                                             *)

\* Every variable has its type.
TaskTypeOK ==
  /\ up \in BOOLEAN
  /\ disk \subseteq Files
  /\ task \in [Tasks -> Task]
  /\ \A t \in Tasks : task[t].page \in 1..Len(task[t].doc.pages)
  /\ stranded \subseteq Files
  /\ broke \subseteq Tasks

\* Stages in which a task may have the file of a kind on disk.
Uses(t, kind) ==
  IF kind = "pdf" THEN task[t].path /\ Running(t)
  ELSE task[t].stage \in {"recognising", "unrendering"}

\* A file on disk is in use by a running task, which goes on to remove it, or
\* was stranded by a crash, a failed write or a failed removal.  A stranded file
\* waits for the next start: the timer's cleanup() never looks at the directory,
\* where docs/Modification_Request_1.md:102 asks for "scheduled cleanup" as well.
NothingLeftBehind ==
  \A t \in Tasks, kind \in {"pdf", "image"} :
    <<t, kind>> \in disk => Uses(t, kind) \/ <<t, kind>> \in stranded

\* A page with enough text, or with an image of it that can be recognised.
Readable(d) ==
  \E i \in 1..Len(d.pages) : d.pages[i] = "text" \/ (d.pages[i] = "image" /\ OcrEnabled)

\* An attempt uses up the job's remaining ones only if the PDF is at fault or a
\* command failed; a timeout, the database, the file system and the engine
\* leave them to the job.
GivesUpForCause ==
  \A t \in Tasks :
    task[t].outcome = "given up"
      => task[t].doc.fault # "none" \/ ~Readable(task[t].doc) \/ t \in broke

\* Every attempt comes to an end and gives its slot back.
SlotReturned == \A t \in Tasks : Running(t) ~> ~Running(t)
============================================================================
