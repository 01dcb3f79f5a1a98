--------------------------- MODULE PdfTask_proofs ---------------------------
(***************************************************************************)
(* Proofs about PdfTask for any attempts and any documents.                *)
(***************************************************************************)
EXTENDS PdfTask, TLAPS

\* What an attempt knows of its document: a page is Text when reading it, or
\* recognising it, finds text.
Text(t, i) ==
  \/ task[t].doc.pages[i] = "text"
  \/ task[t].doc.pages[i] = "image" /\ OcrEnabled

\* Stages in which the current page may already have been read.
PageRead(t) == task[t].stage = "unrendering"

\* The pages that are done had no text, unless some was found or a command failed.
NothingOverlooked ==
  \A t \in Tasks :
    /\ ~task[t].found /\ t \notin broke
         => /\ \A i \in 1..(task[t].page - 1) : ~Text(t, i)
            /\ PageRead(t) /\ task[t].code = "none" => ~Text(t, task[t].page)
    /\ task[t].stage \in {"rendering", "recognising"} => Kind(t) # "text"

\* A permanent code has a cause, and the attempt is given up for one.
Cause(t) == task[t].doc.fault # "none" \/ ~Readable(task[t].doc) \/ t \in broke

CodesHaveCause ==
  \A t \in Tasks :
    task[t].code \in Permanent \/ task[t].outcome = "given up" => Cause(t)

TaskInv ==
  /\ TaskTypeOK
  /\ NothingLeftBehind
  /\ NothingOverlooked
  /\ CodesHaveCause

\* An attempt is at a page of its document.
LEMMA PagesExist ==
  ASSUME TaskTypeOK, NEW t \in Tasks
  PROVE  /\ task[t] \in Task
         /\ task[t].doc \in Documents
         /\ task[t].doc.fault \in Faults
         /\ task[t].doc.pages \in Seq(PageKinds)
         /\ Len(task[t].doc.pages) \in Nat
         /\ Len(task[t].doc.pages) > 0
         /\ task[t].page \in 1..Len(task[t].doc.pages)
         /\ Kind(t) \in PageKinds
BY DocumentAssumption DEF TaskTypeOK, Task, Kind

\* The initial state satisfies the invariant.
LEMMA TaskInit == Init => TaskInv
<1> SUFFICES ASSUME Init PROVE TaskInv
  OBVIOUS
<1> DEFINE Fresh(d) == [stage |-> "new", doc |-> d, page |-> 1, found |-> FALSE,
                        code |-> "none", path |-> FALSE, outcome |-> "none"]
<1>0. \A t \in Tasks : \E d \in Documents : task[t] = Fresh(d)
  BY DEF Init
<1>1. TaskTypeOK
  <2>1. ASSUME NEW d \in Documents PROVE Fresh(d) \in Task /\ 1 \in 1..Len(d.pages)
    BY DocumentAssumption DEF Task, Working, Codes, Outcomes
  <2>2. ASSUME NEW t \in Tasks
        PROVE  task[t] \in Task /\ task[t].page \in 1..Len(task[t].doc.pages)
    <3>1. PICK d \in Documents : task[t] = Fresh(d)
      BY <1>0
    <3>2. QED
      BY <2>1, <3>1
  <2>3. task \in [Tasks -> Task]
    BY <2>2 DEF Init
  <2>4. QED
    BY <2>2, <2>3 DEF Init, TaskTypeOK, Files
<1>2. NothingLeftBehind
  BY DEF Init, NothingLeftBehind
<1>3. NothingOverlooked /\ CodesHaveCause
  <2>1. ASSUME NEW t \in Tasks
        PROVE  /\ task[t].stage = "new" /\ task[t].page = 1
               /\ task[t].code = "none" /\ task[t].outcome = "none"
    <3>1. PICK d \in Documents : task[t] = Fresh(d)
      BY <1>0
    <3>2. QED
      BY <3>1
  <2>2. \A t \in Tasks : \A i \in 1..(task[t].page - 1) : FALSE
    BY <2>1
  <2>3. QED
    BY <2>1, <2>2 DEF NothingOverlooked, CodesHaveCause, PageRead, Permanent
<1>4. QED
  BY <1>1, <1>2, <1>3 DEF TaskInv

(***************************************************************************)
(* What a step makes of an attempt.                                        *)

\* The attempt has become one with these fields, and no other has changed.
Became(t, stage, page, found, code, path, outcome) ==
  /\ task' \in [Tasks -> Task]
  /\ \A u \in Tasks : task'[u].page \in 1..Len(task'[u].doc.pages)
  /\ \A u \in Tasks \ {t} : task'[u] = task[u]
  /\ task'[t].doc = task[t].doc
  /\ task'[t].stage = stage
  /\ task'[t].page = page
  /\ task'[t].found = found
  /\ task'[t].code = code
  /\ task'[t].path = path
  /\ task'[t].outcome = outcome

\* An attempt moves on with what it knows of its document.
LEMMA Moved ==
  ASSUME TaskTypeOK, NEW t \in Tasks, NEW known \in Task, NEW stage \in Working \cup {"ended"},
         known.doc = task[t].doc, known.page \in 1..Len(known.doc.pages),
         Moves(t, stage, known)
  PROVE  Became(t, stage, known.page, known.found, known.code, known.path, known.outcome)
<1> DEFINE moved == [known EXCEPT !.stage = stage]
<1>1. /\ moved \in Task /\ moved.stage = stage /\ moved.doc = known.doc
      /\ moved.page = known.page /\ moved.found = known.found /\ moved.code = known.code
      /\ moved.path = known.path /\ moved.outcome = known.outcome
  BY DEF Task
<1>2. task'[t] = moved /\ \A u \in Tasks \ {t} : task'[u] = task[u]
  BY DEF Moves, TaskTypeOK
<1>3. task' \in [Tasks -> Task]
  BY <1>1 DEF Moves, TaskTypeOK
<1> HIDE DEF moved
<1>4. ASSUME NEW u \in Tasks PROVE task'[u].page \in 1..Len(task'[u].doc.pages)
  <2>1. CASE u = t
    BY <1>1, <1>2, <2>1
  <2>2. CASE u # t
    BY <1>2, <2>2 DEF TaskTypeOK
  <2>3. QED
    BY <2>1, <2>2
<1>5. QED
  BY <1>1, <1>2, <1>3, <1>4 DEF Became

\* It moves on and knows nothing new.
LEMMA AtMoved ==
  ASSUME TaskTypeOK, NEW t \in Tasks, NEW stage \in Working \cup {"ended"}, At(t, stage)
  PROVE  Became(t, stage, task[t].page, task[t].found, task[t].code, task[t].path,
                task[t].outcome)
BY PagesExist, Moved DEF At

\* It has learnt one thing.
LEMMA Learnt ==
  ASSUME TaskTypeOK, NEW t \in Tasks, NEW stage \in Working \cup {"ended"}
  PROVE  /\ \A code \in Codes : Moves(t, stage, [task[t] EXCEPT !.code = code])
              => Became(t, stage, task[t].page, task[t].found, code, task[t].path,
                        task[t].outcome)
         /\ \A found \in BOOLEAN : Moves(t, stage, [task[t] EXCEPT !.found = found])
              => Became(t, stage, task[t].page, found, task[t].code, task[t].path,
                        task[t].outcome)
         /\ Moves(t, stage, [task[t] EXCEPT !.path = TRUE])
              => Became(t, stage, task[t].page, task[t].found, task[t].code, TRUE,
                        task[t].outcome)
         /\ \A outcome \in Outcomes : Moves(t, stage, [task[t] EXCEPT !.outcome = outcome])
              => Became(t, stage, task[t].page, task[t].found, task[t].code, task[t].path,
                        outcome)
<1>1. task[t] \in Task /\ task[t].page \in 1..Len(task[t].doc.pages)
  BY PagesExist
<1>2. ASSUME NEW code \in Codes, Moves(t, stage, [task[t] EXCEPT !.code = code])
      PROVE  Became(t, stage, task[t].page, task[t].found, code, task[t].path, task[t].outcome)
  <2> DEFINE known == [task[t] EXCEPT !.code = code]
  <2>1. /\ known \in Task /\ known.doc = task[t].doc /\ known.page = task[t].page
        /\ known.found = task[t].found /\ known.code = code /\ known.path = task[t].path
        /\ known.outcome = task[t].outcome
    BY <1>1 DEF Task
  <2>2. Moves(t, stage, known)
    BY <1>2
  <2> HIDE DEF known
  <2>3. Became(t, stage, known.page, known.found, known.code, known.path, known.outcome)
    BY <1>1, <2>1, <2>2, Moved
  <2>4. QED
    BY <2>1, <2>3
<1>3. ASSUME NEW found \in BOOLEAN, Moves(t, stage, [task[t] EXCEPT !.found = found])
      PROVE  Became(t, stage, task[t].page, found, task[t].code, task[t].path,
                    task[t].outcome)
  <2> DEFINE known == [task[t] EXCEPT !.found = found]
  <2>1. /\ known \in Task /\ known.doc = task[t].doc /\ known.page = task[t].page
        /\ known.found = found /\ known.code = task[t].code
        /\ known.path = task[t].path /\ known.outcome = task[t].outcome
    BY <1>1 DEF Task
  <2>2. Moves(t, stage, known)
    BY <1>3
  <2> HIDE DEF known
  <2>3. Became(t, stage, known.page, known.found, known.code, known.path, known.outcome)
    BY <1>1, <2>1, <2>2, Moved
  <2>4. QED
    BY <2>1, <2>3
<1>4. ASSUME Moves(t, stage, [task[t] EXCEPT !.path = TRUE])
      PROVE  Became(t, stage, task[t].page, task[t].found, task[t].code, TRUE,
                    task[t].outcome)
  <2> DEFINE known == [task[t] EXCEPT !.path = TRUE]
  <2>1. /\ known \in Task /\ known.doc = task[t].doc /\ known.page = task[t].page
        /\ known.found = task[t].found /\ known.code = task[t].code
        /\ known.path = TRUE /\ known.outcome = task[t].outcome
    BY <1>1 DEF Task
  <2>2. Moves(t, stage, known)
    BY <1>4
  <2> HIDE DEF known
  <2>3. Became(t, stage, known.page, known.found, known.code, known.path, known.outcome)
    BY <1>1, <2>1, <2>2, Moved
  <2>4. QED
    BY <2>1, <2>3
<1>5. ASSUME NEW outcome \in Outcomes, Moves(t, stage, [task[t] EXCEPT !.outcome = outcome])
      PROVE  Became(t, stage, task[t].page, task[t].found, task[t].code, task[t].path,
                    outcome)
  <2> DEFINE known == [task[t] EXCEPT !.outcome = outcome]
  <2>1. /\ known \in Task /\ known.doc = task[t].doc /\ known.page = task[t].page
        /\ known.found = task[t].found /\ known.code = task[t].code
        /\ known.path = task[t].path /\ known.outcome = outcome
    BY <1>1 DEF Task
  <2>2. Moves(t, stage, known)
    BY <1>5
  <2> HIDE DEF known
  <2>3. Became(t, stage, known.page, known.found, known.code, known.path, known.outcome)
    BY <1>1, <2>1, <2>2, Moved
  <2>4. QED
    BY <2>1, <2>3
<1>6. QED
  BY <1>2, <1>3, <1>4, <1>5

\* An error is thrown.
LEMMA Thrown ==
  ASSUME TaskTypeOK, NEW t \in Tasks, NEW code \in Codes, Throws(t, code)
  PROVE  Became(t, "failing", task[t].page, task[t].found, code, task[t].path,
                task[t].outcome)
BY Learnt DEF Throws, Working

\* After a page comes the next one, the catalog, or the error that nothing was
\* readable.
LEMMA PageDone ==
  ASSUME TaskTypeOK, NEW t \in Tasks, NEW known \in Task,
         known.doc = task[t].doc, known.page = task[t].page, known.code = task[t].code,
         known.path = task[t].path, known.outcome = task[t].outcome,
         NextPage(t, known)
  PROVE  \/ /\ task[t].page < Len(task[t].doc.pages)
            /\ Became(t, "bounding", task[t].page + 1, known.found, task[t].code, task[t].path,
                      task[t].outcome)
         \/ Became(t, "loading", task[t].page, known.found, task[t].code, task[t].path,
                   task[t].outcome)
         \/ /\ task[t].page = Len(task[t].doc.pages)
            /\ ~known.found
            /\ Became(t, "failing", task[t].page, task[t].found, "NO_READABLE_TEXT",
                      task[t].path, task[t].outcome)
<1>1. task[t] \in Task /\ task[t].page \in 1..Len(task[t].doc.pages)
      /\ Len(task[t].doc.pages) \in Nat
  BY PagesExist
<1>2. CASE known.page < Len(known.doc.pages)
  <2> DEFINE next == [known EXCEPT !.page = @ + 1]
  <2>1. /\ next \in Task /\ next.doc = task[t].doc /\ next.page = task[t].page + 1
        /\ next.found = known.found /\ next.code = task[t].code
        /\ next.path = task[t].path /\ next.outcome = task[t].outcome
    BY <1>1 DEF Task
  <2>2. Moves(t, "bounding", next)
    BY <1>2 DEF NextPage
  <2> HIDE DEF next
  <2>3. next.page \in 1..Len(next.doc.pages)
    BY <1>1, <1>2, <2>1
  <2>4. Became(t, "bounding", next.page, next.found, next.code, next.path, next.outcome)
    BY <2>1, <2>2, <2>3, Moved DEF Working
  <2>5. QED
    BY <1>2, <2>1, <2>4
<1>3. CASE ~(known.page < Len(known.doc.pages)) /\ known.found
  <2>1. Became(t, "loading", known.page, known.found, known.code, known.path, known.outcome)
    BY <1>1, <1>3, Moved DEF NextPage, Working
  <2>2. QED
    BY <2>1
<1>4. CASE ~(known.page < Len(known.doc.pages)) /\ ~known.found
  <2>1. Throws(t, "NO_READABLE_TEXT")
    BY <1>4 DEF NextPage
  <2>2. QED
    BY <1>1, <1>4, <2>1, Thrown DEF Codes, Permanent
<1>5. QED
  BY <1>2, <1>3, <1>4

\* What has been found is carried over to the next page.
LEMMA Found ==
  ASSUME TaskTypeOK, NEW t \in Tasks, NEW found \in BOOLEAN
  PROVE  /\ [task[t] EXCEPT !.found = found] \in Task
         /\ [task[t] EXCEPT !.found = found].doc = task[t].doc
         /\ [task[t] EXCEPT !.found = found].page = task[t].page
         /\ [task[t] EXCEPT !.found = found].found = found
         /\ [task[t] EXCEPT !.found = found].code = task[t].code
         /\ [task[t] EXCEPT !.found = found].path = task[t].path
         /\ [task[t] EXCEPT !.found = found].outcome = task[t].outcome
BY PagesExist DEF Task

\* After a page comes the next one, the catalog, or the error that nothing was
\* readable; a page without text may count as read.
PageOver(t) ==
  \E found \in BOOLEAN :
    /\ ~found => /\ ~task[t].found
                 /\ \/ ~Text(t, task[t].page)
                    \/ PageRead(t) /\ task[t].code = "none"
    /\ \/ /\ task[t].page < Len(task[t].doc.pages)
          /\ Became(t, "bounding", task[t].page + 1, found, task[t].code,
                    task[t].path, task[t].outcome)
       \/ Became(t, "loading", task[t].page, found, task[t].code, task[t].path,
                 task[t].outcome)
       \/ /\ task[t].page = Len(task[t].doc.pages)
          /\ ~found
          /\ Became(t, "failing", task[t].page, task[t].found, "NO_READABLE_TEXT",
                    task[t].path, task[t].outcome)

\* Reading a page, and dropping its image, end the page or go on with it.
LEMMA PageStep ==
  ASSUME TaskTypeOK, NEW t \in Tasks, ReadPage(t) \/ RemoveImage(t)
  PROVE  \/ At(t, "rendering") /\ Kind(t) # "text"
         \/ Throws(t, "PDF_TEXT_TOO_LARGE") /\ task[t].doc.fault # "none"
         \/ At(t, "failing")
         \/ PageOver(t)
<1>1. task[t] \in Task /\ task[t].found \in BOOLEAN
  BY PagesExist DEF Task
<1>2. CASE /\ NextPage(t, task[t])
           /\ ~Text(t, task[t].page) \/ (PageRead(t) /\ task[t].code = "none")
  BY <1>1, <1>2, PageDone DEF PageOver
<1>3. CASE NextPage(t, [task[t] EXCEPT !.found = TRUE])
  <2> DEFINE known == [task[t] EXCEPT !.found = TRUE]
  <2>1. /\ known \in Task /\ known.doc = task[t].doc /\ known.page = task[t].page
        /\ known.found = TRUE /\ known.code = task[t].code
        /\ known.path = task[t].path /\ known.outcome = task[t].outcome
    BY Found
  <2>2. NextPage(t, known)
    BY <1>3
  <2> HIDE DEF known
  <2>3. QED
    BY <2>1, <2>2, PageDone DEF PageOver
<1>4. CASE ReadPage(t)
  <2>1. CASE Kind(t) = "text"
    <3>1. \/ NextPage(t, [task[t] EXCEPT !.found = TRUE])
          \/ Throws(t, "PDF_TEXT_TOO_LARGE") /\ task[t].doc.fault = "PDF_TEXT_TOO_LARGE"
      BY <1>4, <2>1 DEF ReadPage
    <3>2. QED
      BY <1>3, <3>1
  <2>2. CASE Kind(t) # "text"
    <3>1. \/ At(t, "rendering")
          \/ NextPage(t, task[t]) /\ (~OcrEnabled \/ Kind(t) = "short")
      BY <1>4, <2>2 DEF ReadPage
    <3>2. ~OcrEnabled \/ Kind(t) = "short" => ~Text(t, task[t].page)
      BY <2>2 DEF Text, Kind
    <3>3. CASE At(t, "rendering")
      BY <2>2, <3>3
    <3>4. CASE NextPage(t, task[t]) /\ (~OcrEnabled \/ Kind(t) = "short")
      <4>1. ~Text(t, task[t].page)
        BY <3>2, <3>4
      <4>2. NextPage(t, task[t])
        BY <3>4
      <4>3. PageOver(t)
        BY <1>1, <4>1, <4>2, PageDone DEF PageOver
      <4>4. QED
        BY <4>3
    <3>5. QED
      BY <3>1, <3>3, <3>4
  <2>3. QED
    BY <2>1, <2>2
<1>5. CASE RemoveImage(t)
  BY <1>2, <1>5 DEF RemoveImage, PageRead
<1>6. QED
  BY <1>4, <1>5

\* Recognising a page finds text on it, or that the PDF has too much of it.
LEMMA Recognised ==
  ASSUME TaskTypeOK, NEW t \in Tasks, Recognise(t)
  PROVE  \E found \in BOOLEAN, code \in Codes :
           /\ Became(t, "unrendering", task[t].page, found, code, task[t].path,
                     task[t].outcome)
           /\ ~found => ~task[t].found /\ (code = "none" => Kind(t) # "image")
           /\ code = task[t].code \/ task[t].doc.fault # "none"
<1>1. task[t].found \in BOOLEAN /\ task[t].code \in Codes /\ "PDF_TEXT_TOO_LARGE" \in Codes
      /\ "PDF_TEXT_TOO_LARGE" # "none" /\ "unrendering" \in Working \cup {"ended"}
  BY PagesExist DEF Task, Codes, Permanent, Working
<1>2. CASE Kind(t) = "image" /\ task[t].doc.fault = "PDF_TEXT_TOO_LARGE"
  <2>1. Moves(t, "unrendering", [task[t] EXCEPT !.code = "PDF_TEXT_TOO_LARGE"])
    BY <1>2 DEF Recognise
  <2>2. Became(t, "unrendering", task[t].page, task[t].found, "PDF_TEXT_TOO_LARGE",
               task[t].path, task[t].outcome)
    BY <1>1, <2>1, Learnt
  <2>3. QED
    BY <1>1, <1>2, <2>2
<1>3. CASE ~(Kind(t) = "image" /\ task[t].doc.fault = "PDF_TEXT_TOO_LARGE")
  <2> DEFINE found == task[t].found \/ Kind(t) = "image"
  <2>1. found \in BOOLEAN /\ Moves(t, "unrendering", [task[t] EXCEPT !.found = found])
    BY <1>3 DEF Recognise
  <2>2. Became(t, "unrendering", task[t].page, found, task[t].code, task[t].path,
               task[t].outcome)
    BY <1>1, <2>1, Learnt
  <2>3. ~found => ~task[t].found /\ Kind(t) # "image"
    OBVIOUS
  <2>4. QED
    BY <1>1, <2>1, <2>2, <2>3
<1>4. QED
  BY <1>2, <1>3

(***************************************************************************)
(* Types.                                                                  *)

\* A step of an attempt keeps the attempts well-formed.
LEMMA AttemptTyped ==
  ASSUME TaskTypeOK, NEW t \in Tasks, Begin(t) \/ Proceeds(t) \/ Breaks(t)
  PROVE  \E stage, page, found, code, path, outcome :
           Became(t, stage, page, found, code, path, outcome)
<1> USE DEF Working, Codes, Permanent, Outcomes
<1>1. CASE \E stage \in Working \cup {"ended"} : At(t, stage)
  BY <1>1, AtMoved
<1>2. CASE \E code \in Codes : Throws(t, code)
  BY <1>2, Thrown
<1>3. CASE ReadPage(t) \/ RemoveImage(t)
  BY <1>1, <1>2, <1>3, PageStep DEF PageOver
<1>4. CASE Inspect(t)
  BY <1>1, <1>2, <1>4, PagesExist DEF Inspect, Faults
<1>5. CASE WriteTemporaryPdf(t)
  BY <1>5, Learnt DEF WriteTemporaryPdf
<1>6. CASE OcrTimesOut(t)
  BY <1>6, Learnt DEF OcrTimesOut
<1>7. CASE Recognise(t)
  BY <1>7, Recognised
<1>8. CASE FinishProcessing(t)
  BY <1>2, <1>8, Learnt DEF FinishProcessing
<1>9. CASE FailProcessing(t)
  BY <1>9, Learnt DEF FailProcessing
<1>10. QED
  BY <1>1, <1>2, <1>3, <1>4, <1>5, <1>6, <1>7, <1>8, <1>9
     DEF Begin, Proceeds, Breaks, DecryptFails, WriteFails, TimesOut, Commands, CommandFails,
         AssertPagePixelBounds, Render, OcrFails, RemoveImageFails, LoadCatalogForJob,
         RunEngine, RemoveTemporaryFile, RemoveFails

\* A crash ends the attempts that run, and leaves the others alone.
LEMMA Crashed ==
  ASSUME TaskTypeOK, Crash
  PROVE  /\ task' \in [Tasks -> Task]
         /\ \A t \in Tasks :
              /\ task'[t].doc = task[t].doc /\ task'[t].page = task[t].page
              /\ task'[t].found = task[t].found /\ task'[t].code = task[t].code
              /\ task'[t].stage = IF Running(t) THEN "ended" ELSE task[t].stage
              /\ task'[t].outcome = IF Running(t) THEN "lost" ELSE task[t].outcome
<1>1. ASSUME NEW t \in Tasks
      PROVE  /\ Lost(t) \in Task
             /\ Lost(t).doc = task[t].doc /\ Lost(t).page = task[t].page
             /\ Lost(t).found = task[t].found /\ Lost(t).code = task[t].code
             /\ Lost(t).stage = "ended" /\ Lost(t).outcome = "lost"
  <2> DEFINE ended == [task[t] EXCEPT !.stage = "ended"]
  <2>1. /\ ended \in Task
        /\ ended.doc = task[t].doc /\ ended.page = task[t].page
        /\ ended.found = task[t].found /\ ended.code = task[t].code
        /\ ended.stage = "ended"
    BY PagesExist DEF Task
  <2>2. Lost(t) = [ended EXCEPT !.outcome = "lost"]
    BY DEF Lost
  <2> HIDE DEF ended
  <2>3. QED
    BY <2>1, <2>2 DEF Task, Outcomes
<1>2. QED
  BY <1>1, PagesExist DEF Crash, TaskTypeOK

\* Every step keeps the types.
LEMMA TaskTypes == TaskTypeOK /\ [Next]_vars => TaskTypeOK'
<1> SUFFICES ASSUME TaskTypeOK, [Next]_vars PROVE TaskTypeOK'
  OBVIOUS
<1>1. CASE Start
  BY <1>1 DEF Start, TaskTypeOK
<1>2. CASE Crash
  BY <1>2, Crashed DEF Crash, TaskTypeOK
<1>3. ASSUME NEW t \in Tasks, Begin(t) \/ Proceeds(t) \/ Breaks(t) PROVE TaskTypeOK'
  <2>1. /\ task' \in [Tasks -> Task]
        /\ \A u \in Tasks : task'[u].page \in 1..Len(task'[u].doc.pages)
    BY <1>3, AttemptTyped DEF Became
  <2>2. up' \in BOOLEAN /\ disk' \subseteq Files /\ stranded' \subseteq Files
        /\ broke' \subseteq Tasks
    <3> USE DEF TaskTypeOK
    <3>1. <<t, "pdf">> \in Files /\ <<t, "image">> \in Files
      BY DEF Files
    <3>2. CASE Same
      BY <3>2 DEF Same
    <3>3. CASE WriteTemporaryPdf(t) \/ WriteFails(t)
      BY <3>1, <3>3 DEF WriteTemporaryPdf, WriteFails
    <3>4. CASE Render(t) \/ OcrTimesOut(t) \/ OcrFails(t)
      BY <3>1, <3>4 DEF Render, OcrTimesOut, OcrFails
    <3>5. CASE RemoveImage(t) \/ RemoveTemporaryFile(t) \/ CommandFails(t)
      BY <3>5 DEF RemoveImage, RemoveTemporaryFile, CommandFails
    <3>6. CASE RemoveImageFails(t) \/ RemoveFails(t)
      BY <3>1, <3>6 DEF RemoveImageFails, RemoveFails
    <3>7. QED
      BY <1>3, <3>2, <3>3, <3>4, <3>5, <3>6
         DEF Begin, Proceeds, Breaks, Inspect, AssertPagePixelBounds, ReadPage, Recognise,
             LoadCatalogForJob, RunEngine, FinishProcessing, FailProcessing, DecryptFails,
             TimesOut
  <2>3. QED
    BY <2>1, <2>2 DEF TaskTypeOK
<1>4. CASE UNCHANGED vars
  BY <1>4 DEF vars, TaskTypeOK
<1>5. QED
  BY <1>1, <1>2, <1>3, <1>4 DEF Next

(***************************************************************************)
(* Files.                                                                  *)

\* Other attempts use what they used, and a file that was stranded stays so.
LEMMA OthersUse ==
  ASSUME TaskTypeOK, NothingLeftBehind, NEW t \in Tasks,
         \A u \in Tasks \ {t} : task'[u] = task[u],
         stranded \subseteq stranded',
         \A u \in Tasks \ {t}, kind \in {"pdf", "image"} :
           <<u, kind>> \in disk' => <<u, kind>> \in disk,
         \A kind \in {"pdf", "image"} :
           <<t, kind>> \in disk' => Uses(t, kind)' \/ <<t, kind>> \in stranded'
  PROVE  NothingLeftBehind'
<1> SUFFICES ASSUME NEW u \in Tasks, NEW kind \in {"pdf", "image"}, <<u, kind>> \in disk'
             PROVE  Uses(u, kind)' \/ <<u, kind>> \in stranded'
  BY DEF NothingLeftBehind
<1>1. CASE u = t
  BY <1>1
<1>2. CASE u # t
  BY <1>2 DEF NothingLeftBehind, Uses, Running
<1>3. QED
  BY <1>1, <1>2

\* A step that leaves the disk alone and goes on with the file it has.
LEMMA GoesOn ==
  ASSUME TaskTypeOK, NothingLeftBehind, NEW t \in Tasks,
         NEW stage \in Working, NEW page, NEW found, NEW code, NEW outcome,
         Became(t, stage, page, found, code, task[t].path, outcome),
         disk' \subseteq disk, stranded \subseteq stranded',
         stage \in {"recognising", "unrendering"} \/ ~Uses(t, "image")
           \/ <<t, "image">> \in stranded' \/ <<t, "image">> \notin disk',
         Running(t)
  PROVE  NothingLeftBehind'
<1>1. ASSUME <<t, "pdf">> \in disk' PROVE Uses(t, "pdf")' \/ <<t, "pdf">> \in stranded'
  BY <1>1 DEF NothingLeftBehind, Uses, Running, Became
<1>2. ASSUME <<t, "image">> \in disk' PROVE Uses(t, "image")' \/ <<t, "image">> \in stranded'
  BY <1>2 DEF NothingLeftBehind, Uses, Running, Became
<1>3. QED
  BY <1>1, <1>2, OthersUse DEF Became

\* Every step keeps the files accounted for.
LEMMA FilesKept == TaskTypeOK /\ NothingLeftBehind /\ [Next]_vars => NothingLeftBehind'
<1> SUFFICES ASSUME TaskTypeOK, NothingLeftBehind, [Next]_vars PROVE NothingLeftBehind'
  OBVIOUS
<1>1. CASE Start
  BY <1>1 DEF Start, NothingLeftBehind
<1>2. CASE Crash
  BY <1>2 DEF Crash, NothingLeftBehind
<1>3. CASE UNCHANGED vars
  BY <1>3 DEF vars, NothingLeftBehind, Uses, Running
<1>4. ASSUME NEW t \in Tasks, Begin(t) \/ Proceeds(t) \/ Breaks(t)
      PROVE  NothingLeftBehind'
  <2> USE DEF Working, Codes, Permanent, Outcomes
  <2>1. CASE Begin(t)
    <3>1. Became(t, "writing", task[t].page, task[t].found, task[t].code, task[t].path,
                 task[t].outcome)
      BY <2>1, AtMoved DEF Begin
    <3>2. ~Running(t) /\ ~Uses(t, "pdf") /\ ~Uses(t, "image")
      BY <2>1 DEF Begin, Running, Uses
    <3>3. QED
      BY <2>1, <3>1, <3>2, OthersUse DEF Begin, Same, Became, NothingLeftBehind
  <2>2. CASE \/ DecryptFails(t) \/ TimesOut(t) \/ CommandFails(t)
    <3>1. PICK code \in Codes : Throws(t, code)
      BY <2>2 DEF DecryptFails, TimesOut, CommandFails
    <3>2. Running(t) /\ ~Uses(t, "image") /\ disk' = disk /\ stranded' = stranded
      BY <2>2 DEF DecryptFails, TimesOut, CommandFails, Commands, Running, Uses, Same
    <3>3. QED
      BY <3>1, <3>2, Thrown, GoesOn
  <2>3. CASE Inspect(t) \/ AssertPagePixelBounds(t) \/ LoadCatalogForJob(t) \/ RunEngine(t)
    <3>1. \/ \E code \in Codes : Throws(t, code)
          \/ \E stage \in Working : At(t, stage)
      BY <2>3, PagesExist DEF Inspect, AssertPagePixelBounds, LoadCatalogForJob, RunEngine, Faults
    <3>2. Running(t) /\ ~Uses(t, "image") /\ disk' = disk /\ stranded' = stranded
      BY <2>3 DEF Inspect, AssertPagePixelBounds, LoadCatalogForJob, RunEngine, Running, Uses, Same
    <3>3. QED
      BY <3>1, <3>2, Thrown, AtMoved, GoesOn
  <2>4. CASE WriteTemporaryPdf(t)
    <3>1. Became(t, "inspecting", task[t].page, task[t].found, task[t].code, TRUE,
                 task[t].outcome)
      BY <2>4, Learnt DEF WriteTemporaryPdf
    <3>2. Uses(t, "pdf")' /\ ~Uses(t, "image")
      BY <2>4, <3>1 DEF WriteTemporaryPdf, Became, Uses, Running
    <3>3. <<t, "image">> \in disk' => <<t, "image">> \in stranded'
      BY <2>4, <3>2 DEF WriteTemporaryPdf, NothingLeftBehind
    <3>4. QED
      BY <2>4, <3>1, <3>2, <3>3, OthersUse DEF WriteTemporaryPdf, Became
  <2>5. CASE WriteFails(t)
    <3>1. Became(t, "failing", task[t].page, task[t].found, "other", task[t].path,
                 task[t].outcome)
      BY <2>5, Thrown DEF WriteFails
    <3>2. ~Uses(t, "image") /\ <<t, "pdf">> \in stranded'
      BY <2>5 DEF WriteFails, Uses
    <3>3. <<t, "image">> \in disk' => <<t, "image">> \in stranded'
      BY <2>5, <3>2 DEF WriteFails, NothingLeftBehind
    <3>4. QED
      BY <2>5, <3>1, <3>2, <3>3, OthersUse DEF WriteFails, Became
  <2>6. CASE Render(t) \/ OcrTimesOut(t) \/ OcrFails(t) \/ Recognise(t)
    <3>1. PICK stage \in {"recognising", "unrendering"}, found \in BOOLEAN, code \in Codes :
            Became(t, stage, task[t].page, found, code, task[t].path, task[t].outcome)
      <4>1. CASE Recognise(t)
        BY <4>1, Recognised
      <4>2. CASE Render(t) \/ OcrTimesOut(t) \/ OcrFails(t)
        <5>1. task[t].found \in BOOLEAN /\ task[t].code \in Codes /\ "OCR_TIMEOUT" \in Codes
          BY PagesExist DEF Task, Codes
        <5>2. QED
          BY <4>2, <5>1, Learnt, AtMoved DEF Render, OcrTimesOut, OcrFails
      <4>3. QED
        BY <2>6, <4>1, <4>2
    <3>2. /\ disk' \subseteq disk \cup {<<t, "image">>} /\ stranded' = stranded
          /\ Running(t)
      BY <2>6 DEF Render, OcrTimesOut, OcrFails, Recognise, Running, Same
    <3>3. Uses(t, "image")'
      BY <3>1 DEF Became, Uses
    <3>4. <<t, "pdf">> \in disk' => Uses(t, "pdf")' \/ <<t, "pdf">> \in stranded'
      BY <3>1, <3>2 DEF NothingLeftBehind, Became, Uses, Running
    <3>5. QED
      BY <3>1, <3>2, <3>3, <3>4, OthersUse DEF Became
  <2>7. CASE ReadPage(t) \/ RemoveImage(t)
    <3>1. /\ disk' \subseteq disk /\ stranded' = stranded /\ Running(t)
          /\ ~Uses(t, "image") \/ <<t, "image">> \notin disk'
      BY <2>7 DEF ReadPage, RemoveImage, Same, Running, Uses
    <3>2. CASE \E stage \in Working : At(t, stage)
      BY <3>1, <3>2, AtMoved, GoesOn
    <3>3. CASE \E code \in Codes : Throws(t, code)
      BY <3>1, <3>3, Thrown, GoesOn
    <3>4. CASE \E stage \in Working : \E page, found, code :
                 Became(t, stage, page, found, code, task[t].path, task[t].outcome)
      BY <3>1, <3>4, GoesOn
    <3>5. QED
      BY <2>7, <3>2, <3>3, <3>4, PageStep DEF PageOver
  <2>8. CASE RemoveImageFails(t)
    <3>1. Throws(t, "other") /\ Running(t) /\ disk' = disk
          /\ stranded' = stranded \cup {<<t, "image">>}
      BY <2>8 DEF RemoveImageFails, Running
    <3>2. QED
      BY <3>1, Thrown, GoesOn
  <2>9. CASE FinishProcessing(t) \/ FailProcessing(t)
    <3>1. \/ Throws(t, "other")
          \/ \E outcome \in Outcomes :
               Moves(t, "removing", [task[t] EXCEPT !.outcome = outcome])
      BY <2>9 DEF FinishProcessing, FailProcessing
    <3>2. Running(t) /\ ~Uses(t, "image") /\ disk' = disk /\ stranded' = stranded
      BY <2>9 DEF FinishProcessing, FailProcessing, Running, Uses, Same
    <3>3. CASE Throws(t, "other")
      BY <3>2, <3>3, Thrown, GoesOn
    <3>4. ASSUME NEW outcome \in Outcomes,
                 Moves(t, "removing", [task[t] EXCEPT !.outcome = outcome])
          PROVE  NothingLeftBehind'
      <4>1. Became(t, "removing", task[t].page, task[t].found, task[t].code, task[t].path,
                   outcome)
        BY <3>4, Learnt
      <4>2. QED
        BY <3>2, <4>1, GoesOn
    <3>5. QED
      BY <3>1, <3>3, <3>4
  <2>10. CASE RemoveTemporaryFile(t) \/ RemoveFails(t)
    <3>1. Became(t, "ended", task[t].page, task[t].found, task[t].code, task[t].path,
                 task[t].outcome)
      BY <2>10, AtMoved DEF RemoveTemporaryFile, RemoveFails
    <3>2. /\ ~Uses(t, "image") /\ disk' \subseteq disk /\ stranded \subseteq stranded'
          /\ task[t].path => <<t, "pdf">> \notin disk' \/ <<t, "pdf">> \in stranded'
          /\ ~task[t].path => ~Uses(t, "pdf")
      BY <2>10 DEF RemoveTemporaryFile, RemoveFails, Uses
    <3>3. ASSUME NEW kind \in {"pdf", "image"}, <<t, kind>> \in disk'
          PROVE  <<t, kind>> \in stranded'
      BY <3>2, <3>3 DEF NothingLeftBehind, Uses
    <3>4. \A u \in Tasks \ {t}, kind \in {"pdf", "image"} :
            <<u, kind>> \in disk' => <<u, kind>> \in disk
      BY <3>2
    <3>5. \A u \in Tasks \ {t} : task'[u] = task[u]
      BY <3>1 DEF Became
    <3>6. QED
      BY <3>2, <3>3, <3>4, <3>5, OthersUse
  <2>11. QED
    BY <1>4, <2>1, <2>2, <2>3, <2>4, <2>5, <2>6, <2>7, <2>8, <2>9, <2>10
       DEF Proceeds, Breaks
<1>5. QED
  BY <1>1, <1>2, <1>3, <1>4 DEF Next

(***************************************************************************)
(* Causes.                                                                 *)

\* The documents do not change, and a command that failed has failed.
LEMMA SameDocuments ==
  ASSUME TaskTypeOK, NEW t \in Tasks, broke \subseteq broke', task'[t].doc = task[t].doc
  PROVE  /\ \A i : Text(t, i)' <=> Text(t, i)
         /\ Cause(t) => Cause(t)'
BY DEF Text, Cause, Readable

\* An attempt that changed as NothingOverlooked and CodesHaveCause demand keeps
\* both.
LEMMA OthersCause ==
  ASSUME TaskTypeOK, NothingOverlooked, CodesHaveCause, NEW t \in Tasks, broke \subseteq broke',
         NEW stage, NEW page \in 1..Len(task[t].doc.pages), NEW found \in BOOLEAN, NEW code,
         NEW path, NEW outcome,
         Became(t, stage, page, found, code, path, outcome),
         ~found /\ t \notin broke'
           => /\ \A i \in 1..(page - 1) : ~Text(t, i)
              /\ stage = "unrendering" /\ code = "none" => ~Text(t, page),
         stage \in {"rendering", "recognising"}
           => page = task[t].page /\ Kind(t) # "text",
         code \in Permanent \/ outcome = "given up" => Cause(t) \/ t \in broke'
  PROVE  NothingOverlooked' /\ CodesHaveCause'
<1>1. ASSUME NEW u \in Tasks, u # t
      PROVE  task'[u] = task[u] /\ (Kind(u)' = Kind(u))
  BY <1>1 DEF Became, Kind
<1>2. task'[t].doc = task[t].doc /\ (task'[t].page = task[t].page => Kind(t)' = Kind(t))
  BY DEF Became, Kind
<1>3. NothingOverlooked'
  <2>1. ASSUME NEW u \in Tasks
        PROVE  /\ ~task'[u].found /\ u \notin broke'
                   => /\ \A i \in 1..(task'[u].page - 1) : ~Text(u, i)'
                      /\ PageRead(u)' /\ task'[u].code = "none" => ~Text(u, task[u].page)'
               /\ task'[u].stage \in {"rendering", "recognising"} => Kind(u)' # "text"
    <3>1. CASE u = t
      BY <1>2, <3>1, SameDocuments DEF Became, PageRead
    <3>2. CASE u # t
      BY <1>1, <3>2, SameDocuments DEF NothingOverlooked, PageRead
    <3>3. QED
      BY <3>1, <3>2
  <2>2. QED
    BY <2>1 DEF NothingOverlooked
<1>4. CodesHaveCause'
  <2>1. ASSUME NEW u \in Tasks, task'[u].code \in Permanent \/ task'[u].outcome = "given up"
        PROVE  Cause(u)'
    <3>1. CASE u = t
      BY <1>2, <2>1, <3>1, SameDocuments DEF Became, Cause
    <3>2. CASE u # t
      BY <1>1, <2>1, <3>2, SameDocuments DEF CodesHaveCause
    <3>3. QED
      BY <3>1, <3>2
  <2>2. QED
    BY <2>1 DEF CodesHaveCause
<1>5. QED
  BY <1>3, <1>4

\* An attempt goes on at the same page, forgets nothing that was found, and has
\* no permanent code without cause.
Stays(t, stage, found, code, path, outcome) ==
  /\ Became(t, stage, task[t].page, found, code, path, outcome)
  /\ broke \subseteq broke'
  /\ found \in BOOLEAN
  /\ stage # "rendering" /\ stage # "recognising"
  /\ ~found => ~task[t].found
  /\ ~found /\ t \notin broke'
       => (stage = "unrendering" /\ code = "none" => ~Text(t, task[t].page))
  /\ code \in Permanent => code = task[t].code \/ Cause(t) \/ t \in broke'
  /\ outcome = "given up" => outcome = task[t].outcome \/ Cause(t) \/ t \in broke'

\* Such a step keeps the pages and the causes.
LEMMA StaysAtPage ==
  ASSUME TaskTypeOK, NothingOverlooked, CodesHaveCause, NEW t \in Tasks,
         NEW stage, NEW found, NEW code, NEW path, NEW outcome,
         Stays(t, stage, found, code, path, outcome)
  PROVE  NothingOverlooked' /\ CodesHaveCause'
<1>1. task[t].page \in 1..Len(task[t].doc.pages)
  BY PagesExist
<1>2. ~found /\ t \notin broke'
        => /\ \A i \in 1..(task[t].page - 1) : ~Text(t, i)
           /\ stage = "unrendering" /\ code = "none" => ~Text(t, task[t].page)
  BY DEF NothingOverlooked, Stays
<1>3. code \in Permanent \/ outcome = "given up" => Cause(t) \/ t \in broke'
  BY DEF CodesHaveCause, Stays
<1>4. QED
  BY <1>1, <1>2, <1>3, OthersCause DEF Stays

\* Every step keeps the pages accounted for, and gives each permanent code a
\* cause.
LEMMA CausesKept ==
  TaskTypeOK /\ NothingOverlooked /\ CodesHaveCause /\ [Next]_vars
    => NothingOverlooked' /\ CodesHaveCause'
<1> SUFFICES ASSUME TaskTypeOK, NothingOverlooked, CodesHaveCause, [Next]_vars
             PROVE  NothingOverlooked' /\ CodesHaveCause'
  OBVIOUS
<1>1. CASE Start
  BY <1>1 DEF Start, NothingOverlooked, CodesHaveCause, Text, PageRead, Kind, Cause, Readable
<1>2. CASE UNCHANGED vars
  BY <1>2 DEF vars, NothingOverlooked, CodesHaveCause, Text, PageRead, Kind, Cause, Readable
<1>3. CASE Crash
  <2>1. ASSUME NEW t \in Tasks
        PROVE  /\ task'[t].doc = task[t].doc /\ task'[t].page = task[t].page
               /\ task'[t].found = task[t].found /\ task'[t].code = task[t].code
               /\ task'[t].stage \in {task[t].stage, "ended"}
               /\ task'[t].outcome \in {task[t].outcome, "lost"}
    BY <1>3, Crashed
  <2>2. broke' = broke
    BY <1>3 DEF Crash
  <2>3. \A t \in Tasks : /\ \A i : Text(t, i)' <=> Text(t, i)
                         /\ Cause(t) => Cause(t)'
                         /\ Kind(t)' = Kind(t)
    BY <2>1, <2>2, SameDocuments DEF Kind
  <2>4. NothingOverlooked'
    BY <2>1, <2>2, <2>3 DEF NothingOverlooked, PageRead
  <2>5. CodesHaveCause'
    BY <2>1, <2>2, <2>3 DEF CodesHaveCause
  <2>6. QED
    BY <2>4, <2>5
<1>4. ASSUME NEW t \in Tasks, Begin(t) \/ Proceeds(t) \/ Breaks(t)
      PROVE  NothingOverlooked' /\ CodesHaveCause'
  <2> USE DEF Working, Codes, Permanent, Outcomes
  <2>0. task[t].found \in BOOLEAN /\ task[t].page \in 1..Len(task[t].doc.pages)
        /\ Len(task[t].doc.pages) \in Nat
    BY PagesExist DEF Task
  <2>1. CASE /\ broke \subseteq broke'
             /\ \E stage \in Working \cup {"ended"} :
                  At(t, stage) /\ stage \notin {"rendering", "recognising", "unrendering"}
    BY <2>0, <2>1, AtMoved, StaysAtPage DEF Stays
  <2>2. CASE /\ broke \subseteq broke'
             /\ \E code \in Codes : Throws(t, code)
                                 /\ (code \in Permanent => Cause(t) \/ t \in broke')
    <3>1. PICK code \in Codes : Throws(t, code)
                               /\ (code \in Permanent => Cause(t) \/ t \in broke')
      BY <2>2
    <3>2. Became(t, "failing", task[t].page, task[t].found, code, task[t].path,
                 task[t].outcome)
      BY <3>1, Thrown
    <3>3. QED
      BY <2>0, <2>2, <3>1, <3>2, StaysAtPage DEF Stays
  <2>3. CASE DecryptFails(t) \/ WriteFails(t) \/ TimesOut(t) \/ CommandFails(t)
             \/ RemoveImageFails(t)
    BY <2>2, <2>3
       DEF DecryptFails, WriteFails, TimesOut, CommandFails, RemoveImageFails, Same
  <2>4. CASE Begin(t) \/ LoadCatalogForJob(t) \/ RunEngine(t) \/ RemoveTemporaryFile(t)
             \/ RemoveFails(t)
    BY <2>1, <2>2, <2>4
       DEF Begin, LoadCatalogForJob, RunEngine, RemoveTemporaryFile, RemoveFails, Same
  <2>5. CASE Inspect(t) \/ AssertPagePixelBounds(t)
    BY <2>1, <2>2, <2>5 DEF Inspect, AssertPagePixelBounds, Same, Cause
  <2>6. CASE WriteTemporaryPdf(t)
    <3>1. Became(t, "inspecting", task[t].page, task[t].found, task[t].code, TRUE,
                 task[t].outcome)
      BY <2>6, Learnt DEF WriteTemporaryPdf
    <3>2. QED
      BY <2>0, <2>6, <3>1, StaysAtPage DEF Stays, WriteTemporaryPdf
  <2>7. CASE Render(t)
    <3>1. /\ Became(t, "recognising", task[t].page, task[t].found, task[t].code,
                    task[t].path, task[t].outcome)
          /\ broke' = broke /\ Kind(t) # "text"
      BY <2>7, AtMoved DEF Render, NothingOverlooked
    <3>2. QED
      BY <2>0, <3>1, OthersCause DEF NothingOverlooked, CodesHaveCause
  <2>8. CASE OcrTimesOut(t)
    <3>1. Became(t, "unrendering", task[t].page, task[t].found, "OCR_TIMEOUT", task[t].path,
                 task[t].outcome)
      BY <2>8, Learnt DEF OcrTimesOut
    <3>2. QED
      BY <2>0, <2>8, <3>1, StaysAtPage DEF Stays, OcrTimesOut
  <2>9. CASE OcrFails(t)
    <3>1. Became(t, "unrendering", task[t].page, task[t].found, task[t].code, task[t].path,
                 task[t].outcome)
      BY <2>9, AtMoved DEF OcrFails
    <3>2. QED
      BY <2>0, <2>9, <3>1, StaysAtPage DEF Stays, OcrFails
  <2>10. CASE Recognise(t)
    <3>1. PICK found \in BOOLEAN, code \in Codes :
            /\ Became(t, "unrendering", task[t].page, found, code, task[t].path,
                      task[t].outcome)
            /\ ~found => ~task[t].found /\ (code = "none" => Kind(t) # "image")
            /\ code = task[t].code \/ task[t].doc.fault # "none"
      BY <2>10, Recognised
    <3>2. Kind(t) # "image" => ~Text(t, task[t].page)
      BY <2>10 DEF Recognise, NothingOverlooked, Text, Kind
    <3>3. broke' = broke
      BY <2>10 DEF Recognise, Same
    <3>4. QED
      BY <2>0, <3>1, <3>2, <3>3, StaysAtPage DEF Stays, Cause
  <2>11. CASE ReadPage(t) \/ RemoveImage(t)
    <3>1. broke' = broke
      BY <2>11 DEF ReadPage, RemoveImage, Same
    <3>2. CASE At(t, "rendering") /\ Kind(t) # "text"
      <4>1. Became(t, "rendering", task[t].page, task[t].found, task[t].code, task[t].path,
                   task[t].outcome)
        BY <3>2, AtMoved
      <4>2. QED
        BY <2>0, <3>1, <3>2, <4>1, OthersCause DEF NothingOverlooked, CodesHaveCause
    <3>3. CASE PageOver(t)
      <4>1. PICK found \in BOOLEAN :
              /\ ~found => /\ ~task[t].found
                           /\ \/ ~Text(t, task[t].page)
                              \/ PageRead(t) /\ task[t].code = "none"
              /\ \/ /\ task[t].page < Len(task[t].doc.pages)
                    /\ Became(t, "bounding", task[t].page + 1, found, task[t].code,
                              task[t].path, task[t].outcome)
                 \/ Became(t, "loading", task[t].page, found, task[t].code, task[t].path,
                           task[t].outcome)
                 \/ /\ task[t].page = Len(task[t].doc.pages)
                    /\ ~found
                    /\ Became(t, "failing", task[t].page, task[t].found, "NO_READABLE_TEXT",
                              task[t].path, task[t].outcome)
        BY <3>3 DEF PageOver
      <4>2. ~found /\ t \notin broke => \A i \in 1..task[t].page : ~Text(t, i)
        BY <2>0, <4>1 DEF NothingOverlooked
      <4>3. CASE /\ task[t].page < Len(task[t].doc.pages)
                 /\ Became(t, "bounding", task[t].page + 1, found, task[t].code,
                           task[t].path, task[t].outcome)
        <5>1. task[t].page + 1 \in 1..Len(task[t].doc.pages)
              /\ (task[t].page + 1) - 1 = task[t].page
          BY <2>0, <4>3
        <5>2. task[t].code \in Permanent \/ task[t].outcome = "given up"
                => Cause(t) \/ t \in broke'
          BY DEF CodesHaveCause
        <5>3. QED
          BY <3>1, <4>2, <4>3, <5>1, <5>2, OthersCause
      <4>4. CASE Became(t, "loading", task[t].page, found, task[t].code, task[t].path,
                        task[t].outcome)
        BY <2>0, <3>1, <4>1, <4>4, StaysAtPage DEF Stays
      <4>5. CASE /\ task[t].page = Len(task[t].doc.pages)
                 /\ ~found
                 /\ Became(t, "failing", task[t].page, task[t].found, "NO_READABLE_TEXT",
                           task[t].path, task[t].outcome)
        <5>1. Cause(t)
          BY <4>2, <4>5 DEF Cause, Readable, Text
        <5>2. QED
          BY <2>0, <3>1, <4>5, <5>1, StaysAtPage DEF Stays
      <4>6. QED
        BY <4>1, <4>3, <4>4, <4>5
    <3>4. QED
      BY <2>1, <2>2, <2>11, <3>1, <3>2, <3>3, PageStep DEF Cause
  <2>12. CASE FinishProcessing(t) \/ FailProcessing(t)
    <3>1. \/ Throws(t, "other")
          \/ \E outcome \in Outcomes :
               /\ Moves(t, "removing", [task[t] EXCEPT !.outcome = outcome])
               /\ outcome = "given up" => task[t].code \in Permanent
      BY <2>12 DEF FinishProcessing, FailProcessing, Retryable
    <3>2. broke' = broke
      BY <2>12 DEF FinishProcessing, FailProcessing, Same
    <3>3. ASSUME NEW outcome \in Outcomes,
                 Moves(t, "removing", [task[t] EXCEPT !.outcome = outcome]),
                 outcome = "given up" => task[t].code \in Permanent
          PROVE  NothingOverlooked' /\ CodesHaveCause'
      <4>1. Became(t, "removing", task[t].page, task[t].found, task[t].code, task[t].path,
                   outcome)
        BY <3>3, Learnt
      <4>2. outcome = "given up" => Cause(t)
        BY <3>3 DEF CodesHaveCause
      <4>3. QED
        BY <2>0, <3>2, <4>1, <4>2, StaysAtPage DEF Stays
    <3>4. CASE Throws(t, "other")
      BY <2>2, <3>2, <3>4
    <3>5. QED
      BY <3>1, <3>3, <3>4
  <2>13. QED
    BY <1>4, <2>3, <2>4, <2>5, <2>6, <2>7, <2>8, <2>9, <2>10, <2>11, <2>12
       DEF Proceeds, Breaks
<1>5. QED
  BY <1>1, <1>2, <1>3, <1>4 DEF Next

(***************************************************************************)
(* Theorems.                                                               *)

\* Every step keeps the invariant.
LEMMA TaskStep == TaskInv /\ [Next]_vars => TaskInv'
BY TaskTypes, FilesKept, CausesKept DEF TaskInv

\* The inductive invariant of an attempt: its types, the files it uses, the pages
\* it has read, and the cause of the error it ends with.
THEOREM TaskInvariant == Spec => []TaskInv
BY TaskInit, TaskStep, PTL DEF Spec

\* Every variable keeps its type, whatever the attempts and the documents.
THEOREM TaskTypeCorrect == Spec => []TaskTypeOK
<1>1. TaskInv => TaskTypeOK
  BY DEF TaskInv
<1>2. QED
  BY <1>1, TaskInvariant, PTL

\* A file in the temporary directory always belongs to a running attempt, or was
\* stranded by a crash, a failed write or a failed removal (temp-files.ts,
\* ocrPage, cleanupAnalysisDirectory).
THEOREM FilesAccountedFor == Spec => []NothingLeftBehind
<1>1. TaskInv => NothingLeftBehind
  BY DEF TaskInv
<1>2. QED
  BY <1>1, TaskInvariant, PTL

\* processPdf gives a job up before its last attempt only for a fault of the PDF
\* or a command that failed.
THEOREM GivenUpForCause == Spec => []GivesUpForCause
<1>1. TaskInv => GivesUpForCause
  BY DEF TaskInv, CodesHaveCause, GivesUpForCause, Cause
<1>2. QED
  BY <1>1, TaskInvariant, PTL
=============================================================================
