--------------------------- MODULE WebTasksProofs ---------------------------
(***************************************************************************)
(* The reports of the three background tasks of the web server, proved for *)
(* any number of copies, downloads, table entries and extractions.         *)
(***************************************************************************)
EXTENDS CopyTask, Downloads, Extraction, TLAPS

-----------------------------------------------------------------------------
(* Copies.  All but the last copy are past their store to active; the last *)
(* one is not while active is set.                                         *)

Past == {"mark", "exit"}

CopyOrder ==
  /\ \A k \in Copy : k > copies <=> copyPc[k] = "none"
  /\ \A k \in Copy : k < copies => copyPc[k] \in Past
  /\ active <=> copies > 0 /\ copyPc[copies] \notin Past

CopyOutcome ==
  /\ done => copies > 0
  /\ copies > 0 /\ ~unstarted /\ ~error /\ copyPc[copies] \in {"clear", "mark", "exit"}
       => copyRc[copies] = "ok"

\* What has been loaded holds until the next copy, which waits for the end of
\* the handler.
CopyLoaded ==
  /\ loading # "none" /\ ~report.active => ~active
  /\ loading = "error" /\ report.done => copies > 0
  /\ CopyReportIsTrue

CopyInv == CopyTypeOK /\ CopyOrder /\ CopyOutcome /\ CopyLoaded

LEMMA CopyInvInit == CopyInit => CopyInv
<1> SUFFICES ASSUME CopyInit PROVE CopyInv
    OBVIOUS
<1>1. CopyFlagsOK
      BY Zenon DEF CopyInit, CopyFlagsOK
<1>2. CopyTypeOK
      BY <1>1, MaxCopiesAssumption DEF CopyInit, CopyTypeOK, Copy, NoReport
<1>3. CopyOrder /\ CopyOutcome /\ CopyLoaded
      BY MaxCopiesAssumption DEF CopyInit, CopyOrder, CopyOutcome, CopyLoaded,
         CopyReportIsTrue, Copy, Past, NoReport
<1> QED
    BY <1>2, <1>3 DEF CopyInv

LEMMA CopyInvNext == CopyInv /\ [CopyNext]_copyVars => CopyInv'
<1> SUFFICES ASSUME CopyInv, [CopyNext]_copyVars PROVE CopyInv'
    OBVIOUS
<1>0. CopyFlagsOK'
  <2> USE DEF CopyInv, CopyTypeOK, CopyFlagsOK
  <2>1. CASE api_copy
        BY <2>1, Zenon DEF api_copy
  <2>2. CASE api_copy_cancel \/ api_copy_pause \/ api_copy_progress
        BY <2>2 DEF api_copy_cancel, api_copy_pause, api_copy_progress, Loads
  <2>3. ASSUME NEW k \in Copy, copy_thread_fn(k) PROVE CopyFlagsOK'
    <3>1. CASE StoreError(k)
          BY <3>1 DEF StoreError
    <3>2. CASE ClearActive(k) \/ StoreDone(k)
          BY <3>2 DEF ClearActive, StoreDone
    <3>3. CASE CopyEnds(k) \/ CallbackAborts(k) \/ HeldAborts(k)
          BY <3>3 DEF CopyEnds, CallbackAborts, HeldAborts, CopyReturns
    <3>4. CASE CallbackHeld(k) \/ HeldResumes(k)
          BY <3>4 DEF CallbackHeld, HeldResumes
    <3> QED
        BY <2>3, <3>1, <3>2, <3>3, <3>4 DEF copy_thread_fn
  <2>4. CASE UNCHANGED copyVars
        BY <2>4 DEF copyVars
  <2> QED
      BY <2>1, <2>2, <2>3, <2>4 DEF CopyNext
<1> USE <1>0, MaxCopiesAssumption
        DEF CopyInv, CopyTypeOK, CopyOrder, CopyOutcome, CopyLoaded, CopyReportIsTrue,
            Copy, Past
<1>1. CASE api_copy
  <2>1. CASE active' = FALSE
        BY <1>1, <2>1 DEF api_copy, NoReport
  <2>2. CASE active' = TRUE
    <3>1. copies' = copies + 1 /\ copies' \in Copy
          BY <1>1, <2>2 DEF api_copy
    <3>2. copyPc' = [copyPc EXCEPT ![copies'] = "work"]
          BY <1>1, <2>2, <3>1 DEF api_copy
    <3>3. CopyTypeOK'
          BY <1>1, <2>2, <3>1, <3>2 DEF api_copy, NoReport
    <3>4. CopyOrder'
          BY <1>1, <2>2, <3>1, <3>2 DEF api_copy
    <3>5. CopyOutcome'
          BY <1>1, <2>2, <3>1, <3>2 DEF api_copy
    <3>6. CopyLoaded'
          BY <1>1, <2>2, <3>1 DEF api_copy, NoReport
    <3> QED
        BY <3>3, <3>4, <3>5, <3>6
  <2> QED
      BY <1>1, <2>1, <2>2 DEF api_copy
<1>2. CASE api_copy_cancel
      BY <1>2 DEF api_copy_cancel
<1>3. CASE api_copy_pause
      BY <1>3 DEF api_copy_pause
<1>4. ASSUME NEW k \in Copy, copy_thread_fn(k) PROVE CopyInv'
  <2>0. copyPc[k] # "exit" /\ (copyPc[k] # "mark" => k = copies)
        BY <1>4 DEF copy_thread_fn, CopyEnds, CallbackAborts, CallbackHeld, HeldAborts,
           HeldResumes, StoreError, ClearActive, StoreDone, CopyReturns, CopyGoto
  <2>1. CASE CopyEnds(k)
        BY <2>0, <2>1 DEF CopyEnds, CopyReturns, CopyGoto
  <2>2. CASE CallbackAborts(k)
        BY <2>0, <2>2 DEF CallbackAborts, CopyReturns, CopyGoto
  <2>3. CASE CallbackHeld(k)
        BY <2>0, <2>3 DEF CallbackHeld, CopyGoto
  <2>4. CASE HeldAborts(k)
        BY <2>0, <2>4 DEF HeldAborts, CopyReturns, CopyGoto
  <2>5. CASE HeldResumes(k)
        BY <2>0, <2>5 DEF HeldResumes, CopyGoto
  <2>6. CASE StoreError(k)
        BY <2>0, <2>6 DEF StoreError, CopyGoto
  <2>7. CASE ClearActive(k)
        BY <2>0, <2>7 DEF ClearActive, CopyGoto
  <2>8. CASE StoreDone(k)
        BY <2>0, <2>8 DEF StoreDone, CopyGoto
  <2> QED
      BY <1>4, <2>1, <2>2, <2>3, <2>4, <2>5, <2>6, <2>7, <2>8 DEF copy_thread_fn
<1>5. CASE api_copy_progress
  <2>0. UNCHANGED <<active, done, error, cancel, paused, copies, copyPc, copyRc, unstarted>>
        BY <1>5 DEF api_copy_progress, Loads
  <2>1. CASE loading = "none"
    <3>1. report' = [report EXCEPT !.active = active] /\ loading' = "done"
          BY <1>5, <2>1 DEF api_copy_progress, Loads
    <3>2. report' \in [active : BOOLEAN, done : BOOLEAN, error : BOOLEAN]
          BY <3>1 DEF CopyFlagsOK
    <3>3. report'.active = active
          BY <3>1
    <3> QED
        BY <2>0, <3>1, <3>2, <3>3
  <2>2. CASE loading = "done"
    <3>1. report' = [report EXCEPT !.done = done] /\ loading' = "error"
          BY <1>5, <2>2 DEF api_copy_progress, Loads
    <3>2. report' \in [active : BOOLEAN, done : BOOLEAN, error : BOOLEAN]
          BY <3>1 DEF CopyFlagsOK
    <3>3. report'.done = done /\ report'.active = report.active
          BY <3>1
    <3> QED
        BY <2>0, <2>2, <3>1, <3>2, <3>3
  <2>3. CASE loading = "error"
    <3>1. report' = [report EXCEPT !.error = error] /\ loading' = "none"
          BY <1>5, <2>3 DEF api_copy_progress, Loads
    <3>2. report' \in [active : BOOLEAN, done : BOOLEAN, error : BOOLEAN]
          BY <3>1 DEF CopyFlagsOK
    <3>3. /\ report'.error = error /\ report'.active = report.active
          /\ report'.done = report.done
          BY <3>1
    <3> QED
        BY <2>0, <2>3, <3>1, <3>2, <3>3
  <2> QED
      BY <2>1, <2>2, <2>3
<1>6. CASE UNCHANGED copyVars
      BY <1>6 DEF copyVars
<1> QED
    BY <1>1, <1>2, <1>3, <1>4, <1>5, <1>6 DEF CopyNext

LEMMA CopyInvImplies == CopyInv => OneCopyAtATime /\ CopyReportIsTrue
<1> SUFFICES ASSUME CopyInv PROVE OneCopyAtATime /\ CopyReportIsTrue
    OBVIOUS
<1> USE MaxCopiesAssumption DEF CopyInv, CopyTypeOK, CopyOrder, Copy, Past
<1>1. \A k \in Copy : Running(k) => k = copies
      BY DEF Running
<1>2. active <=> \E k \in Copy : Running(k)
      BY <1>1 DEF Running
<1> QED
    BY <1>1, <1>2 DEF OneCopyAtATime, CopyLoaded

(* api_copy starts a copy only when no other works on the file system:     *)
(* active covers the whole of a copy, for any number of copies in a row.   *)
THEOREM CopiesOneAtATime == CopySpec => []OneCopyAtATime
<1>1. CopySpec => []CopyInv
      BY CopyInvInit, CopyInvNext, PTL DEF CopySpec
<1> QED
    BY <1>1, CopyInvImplies, PTL

(* A copy that api_copy_progress reports as over and successful is, even   *)
(* though the thread before it may store its done flag late.               *)
THEOREM CopyReports == CopySpec => []CopyReportIsTrue
<1>1. CopySpec => []CopyInv
      BY CopyInvInit, CopyInvNext, PTL DEF CopySpec
<1> QED
    BY <1>1, CopyInvImplies, PTL

-----------------------------------------------------------------------------
(* Extractions.  All threads but the last have ended; the last one has not *)
(* while the flag active is set.                                           *)

ExtractOrder ==
  /\ \A k \in Extract : k > extractions <=> xPc[k] = "none"
  /\ \A k \in Extract : k < extractions => xPc[k] = "exit"
  /\ xActive <=> extractions > 0 /\ xPc[extractions] # "exit"

ExtractOutcome ==
  /\ xDone => extractions > 0 /\ xPc[extractions] \in {"clear", "exit"}
  /\ extractions > 0 /\ ~xError /\ ~xCancelled =>
       /\ xPc[extractions] = "close" => left[extractions] = 0
       /\ xDone => left[extractions] = 0

ExtractTypes ==
  /\ extractions \in 0 .. MaxExtractions
  /\ xPc \in [Extract -> {"none", "open", "entry", "data", "close", "clear", "exit"}]
  /\ left \in [Extract -> 0 .. MaxEntries]

ExtractInv == ExtractFlagsOK /\ ExtractTypes /\ ExtractOrder /\ ExtractOutcome

LEMMA ExtractInvInit == ExtractionInit => ExtractInv
<1> SUFFICES ASSUME ExtractionInit PROVE ExtractInv
    OBVIOUS
<1>1. ExtractFlagsOK
      BY Zenon DEF ExtractionInit, ExtractFlagsOK
<1>2. ExtractTypes /\ ExtractOrder /\ ExtractOutcome
      BY ExtractionAssumption
         DEF ExtractionInit, ExtractTypes, ExtractOrder, ExtractOutcome, Extract
<1> QED
    BY <1>1, <1>2 DEF ExtractInv

LEMMA ExtractInvNext == ExtractInv /\ [ExtractionNext]_xVars => ExtractInv'
<1> SUFFICES ASSUME ExtractInv, [ExtractionNext]_xVars PROVE ExtractInv'
    OBVIOUS
<1>0. ExtractFlagsOK'
  <2> USE DEF ExtractInv, ExtractFlagsOK
  <2>1. CASE api_extract
        BY <2>1, Zenon DEF api_extract
  <2>2. CASE api_extract_cancel
        BY <2>2 DEF api_extract_cancel
  <2>3. ASSUME NEW k \in Extract, extract_thread(k) PROVE ExtractFlagsOK'
        BY <2>3 DEF extract_thread, ArchiveOpened, ArchiveNotOpened, ExtractLoopEnds,
           HeaderFails, NextEntry, EntryEnds, XStoreDone, XClearActive, XFails
  <2>4. CASE UNCHANGED xVars
        BY <2>4 DEF xVars
  <2> QED
      BY <2>1, <2>2, <2>3, <2>4 DEF ExtractionNext
<1> USE <1>0, ExtractionAssumption
        DEF ExtractInv, ExtractTypes, ExtractOrder, ExtractOutcome, Extract
<1>1. CASE api_extract
  <2>1. CASE xActive' = FALSE
        BY <1>1, <2>1 DEF api_extract
  <2>2. CASE xActive' = TRUE
    <3>1. extractions' = extractions + 1 /\ extractions' \in Extract
          BY <1>1, <2>2 DEF api_extract
    <3>2. xPc' = [xPc EXCEPT ![extractions'] = "open"]
          BY <1>1, <2>2, <3>1 DEF api_extract
    <3>3. PICK n \in 0 .. MaxEntries : left' = [left EXCEPT ![extractions'] = n]
          BY <1>1, <2>2, <3>1 DEF api_extract
    <3> QED
        BY <1>1, <2>2, <3>1, <3>2, <3>3 DEF api_extract
  <2> QED
      BY <1>1, <2>1, <2>2 DEF api_extract
<1>2. CASE api_extract_cancel
      BY <1>2 DEF api_extract_cancel
<1>3. ASSUME NEW k \in Extract, extract_thread(k) PROVE ExtractInv'
  <2>0. k = extractions
        BY <1>3 DEF extract_thread, ArchiveOpened, ArchiveNotOpened, ExtractLoopEnds,
           HeaderFails, NextEntry, EntryEnds, XStoreDone, XClearActive, XFails, XGoto
  <2>1. CASE ArchiveOpened(k)
        BY <2>0, <2>1 DEF ArchiveOpened, XGoto
  <2>2. CASE ArchiveNotOpened(k)
        BY <2>0, <2>2 DEF ArchiveNotOpened, XFails, XGoto
  <2>3. CASE ExtractLoopEnds(k)
        BY <2>0, <2>3 DEF ExtractLoopEnds, XGoto
  <2>4. CASE HeaderFails(k)
        BY <2>0, <2>4 DEF HeaderFails, XFails, XGoto
  <2>5. CASE NextEntry(k)
    <3>1. /\ left' = [left EXCEPT ![k] = @ - 1] /\ left[k] > 0 /\ xPc[k] = "entry"
          /\ UNCHANGED <<xActive, xDone, xError, xCancelled, extractions>>
          BY <2>5 DEF NextEntry, XGoto
    <3>2. PICK next \in {"data", "entry"} : xPc' = [xPc EXCEPT ![k] = next]
          BY <2>5 DEF NextEntry, XGoto
    <3>3. left' \in [Extract -> 0 .. MaxEntries]
          BY <3>1
    <3>4. ExtractTypes'
          BY <3>1, <3>2, <3>3
    <3>5. ExtractOrder'
          BY <2>0, <3>1, <3>2
    <3>6. ExtractOutcome'
          BY <2>0, <3>1, <3>2
    <3> QED
        BY <1>0, <3>4, <3>5, <3>6
  <2>6. CASE EntryEnds(k)
        BY <2>0, <2>6 DEF EntryEnds, XGoto
  <2>7. CASE XStoreDone(k)
        BY <2>0, <2>7 DEF XStoreDone, XGoto
  <2>8. CASE XClearActive(k)
        BY <2>0, <2>8 DEF XClearActive, XGoto
  <2> QED
      BY <1>3, <2>1, <2>2, <2>3, <2>4, <2>5, <2>6, <2>7, <2>8 DEF extract_thread
<1>4. CASE UNCHANGED xVars
      BY <1>4 DEF xVars
<1> QED
    BY <1>1, <1>2, <1>3, <1>4 DEF ExtractionNext

(* An extraction that api_extract_progress reports as done, without error  *)
(* or cancel, has handled every entry, and no two extractions ever run at  *)
(* the same time: the order of the last two stores of extract_thread.      *)
THEOREM ExtractReports == ExtractionSpec => []ExtractReportIsTrue
<1>1. ExtractionSpec => []ExtractInv
      BY ExtractInvInit, ExtractInvNext, PTL DEF ExtractionSpec
<1>2. ExtractInv => ExtractReportIsTrue
      BY ExtractionAssumption DEF ExtractInv, ExtractTypes, ExtractOrder, ExtractOutcome,
         Extract, ExtractReportIsTrue, Extracting
<1> QED
    BY <1>1, <1>2, PTL

-----------------------------------------------------------------------------
(* Downloads.  An active entry belongs to a thread that has not ended, the *)
(* one its id names; an entry that is not crowded is used by no other.     *)

Entry == [active : BOOLEAN, done : BOOLEAN, paused : BOOLEAN, error : BOOLEAN,
          id : 0 .. MaxDownloads]

DlTypes ==
  /\ entry \in [Slot -> Entry]
  /\ nextId \in 1 .. MaxDownloads + 1
  /\ dlPc \in [Download -> {"none", "open", "perform", "held", "mark", "clear", "exit"}]
  /\ dlSlot \in [Download -> 0 .. NSlots]
  /\ got \in [Download -> {"nothing", "part", "whole"}]
  /\ crowded \in SUBSET Slot

DlOrder ==
  /\ \A d \in Download : d >= nextId <=> dlPc[d] = "none"
  /\ \A d \in Download : dlPc[d] # "none" => dlSlot[d] \in Slot
  /\ \A s \in Slot : entry[s].id < nextId
  /\ \A s \in Slot : entry[s].id \in Download => dlSlot[entry[s].id] = s
  /\ \A s \in Slot : entry[s].active => entry[s].id \in Download /\ Uses(entry[s].id, s)

DlAlone ==
  \A s \in Slot \ crowded : \A d \in Download :
    /\ Uses(d, s) => entry[s].id = d
    /\ entry[s].id = d /\ ~entry[s].error =>
         /\ dlPc[d] = "mark" => got[d] = "whole"
         /\ entry[s].done => dlPc[d] \in {"clear", "exit"} /\ got[d] = "whole"
         /\ dlPc[d] = "clear" => got[d] = "whole"

DlInv == DlTypes /\ DlOrder /\ DlAlone

LEMMA DlInvInit == DownloadsInit => DlInv
<1> SUFFICES ASSUME DownloadsInit PROVE DlInv
    OBVIOUS
<1> USE DownloadsAssumption DEF Slot, Download
<1> DEFINE e == EntryOf(0, FALSE)
<1>1. e \in Entry /\ e.active = FALSE /\ e.done = FALSE /\ e.id = 0
      BY DEF EntryOf, Entry
<1>2. entry = [s \in Slot |-> e]
      BY DEF DownloadsInit
<1> HIDE DEF e
<1>a. /\ nextId = 1 /\ crowded = {}
      /\ dlPc = [d \in Download |-> "none"]
      /\ dlSlot = [d \in Download |-> 0]
      /\ got = [d \in Download |-> "nothing"]
      BY Zenon DEF DownloadsInit
<1>b. entry \in [Slot -> Entry] /\ \A s \in Slot : entry[s] = e
      BY <1>1, <1>2
<1>3. DlTypes
      BY <1>a, <1>b DEF DlTypes
<1>4. DlOrder /\ DlAlone
      BY <1>1, <1>a, <1>b DEF DlOrder, DlAlone, Uses
<1> QED
    BY <1>3, <1>4 DEF DlInv

LEMMA DlStart ==
  ASSUME DlInv, NEW created \in BOOLEAN, api_dl_start(created)
  PROVE  DlInv'
<1> USE DownloadsAssumption DEF Slot, Download
<1>0. PICK n \in Download : n = nextId
      BY DEF api_dl_start
<1>1. PICK s \in Slot :
        /\ entry' = [entry EXCEPT ![s] = EntryOf(n, created)]
        /\ dlSlot' = [dlSlot EXCEPT ![n] = s]
        /\ dlPc' = [dlPc EXCEPT ![n] = IF created THEN "open" ELSE "exit"]
        /\ crowded' = IF \E d \in Download : Uses(d, s) THEN crowded \cup {s}
                                                        ELSE crowded \ {s}
      BY <1>0 DEF api_dl_start
<1>2. nextId = n /\ nextId' = n + 1 /\ got' = got
      BY <1>0 DEF api_dl_start
<1> DEFINE e == EntryOf(n, created)
<1>b. n \in 0 .. MaxDownloads
      BY <1>2
<1>3. /\ e \in Entry /\ e.done = FALSE /\ e.error = FALSE
      /\ e.id = n
      /\ e.active => created
      BY <1>b, Zenon DEF Entry, EntryOf
<1> HIDE DEF e
<1>4. entry' = [entry EXCEPT ![s] = e]
      BY <1>1 DEF e
<1>5. DlTypes'
      BY <1>1, <1>2, <1>3, <1>4 DEF DlInv, DlTypes
<1>6. \A d \in Download, r \in Slot : d # n => (Uses(d, r)' <=> Uses(d, r))
      BY <1>1, <1>2 DEF DlInv, DlTypes, Uses
<1>7. dlPc[n] = "none" /\ (\A r \in Slot : entry[r].id # n)
      BY <1>2 DEF DlInv, DlTypes, DlOrder, Entry
<1>8. ASSUME created PROVE Uses(n, s)'
  <2>1. dlPc' = [dlPc EXCEPT ![n] = "open"]
        BY <1>1, <1>8, Zenon
  <2> QED
      BY <1>1, <1>2, <2>1 DEF DlInv, DlTypes, Uses
<1>9. DlOrder'
  <2>1. \A d \in Download : d >= nextId' <=> dlPc'[d] = "none"
        BY <1>1, <1>2 DEF DlInv, DlTypes, DlOrder
  <2>2. \A d \in Download : dlPc'[d] # "none" => dlSlot'[d] \in Slot
        BY <1>1, <1>2 DEF DlInv, DlTypes, DlOrder
  <2>3. \A r \in Slot : entry'[r].id < nextId'
        BY <1>2, <1>3, <1>4 DEF DlInv, DlTypes, DlOrder, Entry
  <2>4. ASSUME NEW r \in Slot, entry'[r].active
        PROVE  entry'[r].id \in Download /\ Uses(entry[r].id, r)'
    <3>1. CASE r = s
          BY <1>2, <1>3, <1>4, <1>8, <2>4, <3>1 DEF DlInv, DlTypes
    <3>2. CASE r # s
          BY <1>4, <1>6, <1>7, <2>4, <3>2 DEF DlInv, DlTypes, DlOrder
    <3> QED
        BY <3>1, <3>2
  <2>5. \A r \in Slot : entry'[r].id \in Download => dlSlot'[entry'[r].id] = r
        BY <1>1, <1>2, <1>3, <1>4, <1>7 DEF DlInv, DlTypes, DlOrder
  <2> QED
      BY <2>1, <2>2, <2>3, <2>4, <2>5 DEF DlOrder
<1>10. DlAlone'
  <2> SUFFICES ASSUME NEW r \in Slot, r \notin crowded', NEW d \in Download
               PROVE  /\ Uses(d, r)' => entry'[r].id = d
                      /\ entry'[r].id = d /\ ~entry'[r].error =>
                           /\ dlPc'[d] = "mark" => got'[d] = "whole"
                           /\ entry'[r].done => dlPc'[d] \in {"clear", "exit"} /\ got'[d] = "whole"
                           /\ dlPc'[d] = "clear" => got'[d] = "whole"
      BY DEF DlAlone
  <2>1. CASE r = s
    <3>1. ~Uses(d, s)
          BY <1>1, <2>1
    <3> QED
        BY <1>1, <1>2, <1>3, <1>4, <1>6, <2>1, <3>1 DEF DlInv, DlTypes
  <2>2. CASE r # s
    <3>1. r \notin crowded /\ entry'[r] = entry[r]
          BY <1>1, <1>4, <2>2 DEF DlInv, DlTypes
    <3>2. d = n => ~Uses(d, r)'
          BY <1>1, <1>2, <2>2 DEF DlInv, DlTypes, Uses
    <3> QED
        BY <1>1, <1>2, <1>6, <1>7, <3>1, <3>2 DEF DlInv, DlTypes, DlAlone
  <2> QED
      BY <2>1, <2>2
<1> QED
    BY <1>5, <1>9, <1>10 DEF DlInv

LEMMA DlInvNext == DlInv /\ [DownloadsNext]_dlVars => DlInv'
<1> SUFFICES ASSUME DlInv, [DownloadsNext]_dlVars PROVE DlInv'
    OBVIOUS
<1>1. ASSUME NEW id \in 0 .. MaxDownloads, api_dl_pause(id) PROVE DlInv'
  <2>1. PICK s \in Slot : entry' = [entry EXCEPT ![s].paused = ~@]
        BY <1>1 DEF api_dl_pause
  <2>2. UNCHANGED <<nextId, dlPc, dlSlot, got, crowded>>
        BY <1>1 DEF api_dl_pause
  <2>3. /\ entry' \in [Slot -> Entry]
        /\ \A r \in Slot : /\ entry'[r].id = entry[r].id /\ entry'[r].active = entry[r].active
                           /\ entry'[r].done = entry[r].done /\ entry'[r].error = entry[r].error
        BY <2>1 DEF DlInv, DlTypes, Entry
  <2> QED
      BY <2>2, <2>3 DEF DlInv, DlTypes, DlOrder, DlAlone, Uses
<1>2. ASSUME NEW id \in 0 .. MaxDownloads, api_dl_cancel(id) PROVE DlInv'
  <2>1. PICK s \in Slot :
          entry' = [entry EXCEPT ![s] = [@ EXCEPT !.error = TRUE, !.done = TRUE,
                                                  !.active = FALSE]]
        BY <1>2 DEF api_dl_cancel
  <2>2. UNCHANGED <<nextId, dlPc, dlSlot, got, crowded>>
        BY <1>2 DEF api_dl_cancel
  <2>3. /\ entry' \in [Slot -> Entry] /\ entry'[s].id = entry[s].id
        /\ entry'[s].error = TRUE /\ entry'[s].active = FALSE
        /\ \A r \in Slot : r # s => entry'[r] = entry[r]
        BY <2>1 DEF DlInv, DlTypes, Entry
  <2> QED
      BY <2>2, <2>3 DEF DlInv, DlTypes, DlOrder, DlAlone, Uses
<1>3. ASSUME NEW d \in Download, dl_thread(d) PROVE DlInv'
  <2>0. PICK s \in Slot : s = dlSlot[d] /\ Uses(d, s)
        BY <1>3 DEF DlInv, DlTypes, DlOrder, Uses, dl_thread, OpenFails, Opened, PerformOk,
           PerformFails, PauseSeen, PauseLifted, PauseAborts, MarkDone, MarkInactive,
           DlFails, DlGoto
  <2>1. ASSUME NEW from \in {"open", "perform", "held"}, DlFails(d, from) PROVE DlInv'
    <3>1. /\ dlPc[d] = from /\ dlPc' = [dlPc EXCEPT ![d] = "mark"]
          /\ entry' = [entry EXCEPT ![s].error = TRUE]
          /\ UNCHANGED <<nextId, dlSlot, crowded, got>>
          BY <2>0, <2>1 DEF DlFails, DlGoto
    <3>2. /\ entry' \in [Slot -> Entry] /\ entry'[s].id = entry[s].id
          /\ entry'[s].error = TRUE /\ entry'[s].active = entry[s].active
          /\ \A r \in Slot : r # s => entry'[r] = entry[r]
          BY <3>1 DEF DlInv, DlTypes, Entry
    <3> QED
        BY <2>0, <3>1, <3>2 DEF DlInv, DlTypes, DlOrder, DlAlone, Uses
  <2>2. CASE Opened(d) \/ PauseSeen(d) \/ PauseLifted(d) \/ PerformOk(d)
    <3>1. /\ dlPc[d] \in {"open", "perform", "held"}
          /\ UNCHANGED <<nextId, dlSlot, crowded, entry>>
          BY <2>2 DEF Opened, PauseSeen, PauseLifted, PerformOk, DlGoto
    <3>2. \/ /\ dlPc' = [dlPc EXCEPT ![d] = "perform"] \/ dlPc' = [dlPc EXCEPT ![d] = "held"]
             /\ got' = got \/ got' = [got EXCEPT ![d] = "part"]
          \/ dlPc' = [dlPc EXCEPT ![d] = "mark"] /\ got' = [got EXCEPT ![d] = "whole"]
          BY <2>2 DEF Opened, PauseSeen, PauseLifted, PerformOk, DlGoto
    <3> QED
        BY <2>0, <3>1, <3>2 DEF DlInv, DlTypes, DlOrder, DlAlone, Uses
  <2>3. CASE MarkDone(d)
    <3>1. /\ dlPc[d] = "mark" /\ dlPc' = [dlPc EXCEPT ![d] = "clear"]
          /\ entry' = [entry EXCEPT ![s].done = TRUE]
          /\ UNCHANGED <<nextId, dlSlot, crowded, got>>
          BY <2>0, <2>3 DEF MarkDone, DlGoto
    <3>2. /\ entry' \in [Slot -> Entry] /\ entry'[s].id = entry[s].id
          /\ entry'[s].error = entry[s].error /\ entry'[s].active = entry[s].active
          /\ \A r \in Slot : r # s => entry'[r] = entry[r]
          BY <3>1 DEF DlInv, DlTypes, Entry
    <3> QED
        BY <2>0, <3>1, <3>2 DEF DlInv, DlTypes, DlOrder, DlAlone, Uses
  <2>4. CASE MarkInactive(d)
    <3>1. /\ dlPc[d] = "clear" /\ dlPc' = [dlPc EXCEPT ![d] = "exit"]
          /\ entry' = [entry EXCEPT ![s].active = FALSE]
          /\ UNCHANGED <<nextId, dlSlot, crowded, got>>
          BY <2>0, <2>4 DEF MarkInactive, DlGoto
    <3>2. /\ entry' \in [Slot -> Entry] /\ entry'[s].id = entry[s].id
          /\ entry'[s].error = entry[s].error /\ entry'[s].active = FALSE
          /\ entry'[s].done = entry[s].done
          /\ \A r \in Slot : r # s => entry'[r] = entry[r]
          BY <3>1 DEF DlInv, DlTypes, Entry
    <3> QED
        BY <2>0, <3>1, <3>2 DEF DlInv, DlTypes, DlOrder, DlAlone, Uses
  <2> QED
      BY <1>3, <2>1, <2>2, <2>3, <2>4
         DEF dl_thread, OpenFails, PerformFails, PauseAborts
<1>4. CASE UNCHANGED dlVars
      BY <1>4 DEF dlVars, DlInv, DlTypes, DlOrder, DlAlone, Uses
<1> QED
    BY <1>1, <1>2, <1>3, <1>4, DlStart DEF DownloadsNext

(* No entry of g_downloads is lost to dl_find_slot: an active entry always *)
(* has a running thread that will release it, whatever was cancelled,      *)
(* paused or reused, for any size of the table.                            *)
THEOREM EntriesNotLost == DownloadsSpec => []NoEntryLost
<1>1. DownloadsSpec => []DlInv
      BY DlInvInit, DlInvNext, PTL DEF DownloadsSpec
<1>2. DlInv => NoEntryLost
      BY DEF DlInv, DlOrder, NoEntryLost
<1> QED
    BY <1>1, <1>2, PTL

(* A download that has its entry for itself and is reported as done by     *)
(* api_dl_status, without error, is complete.                              *)
THEOREM DownloadReports == DownloadsSpec => []DownloadReportIsTrue
<1>1. DownloadsSpec => []DlInv
      BY DlInvInit, DlInvNext, PTL DEF DownloadsSpec
<1>2. DlInv => DownloadReportIsTrue
      BY DEF DlInv, DlAlone, DownloadReportIsTrue
<1> QED
    BY <1>1, <1>2, PTL

=============================================================================
