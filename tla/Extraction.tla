----------------------------- MODULE Extraction -----------------------------
(***************************************************************************)
(* The archive extraction started from the web page (/api/extract in       *)
(* http_api.c, built with libarchive).                                     *)
(*                                                                         *)
(* g_extract is one global record of volatile flags and paths.  The event  *)
(* loop clears and fills it and sets its cancelled flag; the detached      *)
(* thread of an extraction reads the paths from it and stores its result.  *)
(* An archive is the number of its entries.                                *)
(***************************************************************************)
EXTENDS Integers

CONSTANTS
  MaxExtractions,   \* bound on the extractions started
  MaxEntries        \* bound on the entries of an archive

ASSUME ExtractionAssumption == MaxExtractions \in Nat /\ MaxEntries \in Nat

Extract == 1 .. MaxExtractions

VARIABLES
  xActive, xDone, xError, xCancelled,   \* the flags of g_extract
  extractions,   \* how many extractions got a thread
  xPc,           \* where the thread of an extraction is in extract_thread
  left,          \* the entries its archive still holds
  short          \* history: an entry was skipped or not written whole

xVars == <<xActive, xDone, xError, xCancelled, extractions, xPc, left, short>>

ExtractFlagsOK ==
  /\ xActive \in BOOLEAN /\ xDone \in BOOLEAN
  /\ xError \in BOOLEAN /\ xCancelled \in BOOLEAN

ExtractionTypeOK ==
  /\ ExtractFlagsOK
  /\ extractions \in 0 .. MaxExtractions
  /\ xPc \in [Extract -> {"none", "open", "entry", "data", "close", "clear", "exit"}]
  /\ left \in [Extract -> 0 .. MaxEntries]
  /\ short \in [Extract -> BOOLEAN]

ExtractionInit ==
  /\ xActive = FALSE /\ xDone = FALSE /\ xError = FALSE /\ xCancelled = FALSE
  /\ extractions = 0
  /\ xPc = [k \in Extract |-> "none"]
  /\ left = [k \in Extract |-> 0]
  /\ short = [k \in Extract |-> FALSE]

-----------------------------------------------------------------------------
(* The handlers, on the thread of the event loop.                          *)

\* api_extract past its checks of the request.
api_extract ==
  /\ ~xActive
  /\ xDone' = FALSE /\ xError' = FALSE /\ xCancelled' = FALSE
  /\ \/ /\ extractions < MaxExtractions
        /\ extractions' = extractions + 1
        /\ xPc' = [xPc EXCEPT ![extractions + 1] = "open"]
        /\ \E n \in 0 .. MaxEntries : left' = [left EXCEPT ![extractions + 1] = n]
        /\ xActive' = TRUE
     \/ \* pthread_create fails
        /\ xActive' = FALSE
        /\ UNCHANGED <<extractions, xPc, left>>
  /\ UNCHANGED short

api_extract_cancel ==
  /\ xCancelled' = TRUE
  /\ UNCHANGED <<xActive, xDone, xError, extractions, xPc, left, short>>

-----------------------------------------------------------------------------
(* The thread of extraction k.                                             *)

XGoto(k, from, to) ==
  /\ xPc[k] = from
  /\ xPc' = [xPc EXCEPT ![k] = to]
  /\ UNCHANGED extractions

XFails(k, from) ==
  /\ XGoto(k, from, "close")
  /\ xError' = TRUE
  /\ UNCHANGED <<xActive, xDone, xCancelled, left, short>>

ArchiveOpened(k) ==
  /\ XGoto(k, "open", "entry")
  /\ UNCHANGED <<xActive, xDone, xError, xCancelled, left, short>>

ArchiveNotOpened(k) == XFails(k, "open")

\* The loop ends: cancelled, or at the end of the archive.
ExtractLoopEnds(k) ==
  /\ XGoto(k, "entry", "close")
  /\ xCancelled \/ left[k] = 0
  /\ UNCHANGED <<xActive, xDone, xError, xCancelled, left, short>>

HeaderFails(k) == ~xCancelled /\ XFails(k, "entry")

\* An entry with data, one without, and one whose header cannot be written.
NextEntry(k) ==
  /\ ~xCancelled
  /\ left[k] > 0
  /\ left' = [left EXCEPT ![k] = @ - 1]
  /\ \/ XGoto(k, "entry", "data") /\ UNCHANGED short
     \/ XGoto(k, "entry", "entry") /\ UNCHANGED short
     \/ XGoto(k, "entry", "entry") /\ short' = [short EXCEPT ![k] = TRUE]
  /\ UNCHANGED <<xActive, xDone, xError, xCancelled>>

\* All blocks are written; or cancel, or an error that is not reported, ends
\* the loop over the blocks early.
EntryEnds(k) ==
  /\ XGoto(k, "data", "entry")
  /\ \E whole \in BOOLEAN : short' = [short EXCEPT ![k] = @ \/ ~whole]
  /\ UNCHANGED <<xActive, xDone, xError, xCancelled, left>>

\* Variant: active is cleared first, as in copy_thread_fn.
XStoreActiveFirst(k) ==
  /\ XGoto(k, "close", "clear")
  /\ xActive' = FALSE
  /\ UNCHANGED <<xDone, xError, xCancelled, left, short>>

XStoreDone(k) ==
  /\ XGoto(k, "close", "clear")
  /\ xDone' = TRUE
  /\ UNCHANGED <<xActive, xError, xCancelled, left, short>>

XClearActive(k) ==
  /\ XGoto(k, "clear", "exit")
  /\ xActive' = FALSE
  /\ UNCHANGED <<xDone, xError, xCancelled, left, short>>

extract_thread(k) ==
  \/ ArchiveOpened(k) \/ ArchiveNotOpened(k)
  \/ ExtractLoopEnds(k) \/ HeaderFails(k) \/ NextEntry(k) \/ EntryEnds(k)
  \/ XStoreDone(k) \/ XClearActive(k)

ExtractionNext ==
  \/ api_extract \/ api_extract_cancel
  \/ \E k \in Extract : extract_thread(k)

ExtractionSpec == ExtractionInit /\ [][ExtractionNext]_xVars

-----------------------------------------------------------------------------

Extracting(k) == xPc[k] \notin {"none", "exit"}

(* Because done is stored before active, a new extraction never meets the  *)
(* thread of the last one, and what api_extract_progress reports is always *)
(* about the extraction last started: done without error or cancel means   *)
(* that every entry of its archive was handled.                            *)
ExtractReportIsTrue ==
  /\ \A j, k \in Extract : Extracting(j) /\ Extracting(k) => j = k
  /\ xDone /\ ~xError /\ ~xCancelled =>
       /\ extractions > 0
       /\ xPc[extractions] \in {"clear", "exit"}
       /\ left[extractions] = 0

=============================================================================
