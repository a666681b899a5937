----------------------------- MODULE Downloads ------------------------------
(***************************************************************************)
(* The download manager (/api/download/* in http_api.c).                   *)
(*                                                                         *)
(* g_downloads is a table of entries of plain integers.  The event loop    *)
(* fills, pauses and cancels entries; the detached thread of a download    *)
(* works on the entry it was started with, through a pointer, whatever the *)
(* event loop does with that entry meanwhile.  A download and its thread   *)
(* are named by the id.  Compiled, the stores of a thread happen in the    *)
(* order of the program, or two at once, which only skips a state.         *)
(*                                                                         *)
(* The transfer is made by pal_curl.c, which calls a callback that asks    *)
(* for a pause again a number of times and then gives up.  With libcurl,   *)
(* on other systems than the consoles, such a transfer stays where it is   *)
(* until curl_easy_pause, which nothing calls: its behaviours are those in *)
(* which a thread that is "held" takes no further step.                    *)
(***************************************************************************)
EXTENDS Integers, FiniteSets

CONSTANTS
  NSlots,         \* DL_MAX_ACTIVE
  MaxDownloads    \* bound on g_dl_next_id

ASSUME DownloadsAssumption == NSlots \in Nat /\ MaxDownloads \in Nat

Slot == 1 .. NSlots
Download == 1 .. MaxDownloads

VARIABLES
  entry,      \* g_downloads: the flags and the id of each entry
  nextId,     \* g_dl_next_id
  dlPc,       \* where the thread of a download is in dl_thread
  dlSlot,     \* the entry its thread points to
  got,        \* what the file of a download holds
  crowded     \* history: entries given away while an older thread used them

dlVars == <<entry, nextId, dlPc, dlSlot, got, crowded>>

EntryOf(id, act) ==
  [active |-> act, done |-> FALSE, paused |-> FALSE, error |-> FALSE, id |-> id]

DownloadsTypeOK ==
  /\ entry \in [Slot -> [active : BOOLEAN, done : BOOLEAN, paused : BOOLEAN,
                         error : BOOLEAN, id : 0 .. MaxDownloads]]
  /\ nextId \in 1 .. MaxDownloads + 1
  /\ dlPc \in [Download -> {"none", "open", "perform", "held", "mark", "clear", "exit"}]
  /\ dlSlot \in [Download -> 0 .. NSlots]
  /\ got \in [Download -> {"nothing", "part", "whole"}]
  /\ crowded \in SUBSET Slot

DownloadsInit ==
  /\ entry = [s \in Slot |-> EntryOf(0, FALSE)]
  /\ nextId = 1
  /\ dlPc = [d \in Download |-> "none"]
  /\ dlSlot = [d \in Download |-> 0]
  /\ got = [d \in Download |-> "nothing"]
  /\ crowded = {}

\* The thread of d may still read or write the entry it was started with.
Uses(d, s) == dlSlot[d] = s /\ dlPc[d] \notin {"none", "exit"}

-----------------------------------------------------------------------------
(* The handlers, on the thread of the event loop.                          *)

First(s, S) == s \in S /\ \A r \in S : s <= r

\* The first unused entry, else the first whose done flag is set.
dl_find_slot(s) ==
  LET unused    == {r \in Slot : ~entry[r].active /\ ~entry[r].done}
      completed == {r \in Slot : entry[r].done}
  IN  IF unused # {} THEN First(s, unused) ELSE First(s, completed)

\* Variant: the entry stays taken when no thread can be created.
DlStartKeepsActive(created) ==
  /\ nextId \in Download
  /\ \E s \in Slot :
        /\ dl_find_slot(s)
        /\ entry' = [entry EXCEPT ![s] = EntryOf(nextId, TRUE)]
        /\ dlSlot' = [dlSlot EXCEPT ![nextId] = s]
        /\ dlPc' = [dlPc EXCEPT ![nextId] = IF created THEN "open" ELSE "exit"]
        /\ crowded' = IF \E d \in Download : Uses(d, s) THEN crowded \cup {s}
                                                        ELSE crowded \ {s}
  /\ nextId' = nextId + 1
  /\ UNCHANGED got

\* The request has a supported URL and destination.  created tells whether
\* pthread_create succeeds; a thread that could not be created is "exit".
api_dl_start(created) ==
  /\ nextId \in Download
  /\ \E s \in Slot :
        /\ dl_find_slot(s)
        /\ entry' = [entry EXCEPT ![s] = EntryOf(nextId, created)]
        /\ dlSlot' = [dlSlot EXCEPT ![nextId] = s]
        /\ dlPc' = [dlPc EXCEPT ![nextId] = IF created THEN "open" ELSE "exit"]
        /\ crowded' = IF \E d \in Download : Uses(d, s) THEN crowded \cup {s}
                                                        ELSE crowded \ {s}
  /\ nextId' = nextId + 1
  /\ UNCHANGED got

\* The first entry with this id; an unused entry has id 0.
dl_find_by_id(id, s) == First(s, {r \in Slot : entry[r].id = id})

api_dl_pause(id) ==
  /\ \E s \in Slot :
        /\ dl_find_by_id(id, s)
        /\ entry' = [entry EXCEPT ![s].paused = ~@]
  /\ UNCHANGED <<nextId, dlPc, dlSlot, got, crowded>>

\* Nothing tells the thread: it keeps running.
api_dl_cancel(id) ==
  /\ \E s \in Slot :
        /\ dl_find_by_id(id, s)
        /\ entry' = [entry EXCEPT ![s] = [@ EXCEPT !.error = TRUE, !.done = TRUE,
                                                   !.active = FALSE]]
  /\ UNCHANGED <<nextId, dlPc, dlSlot, got, crowded>>

-----------------------------------------------------------------------------
(* The thread of download d.                                               *)

DlGoto(d, from, to) ==
  /\ dlPc[d] = from
  /\ dlPc' = [dlPc EXCEPT ![d] = to]
  /\ UNCHANGED <<nextId, dlSlot, crowded>>

DlFails(d, from) ==
  /\ DlGoto(d, from, "mark")
  /\ entry' = [entry EXCEPT ![dlSlot[d]].error = TRUE]
  /\ UNCHANGED got

\* open() or curl_easy_init() fails.
OpenFails(d) == DlFails(d, "open")

Opened(d) ==
  /\ DlGoto(d, "open", "perform")
  /\ got' = [got EXCEPT ![d] = "part"]
  /\ UNCHANGED entry

PerformOk(d) ==
  /\ DlGoto(d, "perform", "mark")
  /\ got' = [got EXCEPT ![d] = "whole"]
  /\ UNCHANGED entry

\* Variant: the result of the transfer is not looked at.
PerformFailsSilently(d) ==
  /\ DlGoto(d, "perform", "mark")
  /\ UNCHANGED <<entry, got>>

PerformFails(d) == DlFails(d, "perform")

\* dl_curl_write returns CURL_WRITEFUNC_PAUSE.
PauseSeen(d) ==
  /\ DlGoto(d, "perform", "held")
  /\ entry[dlSlot[d]].paused
  /\ UNCHANGED <<entry, got>>

\* pal_curl calls the callback again: it may find the pause lifted ...
PauseLifted(d) ==
  /\ DlGoto(d, "held", "perform")
  /\ ~entry[dlSlot[d]].paused
  /\ UNCHANGED <<entry, got>>

\* ... and gives up after PAL_PAUSE_MAX_RETRIES times.
PauseAborts(d) ==
  /\ DlFails(d, "held")
  /\ entry[dlSlot[d]].paused

MarkDone(d) ==
  /\ DlGoto(d, "mark", "clear")
  /\ entry' = [entry EXCEPT ![dlSlot[d]].done = TRUE]
  /\ UNCHANGED got

MarkInactive(d) ==
  /\ DlGoto(d, "clear", "exit")
  /\ entry' = [entry EXCEPT ![dlSlot[d]].active = FALSE]
  /\ UNCHANGED got

dl_thread(d) ==
  \/ OpenFails(d) \/ Opened(d)
  \/ PerformOk(d) \/ PerformFails(d) \/ PauseSeen(d) \/ PauseLifted(d) \/ PauseAborts(d)
  \/ MarkDone(d) \/ MarkInactive(d)

DownloadsNext ==
  \/ \E created \in BOOLEAN : api_dl_start(created)
  \/ \E id \in 0 .. MaxDownloads : api_dl_pause(id) \/ api_dl_cancel(id)
  \/ \E d \in Download : dl_thread(d)

DownloadsSpec == DownloadsInit /\ [][DownloadsNext]_dlVars

\* Threads are scheduled; a transfer ends, by its connection or the low-speed
\* limit; a pause that is never lifted exhausts the retries of pal_curl.
DownloadsFairness ==
  \A d \in Download :
    /\ WF_dlVars(dl_thread(d))
    /\ SF_dlVars(PerformOk(d) \/ PerformFails(d))

-----------------------------------------------------------------------------

(* api_dl_status tells the truth about a download that has its entry for   *)
(* itself: reported done without an error, its thread has written the      *)
(* whole file.  It fails once an entry was reused while the thread of a    *)
(* cancelled download, or one between its two last stores, still used it.  *)
DownloadReportIsTrue ==
  \A s \in Slot \ crowded : \A d \in Download :
    entry[s].id = d /\ entry[s].done /\ ~entry[s].error =>
      dlPc[d] \in {"clear", "exit"} /\ got[d] = "whole"

(* No entry is lost: one that dl_find_slot will not give away belongs to a *)
(* thread that still runs and will release it, crowded or not.             *)
NoEntryLost ==
  \A s \in Slot : entry[s].active => \E d \in Download : Uses(d, s)

(* With pal_curl every download ends, however it is paused: the retry      *)
(* limit bounds the wait that once looped forever (pal_curl.c, 66-69).     *)
PausedDownloadEnds ==
  \A d \in Download : (dlPc[d] = "open") ~> (dlPc[d] = "exit")

=============================================================================
