------------------------------- MODULE Reads -------------------------------
(***************************************************************************)
(* Reading from Google page by page, and copying a file to the workspace   *)
(* directory (CalendarService.search_events, DriveReadService.search_files *)
(* and _stream_download_safe, GmailService.search_messages). One read is   *)
(* under way; an action is one call of Google, or of the file system.      *)
(* Google may list an entry twice, list what the service does not show,    *)
(* come back to a page token it gave before, or fail.                      *)
(***************************************************************************)
EXTENDS Naturals, FiniteSets, SequencesExt

CONSTANTS
    Entry,       \* events, files or messages, by their ids
    Hidden,      \* cancelled, a recurrence master, or malformed: not shown
    Token,       \* page tokens
    NoToken,
    Limit,       \* the most a read returns
    MaxSize,     \* max_file_size_bytes, in chunks
    MaxCopies    \* bound: copies that are begun

VARIABLES
    read,        \* the search under way, or its result
    copy,        \* the download under way
    disk         \* what the workspace directory holds

readVars == <<read, copy, disk>>

-----------------------------------------------------------------------------
Service == {"calendar", "drive", "gmail"}

(* listed: what the pages asked for showed; rest: the last of them came    *)
(* with a token; calls: pages asked for; more: truncated, or               *)
(* next_page_token of Drive; log: the audit record.                        *)
NoRead == [service |-> "none", place |-> "idle", token |-> NoToken, seen |-> {}, found |-> {},
           listed |-> {}, rest |-> FALSE, calls |-> 0, more |-> FALSE, log |-> "none"]

NoCopy == [place |-> "idle", size |-> 0, got |-> 0]

Full(found) == Cardinality(found) >= Limit

(* The loop over the entries of a page: what is not shown and what is      *)
(* known is skipped, and it ends when the limit is reached; so it takes    *)
(* what comes while there is room.                                         *)
Earlier(page, j) == {page[i] : i \in 1..(j - 1)} \ {Hidden}

Take(found, page) ==
    found \cup {page[j] : j \in {j \in DOMAIN page :
                    page[j] # Hidden /\ ~Full(found \cup Earlier(page, j))}}

Shown(page) == ToSet(page) \ {Hidden}

(* A page size that does not follow what was found already.                *)
WholeLimit(r) == Limit

(* maxResults: the calendar asks for no more than it has room for.         *)
PageSize(r) == IF r.service = "calendar" THEN Limit - Cardinality(r.found) ELSE Limit

-----------------------------------------------------------------------------
Init ==
    /\ read = NoRead
    /\ copy = NoCopy
    /\ disk = [begun |-> 0, died |-> 0, temps |-> 0, finals |-> {}]

(* The caller of Drive may go on from a token it was given.                *)
Begin(service, token) ==
    /\ read.place = "idle"
    /\ token # NoToken => service = "drive"
    /\ read' = [NoRead EXCEPT !.service = service, !.place = "paging", !.token = token]
    /\ UNCHANGED <<copy, disk>>

(* What became of the read after a page with a token next.                 *)
Listed(page, next) ==
    [read EXCEPT !.found = Take(@, page), !.listed = @ \cup Shown(page), !.calls = @ + 1,
                 !.rest = next # NoToken]

Stop(r, more) == [r EXCEPT !.place = "logging", !.more = more]

(* search_events: it stops when it is full, at the last page, and at a     *)
(* token it has asked with before.                                         *)
CalendarPage(page, next) ==
    LET r == [Listed(page, next) EXCEPT !.seen = @ \cup ({read.token} \ {NoToken})]
    IN  /\ read.service = "calendar" /\ read.place = "paging"
        /\ read' = IF Full(r.found) \/ next = NoToken THEN Stop(r, next # NoToken)
                   ELSE IF next \in r.seen THEN Stop(r, TRUE)
                   ELSE [r EXCEPT !.token = next]
        /\ UNCHANGED <<copy, disk>>

(* search_files: a token that comes again is an error, full or not.        *)
DrivePage(page, next) ==
    LET r == Listed(page, next)
    IN  /\ read.service = "drive" /\ read.place = "paging"
        /\ read' = IF next = NoToken THEN Stop(r, FALSE)
                   ELSE IF next \in r.seen THEN [r EXCEPT !.place = "failed"]
                   ELSE IF Full(r.found) THEN Stop([r EXCEPT !.seen = @ \cup {next}, !.token = next], TRUE)
                   ELSE [r EXCEPT !.seen = @ \cup {next}, !.token = next]
        /\ UNCHANGED <<copy, disk>>

(* search_messages: one page, and then each message of it that has an id.  *)
GmailPage(page, next) ==
    /\ read.service = "gmail" /\ read.place = "paging"
    /\ read' = Stop(Listed(page, next), next # NoToken)
    /\ UNCHANGED <<copy, disk>>

(* The call fails, and so does the read.                                   *)
Fail ==
    /\ read.place = "paging"
    /\ read' = [read EXCEPT !.place = "failed",
                            !.log = IF read.service = "drive" THEN "none" ELSE "failure"]
    /\ UNCHANGED <<copy, disk>>

(* _audit_success: without its record the calendar returns no result; for  *)
(* the others the audit does not matter.                                   *)
Log(recorded) ==
    /\ read.place = "logging"
    /\ read' = [read EXCEPT !.place = IF recorded \/ read.service # "calendar" THEN "done" ELSE "failed",
                            !.log = IF recorded THEN "success" ELSE "none"]
    /\ UNCHANGED <<copy, disk>>

Return ==
    /\ read.place \in {"done", "failed"}
    /\ read' = NoRead
    /\ UNCHANGED <<copy, disk>>

-----------------------------------------------------------------------------
(* download_working_copy, export_working_copy: a name of its own, made     *)
(* with O_EXCL. A size Google does not tell is found out while reading.    *)
BeginCopy(size) ==
    /\ copy = NoCopy
    /\ disk.begun < MaxCopies
    /\ copy' = [place |-> "writing", size |-> size, got |-> 0]
    /\ disk' = [disk EXCEPT !.begun = @ + 1, !.temps = @ + 1]
    /\ UNCHANGED read

(* What the except clause does.                                            *)
Abandon ==
    /\ copy' = NoCopy
    /\ disk' = [disk EXCEPT !.temps = @ - 1]

(* next_chunk, and a look at the size of the file.                         *)
Chunk ==
    /\ copy.place = "writing"
    /\ copy.got < copy.size
    /\ IF copy.got + 1 > MaxSize
       THEN Abandon
       ELSE copy' = [copy EXCEPT !.got = @ + 1] /\ UNCHANGED disk
    /\ UNCHANGED read

(* done: fsync, the checksum, os.replace.                                  *)
Replace ==
    /\ copy.place = "writing"
    /\ copy.got = copy.size
    /\ disk' = [disk EXCEPT !.temps = @ - 1, !.finals = @ \cup {[size |-> copy.size, got |-> copy.got]}]
    /\ copy' = NoCopy
    /\ UNCHANGED read

(* Google or the disk fails.                                               *)
FailCopy ==
    /\ copy # NoCopy
    /\ Abandon
    /\ UNCHANGED read

(* The process dies.                                                       *)
Die ==
    /\ copy # NoCopy
    /\ copy' = NoCopy
    /\ disk' = [disk EXCEPT !.died = @ + 1]
    /\ read' = NoRead

ReadNext ==
    \/ \E service \in Service, token \in Token \cup {NoToken} : Begin(service, token)
    \/ \E page \in SeqOf(Entry \cup {Hidden}, Limit), next \in Token \cup {NoToken} :
          /\ Len(page) <= PageSize(read)
          /\ CalendarPage(page, next) \/ DrivePage(page, next) \/ GmailPage(page, next)
    \/ Fail \/ Return
    \/ \E recorded \in BOOLEAN : Log(recorded)

CopyNext ==
    \/ \E size \in 0..(MaxSize + 1) : BeginCopy(size)
    \/ Chunk \/ Replace \/ FailCopy \/ Die

Next == ReadNext \/ CopyNext

Spec == Init /\ [][Next]_readVars

-----------------------------------------------------------------------------
(* Google never makes a read ask for pages without end, and a result keeps *)
(* the limit. A read that is done says that more is left exactly when      *)
(* Google gave a token with the last page it was asked for. The calendar   *)
(* and Gmail return all that their pages showed, so what they do not say   *)
(* is left is not; and the calendar shows nothing its audit does not have. *)
(* Drive is honest of pages only: it leaves out entries when it is full,   *)
(* also those of the page that filled it, and says so neither there nor,   *)
(* when that was the last page, at all; while it has room it leaves out    *)
(* none (search_events, search_files, search_messages).                    *)
ReadsAreHonest ==
    /\ read.calls <= Cardinality(Token) + 1
    /\ Cardinality(read.found) <= Limit
    /\ read.found \subseteq read.listed
    /\ read.place = "done" =>
          /\ read.more <=> read.rest
          /\ read.found = read.listed \/ (read.service = "drive" /\ Full(read.found))
          /\ read.service = "calendar" => read.log = "success"
          /\ read.service = "drive" /\ read.more => Full(read.found)

(* A file that has its name is whole and no larger than allowed, whatever  *)
(* failed or died; what remains of the others is a temporary file of each  *)
(* process that died (_stream_download_safe).                              *)
CopiesAreWhole ==
    /\ \A f \in disk.finals : f.got = f.size /\ f.size <= MaxSize
    /\ disk.temps = disk.died + (IF copy = NoCopy THEN 0 ELSE 1)
=============================================================================
