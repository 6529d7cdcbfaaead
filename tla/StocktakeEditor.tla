--------------------------- MODULE StocktakeEditor ---------------------------
(***************************************************************************)
(* Counts edited in a browser tab (frontend StocktakeDetailPage with the   *)
(* ETag store and the query cache; server stocktake_api and                *)
(* stocktake_service), while other sessions save, post and correct too.    *)
(*                                                                         *)
(* The tab keeps, per count, the last representation it received (the      *)
(* query cache) and the last ETag (the ETag store), and while the page is  *)
(* open the editor's own rows and the version they are saved under.  The   *)
(* server refuses a save whose If-Match is not the count's version.  Only  *)
(* one session is followed in detail; the others save what they saw.       *)
(*                                                                         *)
(* The content of a count is the set of edits in it: users only add, so a  *)
(* revision that lacks an edit of an earlier one has lost it.              *)
(***************************************************************************)
EXTENDS Integers, Sequences, FiniteSets

CONSTANTS
    Counts,      \* stocktakes; each has at most one correction among them
    First,       \* the count that exists at the start
    NoCount,     \* corrects IS NULL
    Elsewhere,   \* the tab shows some other page
    NoData,      \* a query without data
    MaxEdits,    \* bound: edits ever typed
    MaxRevision  \* bound: saves of one count

ASSUME EditorAssumption ==
    /\ First \in Counts
    /\ NoCount \notin Counts /\ Elsewhere \notin Counts
    /\ MaxEdits \in Nat /\ MaxRevision \in Nat

VARIABLES
    server,    \* [Counts -> Stocktake row]; history is the content of each version
    cache,     \* [Counts -> representation or NoData]: query cache
    tags,      \* [Counts -> Nat \cup {-1}]: ETag store, -1 is empty
    editor,    \* the page the tab shows
    get,       \* [Counts -> Get]: retrieval under way
    write,     \* mutation under way: one at a time
    edits      \* edits typed so far

editorVars == <<server, cache, tags, editor, get, write, edits>>
browserVars == <<cache, tags, editor, edits>>

Edits == 1..MaxEdits

CountRow == [status : {"none", "draft", "posted"}, history : Seq(SUBSET Edits),
             corrects : Counts \cup {NoCount}]

Representation == [status : {"draft", "posted"}, lines : SUBSET Edits]

ASSUME NoDataAssumption == NoData \notin Representation

\* fetched says that rows and version were taken from one response.
Editor == [page : Counts \cup {Elsewhere}, mounted : BOOLEAN, rows : SUBSET Edits,
           version : Int, dirty : BOOLEAN, conflicted : BOOLEAN, reloading : BOOLEAN,
           fetched : BOOLEAN]

\* _detail reads the count, whose version is the ETag, and then its lines.
Get == [stage : {"idle", "sent", "tagged", "ready"}, tag : Int,
        data : Representation \cup {NoData}]

\* mounted says that the editor that sent it is still on the page.
Mutation == [stage : {"idle", "sent", "done", "tagged", "ready", "refused"},
             kind : {"save", "post", "correct"}, count : Counts, target : Counts,
             ifMatch : Int, lines : SUBSET Edits, fetched : BOOLEAN, mounted : BOOLEAN,
             tag : Int, data : Representation \cup {NoData}]

NoEditor == [page |-> Elsewhere, mounted |-> FALSE, rows |-> {}, version |-> -1,
             dirty |-> FALSE, conflicted |-> FALSE, reloading |-> FALSE, fetched |-> FALSE]
NoGet == [stage |-> "idle", tag |-> -1, data |-> NoData]
NoWrite == [stage |-> "idle", kind |-> "save", count |-> First, target |-> First,
            ifMatch |-> -1, lines |-> {}, fetched |-> FALSE, mounted |-> FALSE,
            tag |-> -1, data |-> NoData]

Sent == [NoGet EXCEPT !.stage = "sent"]

revision(c) == Len(server[c].history) - 1
Lines(c) == server[c].history[Len(server[c].history)]

EditorInit ==
    /\ server = [c \in Counts |->
          IF c = First
          THEN [status |-> "draft", history |-> <<{}>>, corrects |-> NoCount]
          ELSE [status |-> "none", history |-> <<>>, corrects |-> NoCount]]
    /\ cache = [c \in Counts |-> NoData]
    /\ tags = [c \in Counts |-> -1]
    /\ editor = NoEditor
    /\ get = [c \in Counts |-> NoGet]
    /\ write = NoWrite
    /\ edits = 0

(***************************************************************************)
(* The page                                                                *)
(***************************************************************************)

\* draftRows and snapshotEtag when the editor first renders a representation:
\* the rows are the representation's, the version is the store's.
Mounted(c, data, tag, fetched) ==
    [NoEditor EXCEPT !.page = c, !.mounted = TRUE, !.rows = data.lines,
                     !.version = tag, !.fetched = fetched]

\* The editor after opening the page of c, when the store holds tag for it.
Opened(c, tag) ==
    IF cache[c] = NoData THEN [NoEditor EXCEPT !.page = c]
    ELSE Mounted(c, cache[c], tag, FALSE)

Refetched(c) ==
    IF get[c].stage = "idle" THEN [get EXCEPT ![c] = Sent] ELSE get

\* A missing representation is retrieved; one older than staleTime is too.
OpenGets(c) ==
    IF cache[c] = NoData THEN {Refetched(c)} ELSE {get, Refetched(c)}

\* Callbacks given to mutate() die with the editor that gave them.
Abandoned == [write EXCEPT !.mounted = FALSE]

Open(c) ==
    /\ server[c].status # "none"
    /\ editor.page # c
    /\ editor' = Opened(c, tags[c])
    /\ \E g \in OpenGets(c) : get' = g
    /\ write' = Abandoned
    /\ UNCHANGED <<server, cache, tags, edits>>

Leave ==
    /\ editor.page # Elsewhere
    /\ editor' = NoEditor
    /\ write' = Abandoned
    /\ UNCHANGED <<server, cache, tags, get, edits>>

\* The window regains focus and the representation is stale.
Refocus ==
    /\ editor.page # Elsewhere
    /\ get' = Refetched(editor.page)
    /\ UNCHANGED <<server, browserVars, write>>

ReadOnly == cache[editor.page].status = "posted"

Busy ==
    \/ editor.reloading
    \/ editor.conflicted
    \/ write.stage # "idle" /\ write.mounted

Usable == editor.mounted /\ ~Busy

Edit ==
    /\ Usable /\ ~ReadOnly
    /\ edits < MaxEdits
    /\ edits' = edits + 1
    /\ editor' = [editor EXCEPT !.rows = @ \cup {edits'}, !.dirty = TRUE]
    /\ UNCHANGED <<server, cache, tags, get, write>>

\* Fault: the precondition is the store's, as the interceptor would attach it.
IfMatch_Store == tags[editor.page]

\* The version held beside the rows, not the store's.
IfMatch == editor.version

Send(kind) ==
    /\ write.stage = "idle"
    /\ write' = [NoWrite EXCEPT !.stage = "sent", !.kind = kind,
                               !.count = editor.page, !.target = editor.page,
                               !.ifMatch = IfMatch, !.lines = editor.rows,
                               !.fetched = editor.fetched, !.mounted = TRUE]
    /\ UNCHANGED <<server, cache, tags, editor, get, edits>>

Save == Usable /\ ~ReadOnly /\ editor.dirty /\ Send("save")

Post ==
    /\ Usable /\ ~ReadOnly /\ ~editor.dirty
    /\ editor.rows # {}
    /\ Send("post")

Correct == Usable /\ ReadOnly /\ Send("correct")

\* The user in conflict discards the editor's rows: refetch, cancelling the
\* retrieval under way.
ReloadSaved ==
    /\ editor.mounted /\ editor.conflicted /\ ~editor.reloading
    /\ editor' = [editor EXCEPT !.reloading = TRUE]
    /\ get' = [get EXCEPT ![editor.page] = Sent]
    /\ UNCHANGED <<server, cache, tags, write, edits>>

(***************************************************************************)
(* The server                                                              *)
(***************************************************************************)

Saved(c, lines) == [server EXCEPT ![c].history = Append(@, lines)]

PostedNow(c) == [server EXCEPT ![c].status = "posted", ![c].history = Append(@, Lines(c))]

Corrected(c) == \E d \in Counts : server[d].corrects = c

\* The correction starts from the lines of the original, uncounted; they are
\* content of its own.
CorrectedBy(c, d) ==
    [server EXCEPT ![d] = [status |-> "draft", history |-> <<{}>>, corrects |-> c]]

Refused == write' = [write EXCEPT !.stage = "refused"] /\ UNCHANGED server

Done(target) == write' = [write EXCEPT !.stage = "done", !.target = target]

\* Fault: a save is taken whatever revision it was made from.
require_draft_AnyVersion(c, ifMatch) == server[c].status = "draft"

require_draft(c, ifMatch) == server[c].status = "draft" /\ revision(c) = ifMatch

save_stocktake ==
    LET c == write.count IN
    /\ write.kind = "save"
    /\ \/ /\ require_draft(c, write.ifMatch)
          /\ revision(c) < MaxRevision
          /\ server' = Saved(c, write.lines)
          /\ Done(c)
       \/ /\ ~require_draft(c, write.ifMatch)
          /\ Refused

\* The count that was posted is acknowledged to whoever posted that revision.
post_stocktake ==
    LET c == write.count IN
    /\ write.kind = "post"
    /\ \/ /\ require_draft(c, write.ifMatch)
          /\ server' = PostedNow(c)
          /\ Done(c)
       \/ /\ server[c].status = "posted" /\ write.ifMatch = revision(c) - 1
          /\ UNCHANGED server
          /\ Done(c)
       \/ /\ ~require_draft(c, write.ifMatch)
          /\ ~(server[c].status = "posted" /\ write.ifMatch = revision(c) - 1)
          /\ Refused

correct_stocktake ==
    LET c == write.count IN
    /\ write.kind = "correct"
    /\ \/ /\ write.ifMatch = revision(c) /\ server[c].status = "posted"
          /\ \E d \in Counts :
                \/ /\ server[d].corrects = c
                   /\ UNCHANGED server
                   /\ Done(d)
                \/ /\ ~Corrected(c)
                   /\ server[d].status = "none"
                   /\ server' = CorrectedBy(c, d)
                   /\ Done(d)
       \/ /\ ~(write.ifMatch = revision(c) /\ server[c].status = "posted")
          /\ Refused

\* Another session, on a revision it read whole: save_stocktake with an edit of
\* its own, post_stocktake, or correct_stocktake.
OtherSession(c) ==
    /\ \/ /\ server[c].status = "draft" /\ revision(c) < MaxRevision
          /\ edits < MaxEdits
          /\ edits' = edits + 1
          /\ server' = Saved(c, Lines(c) \cup {edits'})
       \/ /\ server[c].status = "draft" /\ Lines(c) # {}
          /\ server' = PostedNow(c)
          /\ UNCHANGED edits
       \/ /\ server[c].status = "posted" /\ ~Corrected(c)
          /\ \E d \in Counts : /\ server[d].status = "none"
                              /\ server' = CorrectedBy(c, d)
          /\ UNCHANGED edits
    /\ UNCHANGED <<cache, tags, editor, get, write>>

Commit ==
    /\ write.stage = "sent"
    /\ save_stocktake \/ post_stocktake \/ correct_stocktake
    /\ UNCHANGED <<browserVars, get>>

\* _detail in two queries: the header of c, with its status, then its lines.
Tagged(call, c) ==
    [call EXCEPT !.stage = "tagged", !.tag = revision(c),
                 !.data = [status |-> server[c].status, lines |-> {}]]
Read(call, c) == [call EXCEPT !.stage = "ready", !.data.lines = Lines(c)]

Retrieve(c) ==
    /\ \/ /\ get[c].stage = "sent"
          /\ get' = [get EXCEPT ![c] = Tagged(@, c)]
       \/ /\ get[c].stage = "tagged"
          /\ get' = [get EXCEPT ![c] = Read(@, c)]
    /\ UNCHANGED <<server, browserVars, write>>

Render ==
    /\ \/ /\ write.stage = "done"
          /\ write' = Tagged(write, write.target)
       \/ /\ write.stage = "tagged"
          /\ write' = Read(write, write.target)
    /\ UNCHANGED <<server, browserVars, get>>

(***************************************************************************)
(* Answers                                                                 *)
(***************************************************************************)

\* captureResourceVersion: the store takes the tag of every answer.
Captured(c, tag) == [tags EXCEPT ![c] = tag]

\* accepted(saved): the rows are the answer's, and so is the tag just stored.
Accepted(c, data, tag) == Mounted(c, data, tag, TRUE)

GetAnswered(c) ==
    LET call == get[c] IN
    /\ call.stage = "ready"
    /\ tags' = Captured(c, call.tag)
    /\ cache' = [cache EXCEPT ![c] = call.data]
    /\ get' = [get EXCEPT ![c] = NoGet]
    /\ editor' = IF editor.page = c /\ (~editor.mounted \/ editor.reloading)
                 THEN Accepted(c, call.data, tags'[c])
                 ELSE editor
    /\ UNCHANGED <<server, write, edits>>

Released(e) == [e EXCEPT !.reloading = FALSE]

GetLost(c) ==
    /\ get[c].stage # "idle"
    /\ get' = [get EXCEPT ![c] = NoGet]
    /\ editor' = IF editor.page = c THEN Released(editor) ELSE editor
    /\ UNCHANGED <<server, cache, tags, write, edits>>

\* The interceptor stores the tag whoever waits; the rest is the editor's.
WriteAnswered ==
    LET call == write
        d == call.target IN
    /\ call.stage = "ready"
    /\ tags' = Captured(d, call.tag)
    /\ write' = NoWrite
    /\ \/ /\ ~call.mounted
          /\ UNCHANGED <<cache, editor, get>>
       \/ /\ call.mounted /\ call.kind # "correct"
          /\ cache' = [cache EXCEPT ![d] = call.data]
          /\ editor' = Accepted(d, call.data, tags'[d])
          /\ UNCHANGED get
       \/ /\ call.mounted /\ call.kind = "correct"
          /\ editor' = Opened(d, tags'[d])
          /\ \E g \in OpenGets(d) : get' = g
          /\ UNCHANGED cache
    /\ UNCHANGED <<server, edits>>

\* A refusal or a lost answer refreshes the count; only a 412 is a conflict.
WriteFailed(conflict) ==
    LET call == write IN
    /\ write' = NoWrite
    /\ IF call.mounted /\ call.kind # "correct"
       THEN /\ editor' = [editor EXCEPT !.conflicted = conflict]
            /\ get' = [get EXCEPT ![call.count] = Sent]
       ELSE UNCHANGED <<editor, get>>
    /\ UNCHANGED <<server, cache, tags, edits>>

WriteRefused == write.stage = "refused" /\ WriteFailed(TRUE)

WriteLost == write.stage # "idle" /\ WriteFailed(FALSE)

-----------------------------------------------------------------------------

Server == Commit \/ Render \/ \E c \in Counts : Retrieve(c) \/ OtherSession(c)

Answers ==
    \/ WriteAnswered \/ WriteRefused \/ WriteLost
    \/ \E c \in Counts : GetAnswered(c) \/ GetLost(c)

User ==
    \/ Leave \/ Refocus \/ Edit \/ Save \/ Post \/ Correct \/ ReloadSaved
    \/ \E c \in Counts : Open(c)

EditorNext == Server \/ Answers \/ User

EditorSpec == EditorInit /\ [][EditorNext]_editorVars

-----------------------------------------------------------------------------
(***************************************************************************)
(* Properties                                                              *)
(***************************************************************************)

\* Shapes; and snapshotEtag never throws: whoever renders an editor has the
\* representation and the ETag of its count.
EditorTypeOK ==
    /\ server \in [Counts -> CountRow]
    /\ cache \in [Counts -> Representation \cup {NoData}]
    /\ tags \in [Counts -> Int]
    /\ editor \in Editor
    /\ get \in [Counts -> Get]
    /\ write \in Mutation
    /\ edits \in 0..MaxEdits
    /\ editor.mounted => editor.version >= 0 /\ cache[editor.page] # NoData

\* Every save the server accepted keeps the edits of the revisions before it:
\* "Save a complete draft while rejecting stale observations."
NoLostUpdate ==
    \A c \in Counts : \A k \in DOMAIN server[c].history :
        server[c].history[k] \subseteq Lines(c)

\* rows show version v of count c, or a later one, with edits of their own.
Covers(rows, c, v) ==
    \E k \in DOMAIN server[c].history : k > v /\ server[c].history[k] \subseteq rows

\* An editor whose rows and version came from one answer never shows, or sends,
\* content older than the version it names, though _detail reads version and
\* lines in two queries, other tabs save in between, and older answers land late.
FetchedRowsCoverTheirVersion ==
    /\ editor.mounted /\ editor.fetched =>
          Covers(editor.rows, editor.page, editor.version)
    /\ write.stage = "sent" /\ write.fetched =>
          Covers(write.lines, write.count, write.ifMatch)

\* Posting from such an editor posts exactly the rows on its screen, also when
\* the post is a retry that the server only acknowledges.
PostedAsReviewed ==
    /\ write.kind = "post" /\ write.fetched
    /\ write.stage \in {"done", "tagged", "ready"}
    => write.lines = Lines(write.count)

\* An editor that waits for a reload, its buttons disabled, has a request under
\* way whose answer or failure ends the wait, whatever else refetched the count.
ReloadHasARequest ==
    editor.reloading => get[editor.page].stage # "idle"
=============================================================================
