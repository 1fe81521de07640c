------------------------------ MODULE WebServe ------------------------------
(***************************************************************************)
(* AsyncWebServer: which handler a request gets (WebServer.cpp), what the  *)
(* two kinds of handlers do with it (WebHandlers.cpp, WebHandlerImpl.h),   *)
(* and the browser that keeps what it was sent.  A url, a path or a        *)
(* pattern is the sequence of its characters.  A GET has no body and is    *)
(* answered where it is read; the body of a POST is neither a form nor     *)
(* multipart, and comes in pieces.                                         *)
(***************************************************************************)
EXTENDS Integers, SequencesExt, FiniteSetsExt, TLC

CONSTANTS
    Config,         \* of each handler: [kind, uri, path, isDir, file, cached,
                    \*   modified, locked, method]
    Rewrites,       \* [from, to]
    Urls, Pieces,   \* what browsers ask for, and in how many pieces a POST comes
    Paths,          \* the file system's
    Contents, Size, \* of files
    MaxWrites       \* bound on the program's changes

VARIABLES
    handlers,       \* _handlers, in order
    rewrites,       \* _rewrites
    files,          \* a content for each path, or "none"
    gzipStats, gzipFirst,   \* of each static handler; the statistics as bits
    request,        \* the request in progress
    answers,        \* the responses it got
    copy,           \* the browser's cache: [content, etag, modified], for each url
    gets,           \* handleBody() calls that reached the program
    writes

serveVars == <<handlers, rewrites, files, gzipStats, gzipFirst, request, answers, copy, gets, writes>>

Handlers == DOMAIN Config
CatchAll == "_catchAllHandler"
None == "none"
Gz == ".gz"
NoRequest == [handler |-> None]

StartsWith(s, p) == IsPrefix(p, s)
WithSlash(s) == IF s = <<>> \/ Last(s) # "/" THEN Append(s, "/") ELSE s
NoSlash(s) == IF s # <<>> /\ Last(s) = "/" THEN Front(s) ELSE s

-----------------------------------------------------------------------------
\* mutant: the form that the statistics prefer is the only one looked for
FoundPreferred(h, path) ==
    {p \in {IF gzipFirst[h] THEN Append(path, Gz) ELSE path} : p \in Paths /\ files[p] # None}

\* _fileExists(): the file, or its .gz, in the order the statistics suggest.
Found(h, path) ==
    LET have == {p \in {path, Append(path, Gz)} : p \in Paths /\ files[p] # None}
        first == IF gzipFirst[h] THEN Append(path, Gz) ELSE path
    IN  IF first \in have THEN {first} ELSE have

\* _getFile(): the path behind the uri, or the default file in it.
GetFile(h, url) ==
    LET c == Config[h]
        rest == SubSeq(url, Len(NoSlash(c.uri)) + 1, Len(url))
        path == NoSlash(c.path) \o rest
        skip == (c.isDir /\ rest = <<>>) \/ (rest # <<>> /\ Last(rest) = "/")
        plain == IF skip THEN {} ELSE Found(h, path)
    IN  IF plain # {} THEN plain
        ELSE IF c.file = <<>> THEN {}
        ELSE Found(h, WithSlash(path) \o c.file)

\* canHandle() of a static and of a callback handler.
Matches(c, url) ==
    \/ c.uri = <<>>
    \/ StartsWith(c.uri, <<"/", "*", ".">>) /\ IsSuffix(SubSeq(c.uri, 3, Len(c.uri)), url)
    \/ /\ ~StartsWith(c.uri, <<"/", "*", ".">>) /\ c.uri # <<>>
       /\ IF Last(c.uri) = "*" THEN StartsWith(url, Front(c.uri))
          ELSE url = c.uri \/ StartsWith(url, Append(c.uri, "/"))
CanHandle(h, url, method) ==
    LET c == Config[h]
    IN  IF c.kind = "static"
        THEN method = "GET" /\ StartsWith(url, NoSlash(c.uri)) /\ GetFile(h, url) # {}
        ELSE method \in c.method /\ Matches(c, url)

\* _rewriteRequest(): each rule sees what the ones before it made of the url.
Rewritten(url) == FoldLeft(LAMBDA u, r : IF r.from = u THEN r.to ELSE u, url, rewrites)

\* _attachHandler()
Attached(url, method) ==
    LET can == {i \in DOMAIN handlers : CanHandle(handlers[i], url, method)}
    IN  IF can = {} THEN CatchAll ELSE handlers[Min(can)]

\* _fileExists()' statistics: of the last eight files, how many were compressed.
Counted(stats, gz) == Append(Tail(stats), gz)
PrefersGz(stats) == Cardinality({i \in DOMAIN stats : stats[i]}) > 4

-----------------------------------------------------------------------------
Allowed(h, auth) == h = CatchAll \/ ~Config[h].locked \/ auth

\* The copy has the date that setLastModified() gave the handler, whatever its content.
Dated(h, kept) ==
    h # CatchAll /\ Config[h].modified # None /\ Config[h].modified = kept.modified

\* handleRequest(): what h answers; file is _tempFile, kept the copy that the request's
\* If-Modified-Since and If-None-Match are of.
Answer(h, auth, file, kept) ==
    IF h = CatchAll THEN [code |-> 500]         \* no onNotFound() was set
    ELSE IF ~Allowed(h, auth) THEN [code |-> 401]
    ELSE IF Config[h].kind = "callback" THEN [code |-> 200]
    ELSE IF \/ Dated(h, kept)
            \/ Config[h].cached /\ kept.etag = Size[files[file]] THEN [code |-> 304]
    ELSE [code |-> 200, content |-> files[file], modified |-> Config[h].modified,
          etag |-> IF Config[h].cached THEN Size[files[file]] ELSE 0]

NoCopy == [content |-> None, etag |-> 0, modified |-> None]
\* The browser keeps what has a tag or a date, and asks again with them.
Kept(url, answer) ==
    IF answer.code # 200 \/ "content" \notin DOMAIN answer THEN copy
    ELSE [copy EXCEPT ![url] = IF answer.etag = 0 /\ answer.modified = None THEN NoCopy
                               ELSE [content |-> answer.content, etag |-> answer.etag,
                                     modified |-> answer.modified]]

\* A GET's headers have come.
Get(url, auth) ==
    /\ request.handler = None
    /\ LET to == Rewritten(url)
           h == Attached(to, "GET")
           static == h # CatchAll /\ Config[h].kind = "static"
           file == IF static THEN CHOOSE p \in GetFile(h, to) : TRUE ELSE <<>>
           stats == Counted(gzipStats[h], Last(file) = Gz)
           answer == Answer(h, auth, file, copy[url])
       IN  /\ IF static THEN /\ gzipStats' = [gzipStats EXCEPT ![h] = stats]
                             /\ gzipFirst' = [gzipFirst EXCEPT ![h] = PrefersGz(stats)]
              ELSE UNCHANGED <<gzipStats, gzipFirst>>
           /\ request' = [handler |-> None, url |-> url, to |-> to, file |-> file]
           /\ answers' = <<answer>>
           /\ copy' = Kept(url, answer)
    /\ UNCHANGED <<handlers, rewrites, files, gets, writes>>

\* A POST's headers have come; then its body, a piece at a time.
Post(url, auth, pieces) ==
    /\ request.handler = None
    /\ request' = [handler |-> Attached(Rewritten(url), "POST"), auth |-> auth,
                   pieces |-> pieces, left |-> pieces]
    /\ answers' = <<>> /\ gets' = 0
    /\ UNCHANGED <<handlers, rewrites, files, gzipStats, gzipFirst, copy, writes>>

Live(h) == h = CatchAll \/ h \in Range(handlers)
\* mutant: the upload of a refused request still reaches the program
BodyStill ==
    /\ request.handler # None /\ Live(request.handler)
    /\ LET last == request.left = 1
       IN  /\ answers' = answers \o (IF last THEN <<Answer(request.handler, request.auth, <<>>, NoCopy)>>
                                     ELSE <<[code |-> 401]>>)
           /\ gets' = gets + 1
           /\ request' = IF last THEN [request EXCEPT !.handler = None, !.left = 0]
                         ELSE [request EXCEPT !.left = @ - 1]
    /\ UNCHANGED <<handlers, rewrites, files, gzipStats, gzipFirst, copy, writes>>

Body ==
    /\ request.handler # None /\ Live(request.handler)
    /\ LET h == request.handler
           last == request.left = 1
           refused == IF Allowed(h, request.auth) THEN <<>> ELSE <<[code |-> 401]>>
       IN  /\ answers' = answers \o refused
                         \o (IF last THEN <<Answer(h, request.auth, <<>>, NoCopy)>> ELSE <<>>)
           /\ gets' = IF h # CatchAll /\ refused = <<>> THEN gets + 1 ELSE gets
           /\ request' = IF last THEN [request EXCEPT !.handler = None, !.left = 0]
                         ELSE [request EXCEPT !.left = @ - 1]
    /\ UNCHANGED <<handlers, rewrites, files, gzipStats, gzipFirst, copy, writes>>

\* The program: addHandler() (on(), serveStatic()), removeHandler(), which deletes
\* the handler even where a request uses it, rewrites, reset(), files.
Change(w) == writes < MaxWrites /\ writes' = writes + 1 /\ w
AddHandler(h) ==
    /\ h \notin Range(handlers) /\ handlers' = Append(handlers, h)
    /\ gzipStats' = [gzipStats EXCEPT ![h] = [i \in 1..8 |-> i <= 5]]
    /\ gzipFirst' = [gzipFirst EXCEPT ![h] = FALSE]
    /\ UNCHANGED <<rewrites, files, request, answers, copy, gets>>
RemoveHandler(h) ==
    /\ \E i \in DOMAIN handlers : handlers[i] = h /\ handlers' = RemoveAt(handlers, i)
    /\ UNCHANGED <<rewrites, files, gzipStats, gzipFirst, request, answers, copy, gets>>
AddRewrite(r) ==
    /\ r \notin Range(rewrites) /\ rewrites' = Append(rewrites, r)
    /\ UNCHANGED <<handlers, files, gzipStats, gzipFirst, request, answers, copy, gets>>
RemoveRewrite(r) ==
    /\ \E i \in DOMAIN rewrites : rewrites[i] = r /\ rewrites' = RemoveAt(rewrites, i)
    /\ UNCHANGED <<handlers, files, gzipStats, gzipFirst, request, answers, copy, gets>>
Reset ==
    /\ handlers # <<>> /\ handlers' = <<>> /\ rewrites' = <<>>
    /\ UNCHANGED <<files, gzipStats, gzipFirst, request, answers, copy, gets>>
WriteFile(p, c) ==
    /\ files[p] # c /\ files' = [files EXCEPT ![p] = c]
    /\ UNCHANGED <<handlers, rewrites, gzipStats, gzipFirst, request, answers, copy, gets>>

\* The use of a deleted handler: anything may happen, and the request is over.
Stray ==
    /\ request.handler # None /\ ~Live(request.handler)
    /\ request' = NoRequest /\ answers' = <<>>
    /\ UNCHANGED <<handlers, rewrites, files, gzipStats, gzipFirst, copy, gets, writes>>

Init ==
    /\ handlers \in {<<>>} \cup {SetToSeq(Handlers \ {h}) : h \in Handlers} /\ rewrites = <<>>
    /\ files \in [Paths -> {None} \cup Contents]
    /\ gzipStats = [h \in Handlers |-> [i \in 1..8 |-> i <= 5]]
    /\ gzipFirst = [h \in Handlers |-> FALSE]
    /\ request = NoRequest /\ answers = <<>> /\ gets = 0 /\ writes = 0
    /\ copy = [u \in Urls |-> NoCopy]

Next ==
    \/ \E u \in Urls, a \in BOOLEAN : Get(u, a) \/ \E n \in Pieces : Post(u, a, n)
    \/ Body \/ Stray
    \/ \E h \in Handlers : Change(AddHandler(h)) \/ Change(RemoveHandler(h))
    \/ \E r \in Rewrites : Change(AddRewrite(r)) \/ Change(RemoveRewrite(r))
    \/ Change(Reset)
    \/ \E p \in Paths, c \in {None} \cup Contents : Change(WriteFile(p, c))

Spec == Init /\ [][Next]_serveVars

-----------------------------------------------------------------------------
\* A handler is listed once, a request is answered by somebody.
TypeOK ==
    /\ IsInjective(handlers) /\ IsInjective(rewrites)
    /\ request.handler \in Handlers \cup {None, CatchAll}
    /\ \A i \in DOMAIN answers : answers[i].code \in {200, 304, 401, 500}

\* "Not modified" is only said to a browser that holds what a full response would
\* bring now, whichever handler, file and compressed form it had it from, when no
\* two contents have the same size (the tag is the size) and the handler has no
\* date: setLastModified() keeps its date when the file changes.
NotModifiedIsTrue ==
    [][\A i \in DOMAIN answers' :
          answers' # answers /\ answers'[i].code = 304 =>
             \/ copy[request'.url].content = files[request'.file]
             \/ Dated(Attached(request'.to, "GET"), copy[request'.url])]_serveVars

\* A request has one response, but for a body in pieces that is refused piece by
\* piece; and no piece of a refused one reaches the program.
AnsweredOnce ==
    request.handler = None /\ answers # <<>> =>
        \/ Len(answers) = 1
        \/ /\ request.auth = FALSE /\ gets = 0
           /\ \A i \in DOMAIN answers : answers[i].code = 401

\* The url that was asked for reaches a file by one rule for all: the first
\* handler that has it, plain or compressed.  What was served before does not
\* matter to whether it is found.
Reaches(h, url) ==
    LET c == Config[h]
        tail == SubSeq(url, Len(NoSlash(c.uri)) + 1, Len(url))
        names == (IF (tail = <<>> /\ c.isDir) \/ (tail # <<>> /\ Last(tail) = "/") THEN {}
                  ELSE {NoSlash(c.path) \o tail})
                 \cup (IF c.file = <<>> THEN {} ELSE {WithSlash(NoSlash(c.path) \o tail) \o c.file})
    IN  /\ c.kind = "static" /\ StartsWith(url, NoSlash(c.uri))
        /\ \E n \in names : \E p \in {n, Append(n, Gz)} : p \in Paths /\ files[p] # None
FilesAreFound ==
    [][<<request', answers'>> # <<request, answers>> /\ "to" \in DOMAIN request' =>
          (answers'[1].code = 500 =>
             \A i \in DOMAIN handlers : ~Reaches(handlers[i], request'.to))]_serveVars
=============================================================================
