------------------------------ MODULE HttpParser ------------------------------
(***************************************************************************)
(* The HTTP request parser of http_conn (POST-Webserver/.../http_conn.cpp): *)
(* the line splitter parse_line() and the state machine process_read()     *)
(* with parse_request_line(), parse_headers() and parse_content(), run     *)
(* again on the same users[fd] each time read_once() has appended bytes.   *)
(*                                                                         *)
(* Bytes are symbols.  CR, LF and NUL are the bytes parse_line() tests and *)
(* writes; every other byte is an atom standing for a run of text that the *)
(* line parsers classify alike.  A request line is one atom whose words   *)
(* RequestLines gives; "KA" the header Connection: keep-alive, "CL1"/"CL2" the header *)
(* Content-length: 1/2, "HOST" a Host header, "b" a body byte.             *)
(***************************************************************************)
EXTENDS Integers, Sequences, SequencesExt

CONSTANTS Messages,     \* the byte sequences a client may send, one request each
          RequestLines, \* RequestLines[a]: the words, split at blanks, of the
                        \* request-line atom a; the URL word is a sequence of
                        \* parts: "http://", "https://", "/" or a run of other
                        \* characters such as "host" or "a"
          DocRoot       \* DocRoot[path]: what stat() finds under doc_root:
                        \* "file", "dir", "private" (not S_IROTH) or
                        \* "privatedir"; a path not in its domain is missing

CR == "CR"
LF == "LF"
NUL == "NUL"

VARIABLES msg,    \* the request the client sends
          p,      \* the parser fields of users[fd], see ParserInit
          fresh   \* read_once() appended bytes that process() has not seen

vars == <<msg, p, fresh>>

(* http_conn::init(): m_check_state = CHECK_STATE_REQUESTLINE and every    *)
(* index 0.  buf is m_read_buf[0 .. m_read_idx-1], so m_read_idx is        *)
(* Len(buf); checked and start are m_checked_idx and m_start_line; ls is   *)
(* process_read()'s local line_status; ret its result.                     *)
ParserInit ==
    [buf |-> <<>>, checked |-> 0, start |-> 0, state |-> "REQUESTLINE",
     cl |-> 0, linger |-> FALSE, method |-> "GET", url |-> <<>>, body |-> <<>>,
     ls |-> "OK", ret |-> "NONE"]

(* get_line(): the text from m_start_line up to the first NUL.             *)
GetLine(q) ==
    LET s == SubSeq(q.buf, q.start + 1, Len(q.buf))
        n == SelectInSeq(s, LAMBDA x : x = NUL)
    IN IF n = 0 THEN s ELSE SubSeq(s, 1, n - 1)

(* m_read_buf[i-1]: init() zeroes the buffer, so past m_read_idx it is NUL *)
Byte(q, i) == IF i <= Len(q.buf) THEN q.buf[i] ELSE NUL

(* mutant: the loop runs while m_checked_idx <= m_read_idx                 *)
ScannedPastEnd(q) == q.checked > Len(q.buf)

(* parse_line()'s loop ends when m_checked_idx reaches m_read_idx.         *)
Scanned(q) == q.checked >= Len(q.buf)

(* One pass of parse_line()'s loop at m_checked_idx (buf index i).  "SCAN" *)
(* means the byte is plain text and the loop goes on.                      *)
ParseLineStep(q) ==
    LET i == q.checked + 1
    IN IF Scanned(q) THEN [q EXCEPT !.ls = "OPEN"]
       ELSE IF Byte(q, i) = CR /\ i = Len(q.buf) THEN [q EXCEPT !.ls = "OPEN"]
       ELSE IF Byte(q, i) = CR /\ Byte(q, i + 1) = LF
            THEN [q EXCEPT !.buf = [@ EXCEPT ![i] = NUL, ![i + 1] = NUL],
                           !.checked = @ + 2, !.ls = "OK"]
       ELSE IF Byte(q, i) = CR THEN [q EXCEPT !.ls = "BAD"]
       ELSE IF Byte(q, i) = LF /\ q.checked > 1 /\ Byte(q, i - 1) = CR
            THEN [q EXCEPT !.buf = [@ EXCEPT ![i - 1] = NUL, ![i] = NUL],
                           !.checked = @ + 1, !.ls = "OK"]
       ELSE IF Byte(q, i) = LF THEN [q EXCEPT !.ls = "BAD"]
       ELSE [q EXCEPT !.checked = @ + 1, !.ls = "SCAN"]

(* parse_line(): scan from m_checked_idx until a line ends (LINE_OK), a    *)
(* bad CR or LF (LINE_BAD) or the bytes run out (LINE_OPEN).               *)
RECURSIVE ParseLine(_)
ParseLine(q) ==
    LET r == ParseLineStep(q)
    IN IF r.ls = "SCAN" THEN ParseLine(r) ELSE r

(* strchr(u, '/'): u from its first "/" on; <<>> stands for NULL.         *)
StrChrSlash(u) ==
    LET i == SelectInSeq(u, LAMBDA x : x = "/")
    IN IF i = 0 THEN <<>> ELSE SubSeq(u, i, Len(u))

RLine(res, m, u) == [res |-> res, method |-> m, url |-> u]

(* parse_request_line(): strpbrk() finds the blank after the method and    *)
(* the one after the URL (a line of fewer words is BAD_REQUEST), the       *)
(* method is GET or POST, the rest is HTTP/1.1.  An "http://" prefix is    *)
(* cut at the next "/", which may be NULL; the "https://" test then runs   *)
(* strncasecmp() on that NULL, which crashes the process ("CRASH"), before *)
(* the test for NULL or a URL not starting with "/".  A URL of just "/"    *)
(* gets judge.html appended.                                               *)
ParseRequestLine(text) ==
    LET w == IF Len(text) = 1 /\ text[1] \in DOMAIN RequestLines
             THEN RequestLines[text[1]] ELSE <<>>
        u1 == IF Len(w) >= 2 /\ w[2] # <<>> /\ Head(w[2]) = "http://"
              THEN StrChrSlash(Tail(w[2])) ELSE IF Len(w) >= 2 THEN w[2] ELSE <<>>
        u2 == IF u1 # <<>> /\ Head(u1) = "https://" THEN StrChrSlash(Tail(u1)) ELSE u1
    IN CASE Len(w) < 3 \/ w[1] \notin {"GET", "POST"} -> RLine("BAD", "GET", <<>>)
         [] SubSeq(w, 3, Len(w)) # <<"HTTP/1.1">>     -> RLine("BAD", "GET", <<>>)
         [] u1 = <<>>                                 -> RLine("CRASH", "GET", <<>>)
         [] u2 = <<>> \/ Head(u2) # "/"               -> RLine("BAD", "GET", <<>>)
         [] u2 = <<"/">>                 -> RLine("OK", w[1], <<"/", "judge.html">>)
         [] OTHER                                     -> RLine("OK", w[1], u2)

(* *(strrchr(m_url, '/') + 1): the part after the last "/", or "" (the   *)
(* NUL) when the URL ends in "/".                                          *)
AfterLastSlash(u) ==
    LET i == CHOOSE k \in 1..Len(u) : u[k] = "/" /\ \A j \in k + 1..Len(u) : u[j] # "/"
    IN IF i = Len(u) THEN "" ELSE u[i + 1]

(* stat() of doc_root + path, then the S_IROTH and S_ISDIR tests.          *)
StatResult(path) ==
    CASE path \notin DOMAIN DocRoot                -> "NO_RESOURCE"
      [] DocRoot[path] \in {"private", "privatedir"} -> "FORBIDDEN_REQUEST"
      [] DocRoot[path] = "dir"                      -> "BAD_REQUEST"
      [] OTHER                                      -> "FILE_REQUEST"

(* do_request(): a POST (cgi = 1) whose URL's last part starts with 2 or 3 *)
(* is the login or register form, which Registry models; /0, /1, /5 and    *)
(* /6 name fixed pages; any other URL is served as it is.                  *)
DoRequest(method, u) ==
    LET c == AfterLastSlash(u)
        page == CASE c = "0" -> <<"/", "register.html">>
                  [] c = "1" -> <<"/", "login.html">>
                  [] c = "5" -> <<"/", "picture.html">>
                  [] c = "6" -> <<"/", "video.html">>
                  [] OTHER   -> u
    IN IF method = "POST" /\ c \in {"2", "3"}
       THEN [form |-> c, code |-> "FORM"]
       ELSE [form |-> "", code |-> StatResult(page)]

(* mutant: parse_headers() ignores Connection: keep-alive                   *)
HeaderNoLinger(q, text) ==
    CASE text = <<"CL1">> -> [q EXCEPT !.cl = 1]
      [] text = <<"CL2">> -> [q EXCEPT !.cl = 2]
      [] OTHER            -> q

(* parse_headers() on a non-empty line: keep-alive sets m_linger,          *)
(* Content-length sets m_content_length, Host and unknown headers change   *)
(* nothing the parser reads.                                               *)
ParseHeader(q, text) ==
    CASE text = <<"KA">>  -> [q EXCEPT !.linger = TRUE]
      [] text = <<"CL1">> -> [q EXCEPT !.cl = 1]
      [] text = <<"CL2">> -> [q EXCEPT !.cl = 2]
      [] OTHER            -> q

(* mutant: the body is taken as complete only past m_content_length bytes *)
BodyReadLate(q) == Len(q.buf) > q.cl + q.checked

(* parse_content(): m_read_idx >= m_content_length + m_checked_idx.        *)
BodyRead(q) == Len(q.buf) >= q.cl + q.checked

(* process_read(): the while loop.  Its condition runs parse_line() unless *)
(* the state is CHECK_STATE_CONTENT and line_status is LINE_OK; each line  *)
(* is handed to the parser of the current state.  GET_REQUEST stands for   *)
(* the call of do_request().                                               *)
RECURSIVE ProcessLoop(_), HandleLine(_)
ProcessLoop(q) ==
    IF q.state = "CONTENT" /\ q.ls = "OK"
    THEN HandleLine(q)
    ELSE LET r == ParseLine(q)
         IN IF r.ls = "OK" THEN HandleLine(r) ELSE [r EXCEPT !.ret = "NO_REQUEST"]

HandleLine(q0) ==
    LET text == GetLine(q0)
        q == [q0 EXCEPT !.start = q0.checked]
        rl == ParseRequestLine(text)
    IN CASE q.state = "REQUESTLINE" ->
              CASE rl.res = "BAD"   -> [q EXCEPT !.ret = "BAD_REQUEST"]
                [] rl.res = "CRASH" -> [q EXCEPT !.ret = "CRASH"]
                [] OTHER -> ProcessLoop([q EXCEPT !.state = "HEADER",
                                                  !.method = rl.method, !.url = rl.url])
         [] q.state = "HEADER" /\ text = <<>> ->
              IF q.cl # 0 THEN ProcessLoop([q EXCEPT !.state = "CONTENT"])
                          ELSE [q EXCEPT !.ret = "GET_REQUEST"]
         [] q.state = "HEADER" -> ProcessLoop(ParseHeader(q, text))
         [] q.state = "CONTENT" ->
              IF BodyRead(q)
              THEN [q EXCEPT !.ret = "GET_REQUEST",
                             !.body = SubSeq(q.buf, q.checked + 1, q.checked + q.cl)]
              ELSE ProcessLoop([q EXCEPT !.ls = "OPEN"])

(* process_read() called by process(): line_status starts at LINE_OK.      *)
ProcessRead(q) == ProcessLoop([q EXCEPT !.ls = "OK"])

-----------------------------------------------------------------------------
Final == {"GET_REQUEST", "BAD_REQUEST"}

Init ==
    /\ msg \in Messages
    /\ p = ParserInit
    /\ fresh = FALSE

(* read_once(): recv() returns the next k bytes the client sent (TCP may   *)
(* split the request anywhere); they are appended at m_read_idx.           *)
Read ==
    /\ p.ret \notin Final /\ Len(p.buf) < Len(msg)
    /\ \E k \in 1..(Len(msg) - Len(p.buf)) :
          p' = [p EXCEPT !.buf = @ \o SubSeq(msg, Len(p.buf) + 1, Len(p.buf) + k)]
    /\ fresh' = TRUE
    /\ UNCHANGED msg

(* process() on a worker: process_read() over what has been read.          *)
Process ==
    /\ fresh
    /\ p' = ProcessRead(p)
    /\ fresh' = FALSE
    /\ UNCHANGED msg

Next == Read \/ Process

Spec == Init /\ [][Next]_vars

-----------------------------------------------------------------------------
(* The reference: the request as the spec (section 6) describes it, read   *)
(* from the whole message at once.  Lines end at CR LF; a CR or LF inside  *)
(* a line makes the request bad; the request line gives the method; the   *)
(* headers run to the empty line; then Content-length bytes of body.       *)
RECURSIVE RefLines(_)
RefLines(s) ==
    LET n == SelectInSeq([i \in 1..Len(s) |-> IF i < Len(s) THEN <<s[i], s[i + 1]>>
                                               ELSE <<s[i]>>],
                         LAMBDA pr : pr = <<CR, LF>>)
    IN IF n = 0 THEN <<>>
       ELSE <<SubSeq(s, 1, n - 1)>> \o RefLines(SubSeq(s, n + 2, Len(s)))

(* Bytes after the first empty line, i.e. after request line and headers. *)
RefRest(s, k) ==
    LET ls == RefLines(s)
        used == FoldLeft(LAMBDA acc, l : acc + Len(l) + 2, 0, SubSeq(ls, 1, k))
    IN SubSeq(s, used + 1, Len(s))

(* The request line as section 4 of the spec reads it: three words, GET   *)
(* or POST, a URL from which an http://host or https://host prefix is cut, *)
(* which must then begin with "/" ("/" alone means /judge.html), and       *)
(* HTTP/1.1.                                                               *)
RefRequestLine(text) ==
    LET w == IF Len(text) = 1 /\ text[1] \in DOMAIN RequestLines
             THEN RequestLines[text[1]] ELSE <<>>
        path == IF Len(w) = 3 /\ w[2] # <<>> /\ Head(w[2]) \in {"http://", "https://"}
                THEN StrChrSlash(Tail(w[2])) ELSE IF Len(w) = 3 THEN w[2] ELSE <<>>
    IN IF \/ Len(w) # 3 \/ w[1] \notin {"GET", "POST"} \/ w[3] # "HTTP/1.1"
          \/ path = <<>> \/ Head(path) # "/"
       THEN RLine("BAD", "GET", <<>>)
       ELSE RLine("OK", w[1], IF path = <<"/">> THEN <<"/", "judge.html">> ELSE path)

(* The routing table of section 4.6 keyed by the character after the last *)
(* "/" (forms only for POST), then stat: missing, not world-readable, a   *)
(* directory, or a file to map.                                            *)
RefResource(m, u) ==
    LET slashes == {k \in 1..Len(u) : u[k] = "/"}
        last == CHOOSE k \in slashes : \A j \in slashes : j <= k
        c == IF last < Len(u) THEN u[last + 1] ELSE ""
        table == [x \in {"0", "1", "5", "6"} |->
                    <<"/", CASE x = "0" -> "register.html" [] x = "1" -> "login.html"
                             [] x = "5" -> "picture.html" [] x = "6" -> "video.html">>]
        path == IF c \in DOMAIN table THEN table[c] ELSE u
        kind == IF path \in DOMAIN DocRoot THEN DocRoot[path] ELSE "missing"
    IN IF m = "POST" /\ c \in {"2", "3"} THEN [form |-> c, code |-> "FORM"]
       ELSE [form |-> "",
             code |-> CASE kind = "missing"                   -> "NO_RESOURCE"
                        [] kind \in {"private", "privatedir"} -> "FORBIDDEN_REQUEST"
                        [] kind = "dir"                       -> "BAD_REQUEST"
                        [] OTHER                              -> "FILE_REQUEST"]

Reference(s) ==
    LET ls == RefLines(s)
        blank == SelectInSeq(ls, LAMBDA l : l = <<>>)
        hdrs == IF blank = 0 THEN <<>> ELSE SubSeq(ls, 2, blank - 1)
        cl == IF \E i \in 1..Len(hdrs) : hdrs[i] = <<"CL2">> THEN 2
              ELSE IF \E i \in 1..Len(hdrs) : hdrs[i] = <<"CL1">> THEN 1 ELSE 0
        bad == \/ ls = <<>>
               \/ \E i \in 1..blank : Contains(ls[i], CR) \/ Contains(ls[i], LF)
               \/ RefRequestLine(ls[1]).res = "BAD"
    IN IF bad THEN [ret |-> "BAD_REQUEST"]
       ELSE [ret |-> "GET_REQUEST", method |-> RefRequestLine(ls[1]).method,
             url |-> RefRequestLine(ls[1]).url,
             linger |-> \E i \in 1..Len(hdrs) : hdrs[i] = <<"KA">>,
             body |-> SubSeq(RefRest(s, blank), 1, cl),
             resource |-> RefResource(RefRequestLine(ls[1]).method,
                                      RefRequestLine(ls[1]).url)]

Outcome(q) ==
    IF q.ret \in {"BAD_REQUEST", "CRASH"} THEN [ret |-> q.ret]
    ELSE [ret |-> q.ret, method |-> q.method, url |-> q.url, linger |-> q.linger,
          body |-> q.body, resource |-> DoRequest(q.method, q.url)]

ParserTypeOK ==
    /\ msg \in Messages /\ fresh \in BOOLEAN
    /\ p.state \in {"REQUESTLINE", "HEADER", "CONTENT"}
    /\ p.method \in {"GET", "POST"}
    /\ p.ret \in Final \cup {"NONE", "NO_REQUEST", "CRASH"}
    /\ p.checked \in 0..Len(p.buf) /\ p.start \in 0..p.checked

(* Whatever way TCP splits the request into reads, when process_read()     *)
(* reaches a verdict (do_request() or BAD_REQUEST) it is the one the whole *)
(* request calls for, with the same method, URL, keep-alive flag and body. *)
ParseMatchesReference ==
    p.ret \in Final => Outcome(p) = Reference(msg)

(* Once the whole request has been read and processed, process_read()     *)
(* has reached its verdict: the connection is never left waiting for       *)
(* bytes the client will not send.                                         *)
WholeRequestIsParsed ==
    (Len(p.buf) = Len(msg) /\ ~fresh) => p.ret \in Final

(* No request a client sends makes process_read() crash the server: every *)
(* request line ends in BAD_REQUEST or a parsed request, as section 4 of   *)
(* the spec says of a URL that does not begin with "/" once an http://host *)
(* prefix is cut.                                                          *)
RequestNeverCrashes ==
    p.ret # "CRASH"
====
