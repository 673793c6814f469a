--------------------------- MODULE ResponseHeaders ---------------------------
(***************************************************************************)
(* FORWARDING_HANDLER::SetStatusAndHeaders (forwardinghandler.cxx): the    *)
(* status line and the header lines of the backend become the response of  *)
(* IIS, through the table of known headers (responseheaderhash.cxx).  A    *)
(* known header has one value in an IIS response, an unknown one may have  *)
(* many.  A line is a [name, value] record; a line without a name or       *)
(* without its ":" is Malformed.                                           *)
(***************************************************************************)
EXTENDS Naturals, Sequences, FiniteSetsExt, Lists

CONSTANTS
    Blocks,     \* possible results of WinHttpQueryHeaders, [status, lines]
    Verbs,
    RESPONSE_HEADERS,   \* the names http.sys has an index for
    Malformed, None

VARIABLES
    block, verb,            \* the inputs
    m_fWebSocketEnabled,
    status, known, unknown, \* the IHttpResponse
    m_cContentLength,
    fServerHeaderPresent,
    m_fResponseHeadersReceivedAndSet,
    index, pc

response == <<status, known, unknown>>
vars == <<block, verb, m_fWebSocketEnabled, response, m_cContentLength, fServerHeaderPresent,
          m_fResponseHeadersReceivedAndSet, index, pc>>

\* IIS has put its own Server header and the status 200 in the response.
Init ==
    /\ block \in Blocks /\ verb \in Verbs /\ m_fWebSocketEnabled \in BOOLEAN
    /\ status = 200 /\ unknown = <<>>
    /\ known = [h \in RESPONSE_HEADERS |-> IF h = "Server" THEN "IIS" ELSE None]
    /\ m_cContentLength = "0" /\ fServerHeaderPresent = FALSE
    /\ m_fResponseHeadersReceivedAndSet = FALSE
    /\ index = 1 /\ pc = "status"

Line == block.lines[index]
AtLine == pc = "lines" /\ index <= Len(block.lines) /\ Line # Malformed
NextLine == index' = index + 1 /\ UNCHANGED <<block, verb, m_fWebSocketEnabled, pc>>
Leave(l) == pc' = l /\ UNCHANGED <<block, verb, index>>

\* Anything but a 101 ends the attempt at a websocket.
StatusLine ==
    /\ pc = "status" /\ block.status # Malformed /\ Leave("lines")
    /\ m_fWebSocketEnabled' = (m_fWebSocketEnabled /\ block.status = 101)
    /\ status' = IF block.status # 200 THEN block.status ELSE status
    /\ UNCHANGED <<known, unknown, m_cContentLength, fServerHeaderPresent,
                   m_fResponseHeadersReceivedAndSet>>

\* Mutant: the entries that stand for Set-Cookie and WWW-Authenticate have
\* their real names.
GetIndex_All(name) == IF name \in RESPONSE_HEADERS THEN name ELSE None

\* RESPONSE_HEADER_HASH::GetIndex: the table holds, for Set-Cookie and
\* WWW-Authenticate, names no header can have.  It does so for Server too,
\* but keeps the entry with the true name besides.
GetIndex(name) ==
    IF name \in RESPONSE_HEADERS \ {"Set-Cookie", "WWW-Authenticate"} THEN name ELSE None

\* SetHeader without fReplace.
AddUnknown ==
    /\ AtLine /\ GetIndex(Line.name) = None
    /\ unknown' = Append(unknown, Line) /\ NextLine
    /\ UNCHANGED <<status, known, m_cContentLength, fServerHeaderPresent,
                   m_fResponseHeadersReceivedAndSet>>

IsChunked(l) == l.name = "Transfer-Encoding" /\ l.value = "chunked"
IsOwn(l) == IsChunked(l) \/ l.name \in {"Connection", "Date"}

Skip ==
    /\ AtLine /\ GetIndex(Line.name) # None /\ IsOwn(Line) /\ NextLine
    /\ UNCHANGED <<response, m_cContentLength, fServerHeaderPresent, m_fResponseHeadersReceivedAndSet>>

\* SetHeader with fReplace: of several lines of a known header the last stays.
SetKnown ==
    /\ AtLine /\ GetIndex(Line.name) # None /\ ~IsOwn(Line)
    /\ known' = [known EXCEPT ![Line.name] = Line.value] /\ NextLine
    /\ fServerHeaderPresent' = (fServerHeaderPresent \/ Line.name = "Server")
    /\ m_cContentLength' = IF Line.name = "Content-Length" /\ verb # "HEAD" THEN Line.value
                           ELSE m_cContentLength
    /\ UNCHANGED <<status, unknown, m_fResponseHeadersReceivedAndSet>>

\* A syntax error, or a SetStatus or SetHeader that fails: what was set stays.
\* At the status line the websocket may be off already.
Fail ==
    /\ pc \in {"status", "lines"} /\ Leave("failed")
    /\ \/ UNCHANGED m_fWebSocketEnabled
       \/ /\ pc = "status" /\ block.status \notin {101, Malformed}
          /\ m_fWebSocketEnabled' = FALSE
    /\ UNCHANGED <<response, m_cContentLength, fServerHeaderPresent, m_fResponseHeadersReceivedAndSet>>

\* The end of the header lines.  m_fDoReverseRewriteHeaders is never set
\* (protocolconfig.cxx:17), so DoReverseRewrite does not run.
Finish ==
    /\ pc = "lines" /\ index > Len(block.lines) /\ Leave("done")
    /\ known' = IF fServerHeaderPresent THEN known ELSE [known EXCEPT !["Server"] = None]
    /\ m_fResponseHeadersReceivedAndSet' = TRUE
    /\ UNCHANGED <<m_fWebSocketEnabled, status, unknown, m_cContentLength, fServerHeaderPresent>>

Next == StatusLine \/ AddUnknown \/ Skip \/ SetKnown \/ Fail \/ Finish

Spec == Init /\ [][Next]_vars

(***************************************************************************)
(* Properties                                                              *)
(***************************************************************************)
\* When the flag says the headers are set, the client gets the status and the
\* headers of the backend: every value of a cookie, a challenge or a header
\* of its own, in order; the last value of any other; nothing of the
\* connection between module and backend; and a Server header only if the
\* backend sent one.  The length the body is checked against is the
\* backend's, unless the request was a HEAD.  A response that is not a 101
\* leaves no websocket.
ClientSees ==
    m_fResponseHeadersReceivedAndSet =>
        LET lines == block.lines
            Kept == {i \in DOMAIN lines : ~IsOwn(lines[i])}
            Single == RESPONSE_HEADERS \ {"Set-Cookie", "WWW-Authenticate"}
            lengths == Named(lines, {"Content-Length"})
        IN  /\ \A i \in DOMAIN lines : lines[i] # Malformed
            /\ status = block.status /\ (m_fWebSocketEnabled => status = 101)
            /\ \A i \in Kept : lines[i].name \notin Single =>
                Named(unknown, {lines[i].name}) = Named(lines, {lines[i].name})
            /\ \A h \in Single :
                LET sent == {i \in Kept : lines[i].name = h} IN
                known[h] = IF sent = {} THEN None ELSE lines[Max(sent)].value
            /\ m_cContentLength = IF verb = "HEAD" \/ lengths = <<>> THEN "0"
                                  ELSE lengths[Len(lengths)].value
==============================================================================
