--------------------------- MODULE RequestHeaders ---------------------------
(***************************************************************************)
(* FORWARDING_HANDLER::CreateWinHttpRequest and GetHeaders                 *)
(* (forwardinghandler.cxx): the request for the backend is opened and the  *)
(* headers of the client's request are edited in place, one SetHeader or   *)
(* DeleteHeader after the other, before they are read out as a whole.  The *)
(* names and switches are those of PROTOCOL_CONFIG::Initialize             *)
(* (protocolconfig.cxx).  A header is a [name, value] record, its value a  *)
(* sequence of comma separated items.                                      *)
(***************************************************************************)
EXTENDS Naturals, Sequences, Lists

CONSTANTS
    Requests,   \* possible headers of the client
    Users,      \* [type, token] : authentication type and primary token, or Null
    Certs,      \* client certificates, with Null
    Reserved,   \* the names that begin with MS-ASPNETCORE
    Null

VARIABLES
    client, pSslInfo, pClientCertInfo, user,    \* the inputs
    forwardToken,               \* QueryForwardWindowsAuthToken
    m_fWebSocketEnabled,
    listening,                  \* whether the process has a handle to duplicate into
    headers,                    \* of the IHttpRequest
    mszMsAspNetCoreHeaders,
    kept,                       \* reserved headers whose name found no memory
    m_pszHeaders,               \* what the backend is sent
    pc, index

inputs == <<client, pSslInfo, pClientCertInfo, user, forwardToken, m_fWebSocketEnabled, listening>>
vars == <<inputs, headers, mszMsAspNetCoreHeaders, kept, m_pszHeaders, pc, index>>

Init ==
    /\ client \in Requests /\ pSslInfo \in BOOLEAN /\ user \in Users
    /\ pClientCertInfo \in IF pSslInfo THEN Certs ELSE {Null}
    /\ forwardToken \in BOOLEAN /\ m_fWebSocketEnabled \in BOOLEAN /\ listening \in BOOLEAN
    /\ headers = client /\ mszMsAspNetCoreHeaders = <<>> /\ kept = {} /\ m_pszHeaders = Null
    /\ pc = "open" /\ index = 1

Goto(l) == pc' = l /\ index' = 1
Without(name) == Unnamed(headers, {name})
Delete(name) == headers' = Without(name)
Set(name, value) == headers' = Append(Without(name), [name |-> name, value |-> value])
Current(name) == LET found == {i \in DOMAIN headers : headers[i].name = name} IN
    IF found = {} THEN <<>> ELSE headers[CHOOSE i \in found : \A j \in found : i <= j].value

\* WinHttpOpenRequest and the options; the host header is preserved.
Open ==
    /\ pc = "open" /\ Goto("collect")
    /\ UNCHANGED <<inputs, headers, mszMsAspNetCoreHeaders, kept, m_pszHeaders>>

\* The names of the reserved headers are collected first; the result of
\* Append is not looked at.
Collect ==
    /\ pc = "collect" /\ index <= Len(headers) /\ index' = index + 1 /\ pc' = pc
    /\ LET name == headers[index].name IN
       \/ /\ mszMsAspNetCoreHeaders' = IF name \in Reserved THEN Append(mszMsAspNetCoreHeaders, name)
                                       ELSE mszMsAspNetCoreHeaders
          /\ UNCHANGED kept
       \/ /\ name \in Reserved /\ kept' = kept \cup {name}
          /\ UNCHANGED mszMsAspNetCoreHeaders
    /\ UNCHANGED <<inputs, headers, m_pszHeaders>>

CollectEnd ==
    /\ pc = "collect" /\ index > Len(headers) /\ Goto("strip")
    /\ UNCHANGED <<inputs, headers, mszMsAspNetCoreHeaders, kept, m_pszHeaders>>

\* Mutant: the headers are deleted while the list is walked, which then
\* misses the one that follows.
Strip_First ==
    /\ pc = "strip" /\ Goto("token")
    /\ IF mszMsAspNetCoreHeaders = <<>> THEN UNCHANGED headers
       ELSE Delete(Head(mszMsAspNetCoreHeaders))
    /\ UNCHANGED <<inputs, mszMsAspNetCoreHeaders, kept, m_pszHeaders>>

Strip ==
    /\ pc = "strip" /\ Goto("token")
    /\ headers' = Unnamed(headers, Range(mszMsAspNetCoreHeaders))
    /\ UNCHANGED <<inputs, mszMsAspNetCoreHeaders, kept, m_pszHeaders>>

Token ==
    /\ pc = "token" /\ Goto("winauth") /\ Set("MS-ASPNETCORE-TOKEN", <<"guid">>)
    /\ UNCHANGED <<inputs, mszMsAspNetCoreHeaders, kept, m_pszHeaders>>

Forwarded == forwardToken /\ user.type \in {"negotiate", "ntlm"} /\ user.token # Null

\* SetWindowsAuthToken duplicates the token into the process.  Without a
\* handle of the process it does nothing and the header says 0.
WinAuthToken ==
    /\ pc = "winauth" /\ Goto("for")
    /\ IF Forwarded
       THEN Set("MS-ASPNETCORE-WINAUTHTOKEN", <<IF listening THEN user.token ELSE "0">>)
       ELSE UNCHANGED headers
    /\ UNCHANGED <<inputs, mszMsAspNetCoreHeaders, kept, m_pszHeaders>>

\* The address and port of the client follow those already there.
XForwardedFor ==
    /\ pc = "for" /\ Goto("proto")
    /\ Set("X-Forwarded-For", Append(Current("X-Forwarded-For"), "client"))
    /\ UNCHANGED <<inputs, mszMsAspNetCoreHeaders, kept, m_pszHeaders>>

XForwardedProto ==
    /\ pc = "proto" /\ Goto("cert")
    /\ Set("X-Forwarded-Proto",
           Append(Current("X-Forwarded-Proto"), IF pSslInfo THEN "https" ELSE "http"))
    /\ UNCHANGED <<inputs, mszMsAspNetCoreHeaders, kept, m_pszHeaders>>

\* SetHeader fails but its result is not kept: GetHeaders returns S_OK and
\* has read no headers.
XForwardedProtoLost ==
    /\ pc = "proto" /\ Goto("done")
    /\ UNCHANGED <<inputs, headers, mszMsAspNetCoreHeaders, kept, m_pszHeaders>>

ClientCert ==
    /\ pc = "cert" /\ Goto("connection")
    /\ IF pClientCertInfo = Null THEN Delete("MS-ASPNETCORE-CLIENTCERT")
       ELSE Set("MS-ASPNETCORE-CLIENTCERT", <<pClientCertInfo>>)
    /\ UNCHANGED <<inputs, mszMsAspNetCoreHeaders, kept, m_pszHeaders>>

\* The connection header is removed and everything read out (ALL_RAW).
ReadHeaders ==
    /\ pc = "connection" /\ Goto("done")
    /\ IF m_fWebSocketEnabled THEN UNCHANGED headers ELSE Delete("Connection")
    /\ m_pszHeaders' = headers'
    /\ UNCHANGED <<inputs, mszMsAspNetCoreHeaders, kept>>

\* Any other call that fails ends the request.
Fail ==
    /\ pc \notin {"collect", "strip", "done", "failed"} /\ Goto("failed")
    /\ UNCHANGED <<inputs, headers, mszMsAspNetCoreHeaders, kept, m_pszHeaders>>

Next ==
    \/ Open \/ Collect \/ CollectEnd \/ Strip \/ Token \/ WinAuthToken \/ XForwardedFor
    \/ XForwardedProto \/ XForwardedProtoLost \/ ClientCert \/ ReadHeaders \/ Fail

Spec == Init /\ [][Next]_vars

(***************************************************************************)
(* Properties                                                              *)
(***************************************************************************)
Sent(name) == {m_pszHeaders[i].value : i \in {j \in DOMAIN m_pszHeaders : m_pszHeaders[j].name = name}}
Received(name) == {client[i].value : i \in {j \in DOMAIN client : client[j].name = name}}
Hop(name, value) == IF Received(name) = {} THEN {<<value>>}
                    ELSE {Append(v, value) : v \in Received(name)}

\* What the backend reads does not depend on what the client claimed: the
\* reserved headers are the module's own or absent ("these headers are
\* generated by the asp.net core module", forwardinghandler.cxx:634), unless
\* collecting a name found no memory; the forwarding headers end with this
\* hop; the connection header is passed for a websocket only; all other
\* headers pass unchanged and in order.
BackendSees ==
    m_pszHeaders # Null =>
        LET Own(name, value) == IF value = Null THEN Sent(name) = {} ELSE Sent(name) = {<<value>>}
            edited == Reserved \cup {"X-Forwarded-For", "X-Forwarded-Proto", "Connection"}
        IN  /\ Sent("MS-ASPNETCORE-TOKEN") = {<<"guid">>}
            /\ "MS-ASPNETCORE-WINAUTHTOKEN" \in kept
               \/ Own("MS-ASPNETCORE-WINAUTHTOKEN",
                      IF Forwarded THEN IF listening THEN user.token ELSE "0" ELSE Null)
            /\ Own("MS-ASPNETCORE-CLIENTCERT", pClientCertInfo)
            /\ Sent("X-Forwarded-For") = Hop("X-Forwarded-For", "client")
            /\ Sent("X-Forwarded-Proto") = Hop("X-Forwarded-Proto", IF pSslInfo THEN "https" ELSE "http")
            /\ Sent("Connection") = IF m_fWebSocketEnabled THEN Received("Connection") ELSE {}
            /\ Unnamed(m_pszHeaders, edited) = Unnamed(client, edited)
==============================================================================
