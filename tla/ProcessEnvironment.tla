------------------------- MODULE ProcessEnvironment -------------------------
(***************************************************************************)
(* The environment and the command line of a backend process: the          *)
(* environmentVariables of the configuration as ASPNETCORE_CONFIG::Populate*)
(* collects them (aspnetcoreconfig.cxx), their copy in                     *)
(* SERVER_PROCESS::Initialize, and the block SERVER_PROCESS::StartProcess  *)
(* builds (serverprocess.cxx).  A text is a sequence of tokens, so that    *)
(* wcsstr is the search for a contiguous part, and a MULTISZ               *)
(* (IISLib/multisz.cpp) is a sequence of texts.                            *)
(***************************************************************************)
EXTENDS Naturals, SequencesExt

CONSTANTS
    Collections,    \* possible environmentVariables, sequences of [name, value]
    Arguments,      \* possible command lines
    AppConfigPaths, \* possible results of GetAppConfigPath
    Inherited,      \* the environment of the worker process
    towupper,       \* the upper-case form of a token
    Ports, MAX_RETRY,
    MaxDropped      \* bound on dropped

VARIABLES
    variables, pszPath, g_fNsiApiNotSupported,  \* the inputs
    pszCommandLine,
    mszEnvNames, mszEnvironment, mszEnvironmentListReverse, \* locals of Populate
    m_mszEnvironment,               \* of the ASPNETCORE_CONFIG
    m_Environment, copied,          \* of the SERVER_PROCESS, and whether Copy worked
    m_dwPort, m_dwDebugPort, cRetry,
    fDebugPortEnvSet, mszNewEnvironment,
    dropped,    \* how many entries lack something, unnoticed
    pc, index

inputs == <<variables, pszPath, g_fNsiApiNotSupported>>
populated == <<mszEnvNames, mszEnvironment, mszEnvironmentListReverse, m_mszEnvironment>>
process == <<m_Environment, copied>>
ports == <<m_dwPort, m_dwDebugPort, cRetry>>
block == <<fDebugPortEnvSet, mszNewEnvironment>>
vars == <<inputs, pszCommandLine, populated, process, ports, block, dropped, pc, index>>

Init ==
    /\ variables \in Collections /\ pszCommandLine \in Arguments /\ pszPath \in AppConfigPaths
    /\ g_fNsiApiNotSupported \in BOOLEAN
    /\ mszEnvNames = <<>> /\ mszEnvironment = <<>> /\ mszEnvironmentListReverse = <<>>
    /\ m_mszEnvironment = <<>> /\ dropped = 0
    /\ m_Environment = <<>> /\ copied = FALSE
    /\ m_dwPort = "0" /\ m_dwDebugPort = "0" /\ cRetry = 0
    /\ fDebugPortEnvSet = FALSE /\ mszNewEnvironment = <<>>
    /\ pc = "read" /\ index = 1

Goto(l, i) == pc' = l /\ index' = i

\* Where part begins in text.
wcsstr(text, part) ==
    {i \in 1 .. Len(text) - Len(part) + 1 : SubSeq(text, i, i + Len(part) - 1) = part}

Upper(text) == [i \in DOMAIN text |-> towupper[text[i]]]

(***************************************************************************)
(* Populate                                                                *)
(***************************************************************************)
\* One variable: its upper-case name with the "=" goes to the names, if it is
\* new, and with the value to the list.
ReadVariable ==
    /\ pc = "read" /\ index <= Len(variables)
    /\ LET strFullEnvVar == Upper(variables[index].name) \o <<"=">> IN
       /\ mszEnvNames' = IF Contains(mszEnvNames, strFullEnvVar) THEN mszEnvNames
                         ELSE Append(mszEnvNames, strFullEnvVar)
       /\ mszEnvironment' = Append(mszEnvironment, strFullEnvVar \o variables[index].value)
    /\ Goto("read", index + 1)
    /\ UNCHANGED <<inputs, pszCommandLine, mszEnvironmentListReverse, m_mszEnvironment,
                   process, ports, block, dropped>>

ReadEnd ==
    /\ pc = "read" /\ index > Len(variables) /\ Goto("reverse", 1)
    /\ UNCHANGED <<inputs, pszCommandLine, populated, process, ports, block, dropped>>

\* A MULTISZ without memory for an entry stays as it is.  Nobody looks at the
\* result here, in ReverseMultisz and in StartProcess.
Unchecked(list, intended, left) ==
    \/ list' = intended /\ UNCHANGED dropped
    \/ list' \in left \ {intended} /\ dropped < MaxDropped /\ dropped' = dropped + 1

ReverseVariable ==
    /\ pc = "reverse" /\ index <= Len(mszEnvironment)
    /\ LET next == mszEnvironment[Len(mszEnvironment) - index + 1] IN
       Unchecked(mszEnvironmentListReverse, Append(mszEnvironmentListReverse, next),
                 {mszEnvironmentListReverse})
    /\ Goto("reverse", index + 1)
    /\ UNCHANGED <<inputs, pszCommandLine, mszEnvNames, mszEnvironment, m_mszEnvironment,
                   process, ports, block>>

ReverseEnd ==
    /\ pc = "reverse" /\ index > Len(mszEnvironment) /\ Goto("select", 1)
    /\ UNCHANGED <<inputs, pszCommandLine, populated, process, ports, block, dropped>>

\* Mutant: the list is searched in the order of the configuration.
SelectVariable_First ==
    /\ pc = "select" /\ index <= Len(mszEnvNames)
    /\ LET found == {i \in DOMAIN mszEnvironment :
                        wcsstr(mszEnvironment[i], mszEnvNames[index]) # {}}
       IN  m_mszEnvironment' = Append(m_mszEnvironment, mszEnvironment[Min(found)])
    /\ Goto("select", index + 1)
    /\ UNCHANGED <<inputs, pszCommandLine, mszEnvNames, mszEnvironment, mszEnvironmentListReverse,
                   process, ports, block, dropped>>

\* For each name the first string of the reversed list that contains the
\* name, wherever it does.
SelectVariable ==
    /\ pc = "select" /\ index <= Len(mszEnvNames)
    /\ LET reversed == mszEnvironmentListReverse
           found == {i \in DOMAIN reversed : wcsstr(reversed[i], mszEnvNames[index]) # {}}
       IN  m_mszEnvironment' = IF found = {} THEN m_mszEnvironment
                               ELSE Append(m_mszEnvironment, reversed[Min(found)])
    /\ Goto("select", index + 1)
    /\ UNCHANGED <<inputs, pszCommandLine, mszEnvNames, mszEnvironment, mszEnvironmentListReverse,
                   process, ports, block, dropped>>

(***************************************************************************)
(* Initialize and StartProcess                                             *)
(***************************************************************************)
\* The result of MULTISZ::Copy is a BOOL and is tested with FAILED, so a copy
\* that found no memory passes and the process starts without its variables.
CopyEnvironment ==
    /\ pc = "select" /\ index > Len(mszEnvNames) /\ Goto("port", 1)
    /\ \/ m_Environment' = m_mszEnvironment /\ copied' = TRUE
       \/ m_Environment' = <<>> /\ copied' = FALSE
    /\ UNCHANGED <<inputs, pszCommandLine, populated, ports, block, dropped>>

\* do { } while (fPortInUse && ++cRetry < MAX_RETRY), then the test of
\* cRetry > MAX_RETRY.
Retry(again, further) ==
    \E fPortInUse \in BOOLEAN :
        LET tries == IF fPortInUse THEN cRetry + 1 ELSE cRetry IN
        /\ g_fNsiApiNotSupported => ~fPortInUse
        /\ IF fPortInUse /\ tries < MAX_RETRY THEN Goto(again, 1) /\ cRetry' = tries
           ELSE Goto(IF tries > MAX_RETRY THEN "failed" ELSE further, 1) /\ cRetry' = 0

PickPort ==
    /\ pc = "port" /\ m_dwPort' \in Ports /\ Retry("port", "debugport")
    /\ UNCHANGED <<inputs, pszCommandLine, populated, process, m_dwDebugPort, block, dropped>>

PickDebugPort ==
    /\ pc = "debugport" /\ m_dwDebugPort' \in Ports \ {m_dwPort} /\ Retry("debugport", "command")
    /\ UNCHANGED <<inputs, pszCommandLine, populated, process, m_dwPort, block, dropped>>

\* ReplacePlaceHolderWithValue: the first occurrence only.
Replace(text, placeholder, value) ==
    LET found == wcsstr(text, <<placeholder>>) IN
    IF found = {} THEN text ELSE [text EXCEPT ![Min(found)] = value]

Replaced(text) == Replace(Replace(text, "%PORT%", m_dwPort), "%DEBUG_PORT%", m_dwDebugPort)

DebugPort == <<"DEBUG_PORT", "=", m_dwDebugPort>>

\* What follows the site, MACHINE/WEBROOT/APPHOST/<site>/<app>, or "/".
AppPath ==
    LET fourth == {i \in wcsstr(pszPath, <<"/">>) :
                        Cardinality({j \in wcsstr(pszPath, <<"/">>) : j <= i}) = 4}
    IN  IF fourth = {} THEN <<"/">> ELSE SubSeq(pszPath, Min(fourth), Len(pszPath))

OwnName == <<"APPL_PATH", "TOKEN", "PORT">>
OwnValue == <<AppPath, <<"guid">>, <<m_dwPort>> >>

\* The path, the token and the port.  The first two are put together by a Copy
\* and an Append of which either can fail.
AppendOwn ==
    /\ pc = "command" /\ index <= 3
    /\ LET name == <<OwnName[index], "=">>
           value == OwnValue[index]
       IN  Unchecked(mszNewEnvironment, Append(mszNewEnvironment, name \o value),
               {mszNewEnvironment} \cup
               {Append(mszNewEnvironment, text) : text \in IF index = 3 THEN {} ELSE {name, value}})
    /\ Goto("command", index + 1)
    /\ UNCHANGED <<inputs, pszCommandLine, populated, process, ports, fDebugPortEnvSet>>

\* The debug port if the command line asks for it.
PrepareCommandLine ==
    LET fReplacedEnv == wcsstr(pszCommandLine, <<"%DEBUG_PORT%">>) # {} IN
    /\ pc = "command" /\ index > 3 /\ Goto("variables", 1)
    /\ pszCommandLine' = Replaced(pszCommandLine)
    /\ IF fReplacedEnv
       THEN Unchecked(mszNewEnvironment, Append(mszNewEnvironment, DebugPort), {mszNewEnvironment})
       ELSE UNCHANGED <<mszNewEnvironment, dropped>>
    /\ fDebugPortEnvSet' = fReplacedEnv
    /\ UNCHANGED <<inputs, populated, process, ports>>

\* fDebugPortEnvSet is not set here, so the debug port may be added twice.
AppendVariable ==
    /\ pc = "variables" /\ index <= Len(m_Environment)
    /\ LET text == m_Environment[index]
           fReplacedEnv == wcsstr(text, <<"%DEBUG_PORT%">>) # {}
           debugPort == IF fReplacedEnv /\ ~fDebugPortEnvSet THEN <<DebugPort>> ELSE <<>>
       IN  Unchecked(mszNewEnvironment, mszNewEnvironment \o debugPort \o <<Replaced(text)>>,
               {mszNewEnvironment, mszNewEnvironment \o debugPort, Append(mszNewEnvironment, Replaced(text))})
    /\ Goto("variables", index + 1)
    /\ UNCHANGED <<inputs, pszCommandLine, populated, process, ports, fDebugPortEnvSet>>

AppendInherited ==
    /\ pc = "variables" /\ index > Len(m_Environment) /\ Goto("launched", 1)
    /\ Unchecked(mszNewEnvironment, mszNewEnvironment \o Inherited, {mszNewEnvironment})
    /\ UNCHANGED <<inputs, pszCommandLine, populated, process, ports, fDebugPortEnvSet>>

\* What is looked at leaves: the collection of names and values, the tries for
\* a port, the command line, the second copy of the variables (line 394), the
\* worker's environment.
Fail ==
    /\ pc \notin {"launched", "failed"} /\ Goto("failed", 1)
    /\ UNCHANGED <<inputs, pszCommandLine, populated, process, ports, block, dropped>>

Next ==
    \/ ReadVariable \/ ReadEnd \/ ReverseVariable \/ ReverseEnd \/ SelectVariable
    \/ CopyEnvironment \/ PickPort \/ PickDebugPort
    \/ AppendOwn \/ PrepareCommandLine \/ AppendVariable \/ AppendInherited \/ Fail

Spec == Init /\ [][Next]_vars

(***************************************************************************)
(* Properties                                                              *)
(***************************************************************************)
\* GetEnvironmentVariable: the first entry of the name.
LookupIn(environment, name) ==
    LET found == {i \in DOMAIN environment : IsPrefix(name \o <<"=">>, environment[i])}
    IN  IF found = {} THEN <<>>
        ELSE LET text == environment[Min(found)] IN SubSeq(text, Len(name) + 2, Len(text))
Lookup(name) == LookupIn(mszNewEnvironment, name)

Configured == {Upper(variables[i].name) : i \in DOMAIN variables}

\* The last value of the configuration, its placeholders filled in.
Wanted(name) ==
    Replaced(variables[Max({i \in DOMAIN variables : Upper(variables[i].name) = name})].value)

\* The string of one variable contains the name of another and its "=".
Confused ==
    \E i \in DOMAIN variables, name \in Configured :
        /\ Upper(variables[i].name) # name
        /\ wcsstr(Upper(variables[i].name) \o <<"=">> \o variables[i].value, name \o <<"=">>) # {}

\* No configured name is the module's own, or has an "=" or a placeholder in it.
Own == {<<"APPL_PATH">>, <<"TOKEN">>, <<"PORT">>, <<"DEBUG_PORT">>}
Ordinary ==
    \A name \in Configured :
        name \notin Own /\ \A i \in DOMAIN name : name[i] \notin {"=", "%PORT%", "%DEBUG_PORT%"}

\* Something asks for the debug port.
DebugPortAsked ==
    fDebugPortEnvSet \/ \E i \in DOMAIN m_Environment :
                            wcsstr(m_Environment[i], <<"%DEBUG_PORT%">>) # {}

\* What a variable is configured to be, in one place or another.
Values(name) ==
    {Replaced(variables[i].value) : i \in {j \in DOMAIN variables : Upper(variables[j].name) = name}}

\* While no Append fails unnoticed, the process finds its own port and path,
\* whatever is configured; with ordinary names the last configured value of
\* every variable, over the inherited one, unless one string is taken for
\* another; the inherited value of every other; and the debug port, another
\* port, exactly when the configuration asks for it (serverprocess.cxx:210-214,
\* 385-389).  Whatever failed unnoticed (line 276 to 468 and ReverseMultisz),
\* an ordinary name brings a value meant for it, the worker's or none, and
\* never another port or another variable's value.
EnvironmentDelivered ==
    pc = "launched" =>
        /\ m_dwDebugPort # m_dwPort
        /\ dropped = 0 =>
            /\ Lookup(<<"PORT">>) = <<m_dwPort>> /\ Lookup(<<"APPL_PATH">>)[1] = "/"
            /\ Ordinary /\ copied /\ ~Confused =>
                 \A name \in Configured : Lookup(name) = Wanted(name)
            /\ Ordinary => \A i \in DOMAIN Inherited :
                 LET name == <<Inherited[i][1]>> IN
                 name \notin Own /\ Configured \cap {name, Upper(name)} = {} =>
                    Lookup(name) = LookupIn(Inherited, name)
            /\ Ordinary => Lookup(<<"DEBUG_PORT">>) =
                 IF DebugPortAsked THEN <<m_dwDebugPort>> ELSE LookupIn(Inherited, <<"DEBUG_PORT">>)
        /\ Ordinary =>
            /\ Lookup(<<"PORT">>) \in {<<m_dwPort>>, LookupIn(Inherited, <<"PORT">>), <<>>}
            /\ Lookup(<<"DEBUG_PORT">>) \in
                 {<<m_dwDebugPort>>, LookupIn(Inherited, <<"DEBUG_PORT">>), <<>>}
            /\ \A name \in Configured : ~IsPrefix(<<"/">>, name) =>
                 Lookup(name) \in Values(name) \cup {LookupIn(Inherited, name), <<>>}

\* "this allows user to override current environment variables"
\* (serverprocess.cxx:388): with ordinary names and no failure the process finds
\* the configured value of every variable and not the worker's.
OverridesApply ==
    pc = "launched" /\ copied /\ dropped = 0 /\ Ordinary =>
        \A name \in Configured : Lookup(name) = Wanted(name)
==============================================================================
