----------------------------- MODULE MCServices -----------------------------
(***************************************************************************)
(* The services of the Services run.  A behaviour drives the one that      *)
(* focus names: none of them looks at another's state.  SFTP and SCP start *)
(* saves of the quarantine; how those go on is driven by itself.           *)
(***************************************************************************)
EXTENDS Shutdown, Sftp, Scp, Rsync, Outputs, SshProxy, IocReports, SessionLog, TLC

CONSTANTS n1, n2

\* What the SCP source sends: a directory with a file in it and one beside it.
Tree == (<<>> :> <<n1, n2>>) @@ (<<n1>> :> <<n2>>)

VARIABLE focus

logAll == <<logVars, serverVars>>
allVars == <<focus, logAll, qVars, sftpVars, scpVars, rsyncVars, outVars, proxyVars, iocVars, slVars>>

\* What only one service chooses is fixed for the others.
ServicesInit ==
    /\ focus \in {"stop", "saves", "sftp", "scp", "rsync", "output", "proxy", "reports", "log"}
    /\ Init
    /\ QuarantineInit /\ (focus # "saves" => scanner)
    /\ SftpInit /\ (focus # "sftp" => n1 \in DOMAIN vfs)
    /\ ScpInit /\ (focus # "scp" => dirs = {})
    /\ RsyncInit
    /\ OutputsInit
    /\ SshProxyInit
    /\ IocInit /\ (focus # "reports" => platform = "telegram")
    /\ SessionLogInit

Focus(name) == focus = name /\ UNCHANGED focus

StopNext == Next /\ UNCHANGED <<qVars, sftpVars, scpVars, rsyncVars, outVars, proxyVars, iocVars, slVars>>
SavesNext == QuarantineNext /\ UNCHANGED <<logAll, sftpVars, scpVars, rsyncVars, outVars, proxyVars, iocVars, slVars>>
SftpServed == SftpNext /\ UNCHANGED <<logAll, scpVars, rsyncVars, outVars, proxyVars, iocVars, slVars>>
ScpServed == ScpNext /\ UNCHANGED <<logAll, sftpVars, rsyncVars, outVars, proxyVars, iocVars, slVars>>
RsyncServed == RsyncNext /\ UNCHANGED <<logAll, qVars, sftpVars, scpVars, outVars, proxyVars, iocVars, slVars>>
OutputServed == OutputsNext /\ UNCHANGED <<logAll, qVars, sftpVars, scpVars, rsyncVars, proxyVars, iocVars, slVars>>
ProxyServed == SshProxyNext /\ UNCHANGED <<logAll, qVars, sftpVars, scpVars, rsyncVars, outVars, iocVars, slVars>>
ReportsNext == IocNext /\ UNCHANGED <<logAll, qVars, sftpVars, scpVars, rsyncVars, outVars, proxyVars, slVars>>
EventsLogged == SessionLogNext /\ UNCHANGED <<logAll, qVars, sftpVars, scpVars, rsyncVars, outVars, proxyVars, iocVars>>

ServicesNext ==
    \/ Focus("stop") /\ StopNext
    \/ Focus("saves") /\ SavesNext
    \/ Focus("sftp") /\ SftpServed
    \/ Focus("scp") /\ ScpServed
    \/ Focus("rsync") /\ RsyncServed
    \/ Focus("output") /\ OutputServed
    \/ Focus("proxy") /\ ProxyServed
    \/ Focus("reports") /\ ReportsNext
    \/ Focus("log") /\ EventsLogged

\* Tasks and threads run; time limits, theirs and the peers', expire.
ServicesFairness ==
    /\ Fairness
    /\ \A i \in 1..MaxSaves : WF_qVars(focus = "saves" /\ i \in DOMAIN save /\ SaveStep(i))
    /\ WF_rsyncVars(focus = "rsync" /\ RsyncNext)
    /\ WF_outVars(focus = "output" /\ OutputThread)
    /\ WF_outVars(focus = "output" /\ TimeUp)
    /\ WF_iocVars(focus = "reports" /\ BotThread)

ServicesSpec == ServicesInit /\ [][ServicesNext]_allVars /\ ServicesFairness

-----------------------------------------------------------------------------
\* Nothing the services began stays unfinished: stop() ends, what is logged is
\* written, saves and scans settle, rsync returns, accepted events are stored, and
\* a /report is answered.
ServicesProgress ==
    /\ StopEnds
    /\ LoggedIsWritten
    /\ focus = "saves" => SavesSettle
    /\ RsyncEnds
    /\ AcceptedIsWritten
    /\ ReportIsAnswered
=============================================================================
