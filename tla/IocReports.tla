----------------------------- MODULE IocReports -----------------------------
(***************************************************************************)
(* The IOC reports (services/ioc_reporter.py) that the server writes again *)
(* and again, and the bot thread (output/telegram.py, output/discord.py)   *)
(* that sends them to whoever asks with /report.  The thread reads the two *)
(* files while the event loop's thread rewrites them in place; the program *)
(* can be killed and started again at any point.                           *)
(*                                                                         *)
(* Of the IOCs only their number is kept, of a document the number of the  *)
(* generation that wrote it; 0: there is no file, or it is not written to  *)
(* its end.                                                                *)
(***************************************************************************)
EXTENDS Naturals, Sequences

CONSTANTS
    MaxIocs,        \* bound: IOCs of a run of the program
    MaxGenerations, \* bound: calls of generate_reports that find IOCs
    MaxMessages,    \* bound: messages in the chat
    Fetched,        \* messages that a poll gets at most; 5 in discord.py
    MaxRestarts     \* bound: restarts

ASSUME IocAssumption ==
    /\ MaxIocs \in Nat /\ MaxGenerations \in Nat /\ MaxMessages \in Nat
    /\ Fetched \in Nat \ {0} /\ MaxRestarts \in Nat

VARIABLES
    platform,       \* "telegram" or "discord"
    iocs,           \* len(IOCReporter.iocs)
    reporting,      \* where generate_reports is
    generation,     \* history: generations so far
    report,         \* the two files
    interrupted,    \* history: writing a report has failed or was cut off
    chat,           \* the messages; TRUE: /report
    confirmed,      \* updates that Telegram no longer delivers
    seen,           \* _update_offset - 1, _last_message_id
    inbox,          \* messages of the last poll that the loop has not come to
    bot,            \* where the thread is
    reading,        \* what it has read for its answer
    answers,        \* history: the answers sent
    restarts

iocVars == <<platform, iocs, reporting, generation, report, interrupted, chat, confirmed,
             seen, inbox, bot, reading, answers, restarts>>
reportVars == <<iocs, reporting, generation, report, interrupted>>
botVars == <<chat, confirmed, seen, inbox, bot, reading, answers>>

Formats == {"stix", "misp"}
Nothing == [f \in Formats |-> 0]

IocInit ==
    /\ platform \in {"telegram", "discord"}
    /\ iocs = 0
    /\ reporting = "sleep"
    /\ generation = 0
    /\ report = Nothing
    /\ interrupted = FALSE
    /\ chat = <<>>
    /\ confirmed = 0
    /\ seen = 0
    /\ inbox = <<>>
    /\ bot = "poll"
    /\ reading = Nothing
    /\ answers = <<>>
    /\ restarts = 0

-----------------------------------------------------------------------------
(* The event loop                                                          *)

AddIocs(n) ==
    /\ reporting = "sleep"
    /\ iocs + n <= MaxIocs
    /\ iocs' = iocs + n
    /\ UNCHANGED <<platform, reporting, generation, report, interrupted, botVars, restarts>>

\* _detect_tools: a URL or a domain in a command with a known tool.
ToolDetected == AddIocs(1)

\* _report_ml_anomaly: the client's address, with an address or URL of the command.
AnomalyReported == AddIocs(1) \/ AddIocs(2)

\* analyze_auth: the credentials of a login.
AuthAnalysed == AddIocs(1)

\* analyze_file: the hash of an anomalous upload.
FileAnalysed == AddIocs(1)

\* _ioc_reporting_loop wakes up; without IOCs neither file is touched.
ReportsBegin ==
    /\ reporting = "sleep" /\ iocs > 0
    /\ generation < MaxGenerations
    /\ generation' = generation + 1
    /\ reporting' = "stix"
    /\ UNCHANGED <<platform, iocs, report, interrupted, botVars, restarts>>

NextReport(f) == IF f = "stix" THEN "misp" ELSE "sleep"
Opened(f) == IF f = "stix" THEN "stix opened" ELSE "misp opened"

\* Mutant of OpenReport: a report that is there already is not written again.
OpenReportOnce(f) ==
    /\ reporting = f
    /\ IF f = "misp" /\ report[f] > 0
       THEN reporting' = NextReport(f) /\ UNCHANGED report
       ELSE /\ report' = [report EXCEPT ![f] = 0]
            /\ reporting' = Opened(f)
    /\ UNCHANGED <<platform, iocs, generation, interrupted, botVars, restarts>>

\* open(path, "w") empties the file,
OpenReport(f) ==
    /\ reporting = f
    /\ report' = [report EXCEPT ![f] = 0]
    /\ reporting' = Opened(f)
    /\ UNCHANGED <<platform, iocs, generation, interrupted, botVars, restarts>>

\* json.dump and close fill it.
WriteReport(f) ==
    /\ reporting = Opened(f)
    /\ report' = [report EXCEPT ![f] = generation]
    /\ reporting' = NextReport(f)
    /\ UNCHANGED <<platform, iocs, generation, interrupted, botVars, restarts>>

\* mkdir, open, dump or close raises: an event, and the other format goes on.
ReportFails(f) ==
    /\ reporting \in {f, Opened(f)}
    /\ reporting' = NextReport(f)
    /\ interrupted' = TRUE
    /\ UNCHANGED <<platform, iocs, generation, report, botVars, restarts>>

-----------------------------------------------------------------------------
(* The chat and the bot's thread                                           *)

\* external: somebody writes /report, or something else.
Chat(isReport) ==
    /\ Len(chat) < MaxMessages
    /\ chat' = Append(chat, isReport)
    /\ UNCHANGED <<platform, reportVars, confirmed, seen, inbox, bot, reading, answers, restarts>>

Ids(first) == [i \in 1..(Len(chat) + 1 - first) |-> first + i - 1]

\* getUpdates: an offset confirms all updates before it.  A request that fails is
\* made again.
GetUpdates ==
    /\ platform = "telegram" /\ bot = "poll"
    /\ confirmed' = IF seen = 0 THEN confirmed ELSE seen
    /\ Len(chat) > confirmed'
    /\ inbox' = Ids(confirmed' + 1)
    /\ bot' = "loop"
    /\ UNCHANGED <<platform, reportVars, chat, seen, reading, answers, restarts>>

\* Mutant of TakeUpdate: the offset does not go past the update.
TakeUpdateAgain ==
    /\ platform = "telegram" /\ bot = "loop" /\ inbox # <<>>
    /\ seen' = Head(inbox) - 1
    /\ inbox' = Tail(inbox)
    /\ bot' = IF chat[Head(inbox)] THEN "stix" ELSE "loop"
    /\ UNCHANGED <<platform, reportVars, chat, confirmed, reading, answers, restarts>>

\* The offset moves on before the update is looked at.
TakeUpdate ==
    /\ platform = "telegram" /\ bot = "loop" /\ inbox # <<>>
    /\ seen' = Head(inbox)
    /\ inbox' = Tail(inbox)
    /\ bot' = IF chat[Head(inbox)] THEN "stix" ELSE "loop"
    /\ UNCHANGED <<platform, reportVars, chat, confirmed, reading, answers, restarts>>

UpdatesDone ==
    /\ bot = "loop" /\ inbox = <<>>
    /\ bot' = "poll"
    /\ UNCHANGED <<platform, reportVars, chat, confirmed, seen, inbox, reading, answers, restarts>>

\* Of the newest messages the newest /report that was not seen is answered; older
\* ones are skipped by what follows the loop, or were too old to be fetched.
PollChannel ==
    /\ platform = "discord" /\ bot = "poll"
    /\ LET newest == {i \in DOMAIN chat : i > Len(chat) - Fetched}
           asked == {i \in newest : i > seen /\ chat[i]}
       IN  IF asked = {}
           THEN seen' = Len(chat) /\ seen' # seen /\ UNCHANGED <<bot, inbox>>
           ELSE /\ seen' = CHOOSE i \in asked : \A k \in asked : k <= i
                /\ bot' = "stix"
                /\ inbox' = <<Len(chat)>>
    /\ UNCHANGED <<platform, reportVars, chat, confirmed, reading, answers, restarts>>

\* After the answer, the newest message of that poll counts as seen.
ChannelSeen ==
    /\ platform = "discord" /\ bot = "loop" /\ inbox # <<>>
    /\ seen' = IF Head(inbox) > seen THEN Head(inbox) ELSE seen
    /\ inbox' = <<>>
    /\ UNCHANGED <<platform, reportVars, chat, confirmed, bot, reading, answers, restarts>>

\* A file that is there is read as it is now; a read may also fail.
ReadReport(f) ==
    /\ bot = f
    /\ \E content \in {0, report[f]} : reading' = [reading EXCEPT ![f] = content]
    /\ bot' = IF f = "stix" THEN "misp" ELSE "answer"
    /\ UNCHANGED <<platform, reportVars, chat, confirmed, seen, inbox, answers, restarts>>

\* What was read is sent, in one message or in two; without any, a notice.  A
\* request that fails is not made again.
Answer ==
    /\ bot = "answer"
    /\ answers' = Append(answers, [to |-> seen, run |-> restarts])
    /\ reading' = Nothing
    /\ bot' = "loop"
    /\ UNCHANGED <<platform, reportVars, chat, confirmed, seen, inbox, restarts>>

\* The program is killed and started again: the IOCs and the thread's state are
\* gone, the files stay as they are.
Restart ==
    /\ restarts < MaxRestarts
    /\ restarts' = restarts + 1
    /\ iocs' = 0
    /\ reporting' = "sleep"
    /\ interrupted' = (interrupted \/ reporting # "sleep")
    /\ seen' = 0
    /\ inbox' = <<>>
    /\ reading' = Nothing
    /\ bot' = "poll"
    /\ UNCHANGED <<platform, generation, report, chat, confirmed, answers>>

BotThread ==
    \/ GetUpdates \/ TakeUpdate \/ UpdatesDone \/ PollChannel \/ ChannelSeen
    \/ \E f \in Formats : ReadReport(f)
    \/ Answer

IocNext ==
    \/ ToolDetected \/ AnomalyReported \/ AuthAnalysed \/ FileAnalysed
    \/ ReportsBegin
    \/ \E f \in Formats : OpenReport(f) \/ WriteReport(f) \/ ReportFails(f)
    \/ \E isReport \in BOOLEAN : Chat(isReport)
    \/ BotThread
    \/ Restart

-----------------------------------------------------------------------------
\* One run of the program answers the requests in the order they were made and none
\* of them twice, whatever arrives while it polls, reads or sends; only a
\* restart repeats answers.
AnsweredOnce ==
    \A i, j \in DOMAIN answers :
        i < j => \/ answers[i].to < answers[j].to
                 \/ answers[i].run < answers[j].run

\* The two documents of an answer belong together although they are read one after
\* the other while they are rewritten: if both are whole, the MISP one is at most one
\* generation older than the STIX one, as long as no report was cut off.
ReportsConsistent ==
    bot = "answer" /\ ~interrupted /\ reading["stix"] > 0 /\ reading["misp"] > 0
        => reading["misp"] + 1 >= reading["stix"]

\* On Telegram every /report is answered in the end, in spite of restarts.
ReportIsAnswered ==
    \A i \in 1..MaxMessages :
        (platform = "telegram" /\ i \in DOMAIN chat /\ chat[i]) ~>
            (\E k \in DOMAIN answers : answers[k].to = i)
=============================================================================
