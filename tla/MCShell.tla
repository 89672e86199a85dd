------------------------------- MODULE MCShell -------------------------------
(***************************************************************************)
(* What the clients of the Shell runs type: chains, prompts answered by    *)
(* the wrong line, a crontab whose job meets a prompt, a script, an exit   *)
(* in the middle of pasted text.                                           *)
(***************************************************************************)
EXTENDS Shell

EndedBy(feed, lines) == [i \in DOMAIN lines |-> [line |-> lines[i], feed |-> feed]]
Typed(lines) == EndedBy("LF", lines)

Node(cmd, op) == [cmds |-> <<cmd>>, op |-> op]
Line(nodes) == [text |-> "other", nodes |-> nodes, entry |-> <<>>]
One(cmd) == Line(<<Node(cmd, "None")>>)
Word(text) == [One("missing") EXCEPT !.text = text]
Pair(op) == Line(<<Node("plain", op), Node("plain", "None")>>)
Entry(cmd) == [One("missing") EXCEPT !.entry = <<Node(cmd, "None")>>]
Pipe == Line(<<[cmds |-> <<"plain", "plain">>, op |-> ";"], Node("plain", "None")>>)

\* Chains of three, which the run ChainsFollowShell has for itself.
LongChains == {Typed(<<Line(<<Node("plain", op1), Node("plain", op2), Node("plain", "None")>>)>>) :
                    op1 \in {"&&", "||", ";"}, op2 \in {"&&", "||", ";"}}

LineFeedInputs == {
    <<Pair("&&"), Pair("||"), Pipe>>,
    <<Line(<<Node("plain", "&"), Node("su", "&&"), Node("plain", "&&")>>), One("plain")>>,
    <<One("crontab"), Entry("protected"), Word("save"), One("protected"), One("plain")>>,
    <<One("crontab"), Entry("plain"), Word("quit"), One("crontab")>>,
    <<One("crontab"), Entry("plain"), Word("save"), One("su"), One("vi")>>,
    <<One("bash"), One("direct"), One("protected")>>,
    <<One("visudo"), One("vi"), Word("write"), Word("write"), Word("save")>>,
    <<Line(<<Node("sudo_i", ";"), Node("sudo_su", "None")>>), Word("exit"), One("plain")>>,
    <<Line(<<Node("plain", ";"), Node("plain", ";"), Node("plain", ";"), Node("plain", "None")>>)>>}

\* Terminals that send \r, or \r\n, and a text pasted behind what was typed.
ReturnInputs == {
    EndedBy("CR", <<One("plain"), Word("exit")>>),
    EndedBy("CR", <<One("su")>>) \o Typed(<<Blank>>) \o EndedBy("CR", <<One("plain")>>) \o Typed(<<Blank>>),
    EndedBy("CR", <<One("vi"), Word("save")>>) \o Typed(<<One("protected"), One("plain")>>),
    EndedBy("CR", <<Word("exit")>>) \o Typed(<<One("plain"), Blank>>)}

MCInputs == {Typed(lines) : lines \in LineFeedInputs} \cup ReturnInputs \cup LongChains
MCMerged == {One("plain"), One("protected"), Pair("&&")}

MCScript == [lines |-> <<One("su"), One("plain")>>, owner |-> root, group |-> root,
             perms |-> [c \in {"owner", "group", "other"} |-> IF c = "owner" THEN Modes ELSE {"r"}],
             below_root |-> FALSE]
=============================================================================
