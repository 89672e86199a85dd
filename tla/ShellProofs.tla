---------------------------- MODULE ShellProofs ----------------------------
(***************************************************************************)
(* Proofs about one shell session: that the typed lines arrive in order,   *)
(* that a command below /root runs at most once for every time it asked    *)
(* for the password, and what the decisions of _execute_nodes have to do   *)
(* with those of a shell, for every input, script and number of jobs.      *)
(***************************************************************************)
EXTENDS Shell, TLAPS

-----------------------------------------------------------------------------
(* The password prompt                                                     *)

\* The runner that steps answers a prompt, raises one or leaves it.
PromptInv ==
    /\ asked \in Nat /\ authorised \in Nat
    /\ DOMAIN emulator = {"callback", "username", "target"}
    /\ AuthorisedOnce

\* How a step can change the emulator's prompt and the two counts.
PromptStep ==
    /\ DOMAIN emulator' = {"callback", "username", "target"}
    /\ \/ /\ UNCHANGED <<asked, authorised>>
          /\ emulator'.callback # "auth" \/ emulator'.callback = emulator.callback
       \/ asked' = asked + 1 /\ authorised' = authorised
       \/ asked' = asked /\ authorised' = authorised + 1
          /\ emulator.callback = "auth" /\ emulator'.callback # "auth"

LEMMA PromptStepKeeps == PromptInv /\ PromptStep => PromptInv'
<1> SUFFICES ASSUME PromptInv, PromptStep PROVE PromptInv'
  OBVIOUS
<1>1. /\ asked \in Nat /\ authorised \in Nat
      /\ authorised + (IF emulator.callback = "auth" THEN 1 ELSE 0) <= asked
  BY DEF PromptInv, AuthorisedOnce
<1>2. asked' \in Nat /\ authorised' \in Nat
  BY <1>1 DEF PromptStep
<1>3. authorised' + (IF emulator'.callback = "auth" THEN 1 ELSE 0) <= asked'
  BY <1>1 DEF PromptStep
<1> QED BY <1>2, <1>3 DEF PromptInv, PromptStep, AuthorisedOnce

\* Execute, whichever callback there is.
LEMMA ExecutePrompt ==
    ASSUME PromptInv, NEW r, NEW line, Execute(r, line)
    PROVE  PromptStep
<1> DEFINE Fields == {"callback", "username", "target"}
<1>0. DOMAIN emulator = Fields
  BY DEF PromptInv
<1>1. ASSUME NEW callback
      PROVE  DOMAIN Raise(callback) = Fields /\ Raise(callback).callback = callback
  BY <1>0 DEF Raise
<1>2. CASE ExecuteChain(r, line)
  BY <1>0, <1>2 DEF ExecuteChain, PromptStep
<1>3. CASE AnswerSu(r)
  <2>1. DOMAIN emulator' = Fields /\ emulator'.callback = "none" /\ UNCHANGED <<asked, authorised>>
    BY <1>1, <1>3 DEF AnswerSu
  <2> QED BY <2>1 DEF PromptStep
<1>4. CASE AnswerAuth(r)
  <2>1. /\ DOMAIN emulator' = Fields /\ emulator'.callback = "none" /\ emulator.callback = "auth"
        /\ authorised' = authorised + 1 /\ asked' = asked
    BY <1>1, <1>4 DEF AnswerAuth
  <2> QED BY <2>1 DEF PromptStep
<1>5. CASE AnswerEditor(r, line)
  <2>1. /\ \E callback \in Editors \cup {"none"} : emulator' = Raise(callback)
        /\ UNCHANGED <<asked, authorised>>
    BY <1>5 DEF AnswerEditor, Editors
  <2>2. DOMAIN emulator' = Fields /\ emulator'.callback # "auth"
    BY <1>1, <2>1 DEF Editors
  <2> QED BY <2>1, <2>2 DEF PromptStep
<1> QED BY <1>2, <1>3, <1>4, <1>5 DEF Execute

LEMMA CommandPrompt ==
    ASSUME PromptInv, NEW r, NEW cmd, RunCommand(r, cmd)
    PROVE  PromptStep
<1> DEFINE Fields == {"callback", "username", "target"}
<1>0. DOMAIN emulator = Fields
  BY DEF PromptInv
<1>1. ASSUME NEW callback
      PROVE  DOMAIN Raise(callback) = Fields /\ Raise(callback).callback = callback
  BY <1>0 DEF Raise
<1>2. ASSUME UNCHANGED <<emulator, asked, authorised>>
      PROVE  PromptStep
  BY <1>0, <1>2 DEF PromptStep
<1>3. CASE RunPlain(r) \/ RunMissing(r) \/ RunSudo(r) \/ RunBash(r) \/ RunDirect(r)
  BY <1>2, <1>3 DEF RunPlain, RunMissing, RunSudo, RunBash, RunDirect
<1>4. CASE RunSu(r)
  <2>1. /\ \/ emulator' = emulator
           \/ DOMAIN emulator' = Fields /\ emulator'.callback = "su"
        /\ UNCHANGED <<asked, authorised>>
    BY <1>1, <1>4 DEF RunSu
  <2> QED BY <1>0, <2>1 DEF PromptStep
<1>5. CASE RunProtected(r)
  <2>1. \/ UNCHANGED <<emulator, asked, authorised>>
        \/ emulator' = Raise("auth") /\ asked' = asked + 1 /\ authorised' = authorised
    BY <1>5 DEF RunProtected, RunPlain
  <2> QED BY <1>1, <1>2, <2>1 DEF PromptStep
<1>6. CASE RunSudoI(r)
  <2>1. /\ DOMAIN emulator' = Fields /\ emulator'.callback = emulator.callback
        /\ UNCHANGED <<asked, authorised>>
    BY <1>0, <1>6 DEF RunSudoI
  <2> QED BY <2>1 DEF PromptStep
<1>7. ASSUME NEW e \in Editors, OpenEditor(r, e)
      PROVE  PromptStep
  <2>1. emulator' = Raise(e) /\ e # "auth" /\ UNCHANGED <<asked, authorised>>
    BY <1>7 DEF OpenEditor, Editors
  <2> QED BY <1>1, <2>1 DEF PromptStep
<1>8. CASE RunVisudo(r)
  BY <1>2, <1>7, <1>8 DEF RunVisudo, Editors
<1> QED BY <1>3, <1>4, <1>5, <1>6, <1>7, <1>8 DEF RunCommand, Editors

LEMMA PromptInvStep == PromptInv /\ [ShellNext]_vars => PromptInv'
<1> SUFFICES ASSUME PromptInv, [ShellNext]_vars PROVE PromptStep
  BY PromptStepKeeps
<1>1. ASSUME UNCHANGED <<emulator, asked, authorised>>
      PROVE  PromptStep
  BY <1>1 DEF PromptStep, PromptInv
<1>2. ASSUME NEW n, DataReceived(n)
      PROVE  PromptStep
  BY <1>1, <1>2 DEF DataReceived, shellVars
<1>3. CASE AcquireLock \/ AppendChunk \/ Respond \/ EndOfBuffer \/ CloseSession \/ HangUp
  BY <1>1, <1>3 DEF AcquireLock, AppendChunk, Respond, EndOfBuffer, CloseSession, HangUp, shellVars
<1>4. ASSUME NEW cut, TakeBlank(cut) \/ TakeExit(cut) \/ TakeLine(cut)
      PROVE  PromptStep
  BY <1>1, <1>4, ExecutePrompt DEF TakeBlank, TakeExit, TakeLine, shellVars
<1>5. ASSUME NEW r \in Runners, Step(r)
      PROVE  PromptStep
  <2>1. CASE ChainStep(r)
    BY <1>1, <2>1, CommandPrompt DEF ChainStep
  <2>2. CASE ScriptStep(r)
    BY <1>1, <2>2, ExecutePrompt DEF ScriptStep
  <2>3. CASE AuthStep(r)
    BY <1>1, <2>3 DEF AuthStep
  <2> QED BY <1>5, <2>1, <2>2, <2>3 DEF Step
<1>6. ASSUME NEW j, StartJob(j) \/ RefuseJob(j)
      PROVE  PromptStep
  BY <1>1, <1>6, ExecutePrompt DEF StartJob, RefuseJob
<1>7. CASE UNCHANGED vars
  BY <1>1, <1>7 DEF vars
<1> QED BY <1>2, <1>3, <1>4, <1>5, <1>6, <1>7 DEF ShellNext, ReaderStep

\* However the session and the jobs submit lines, a command below /root runs at most
\* once for every time its password was asked for.
THEOREM PasswordsAuthoriseOnce == ShellSpec => []AuthorisedOnce
<1>1. ShellInit => PromptInv
  BY DEF ShellInit, PromptInv, AuthorisedOnce
<1>2. PromptInv => AuthorisedOnce
  BY DEF PromptInv
<1> QED BY <1>1, <1>2, PromptInvStep, PTL DEF ShellSpec

-----------------------------------------------------------------------------
(* The typed lines                                                         *)

\* s is what the client typed between its symbols a and b.
Stretch(s, a, b) ==
    /\ s \in Seq(Nat) /\ a \in Nat /\ b \in Nat /\ Len(s) = b - a /\ a <= b
    /\ \A i \in 1..Len(s) : s[i] = a + i

\* The waiting chunks are the stretches between the ends that `ends` lists, from a on
\* to what has arrived.
Chunks(ends, a, chunks, last) ==
    /\ ends \in Seq(Nat) /\ Len(ends) = Len(chunks) + 1
    /\ ends[1] = a /\ ends[Len(ends)] = last
    /\ \A i \in 1..Len(ends) : ends[i] <= last
    /\ \A i \in 1..Len(chunks) : Stretch(chunks[i], ends[i], ends[i + 1])

\* Lines that were cut off, what is in buf, the chunk of the task that has the lock and
\* the chunks that wait for it are what was typed, each where the one before it ends.
LineInv ==
    /\ typed \in Seq(TypedLines) /\ sent \in Nat /\ sent <= 2 * Len(typed)
    /\ taken \in Seq(Seq(Nat)) /\ LinesInOrder
    /\ waiting \in Seq(Seq(Nat))
    /\ reader \in [state : {"idle", "delayed", "looping", "running"}, chunk : Seq(Nat)]
    /\ reader.state # "delayed" => reader.chunk = <<>>
    /\ \E m \in Nat, e \in Nat, ends \in Seq(Nat) :
          /\ Stretch(buf, Begin(Len(taken) + 1), m)
          /\ Stretch(reader.chunk, m, e)
          /\ Chunks(ends, e, waiting, sent)

LEMMA StretchEmpty == ASSUME NEW a \in Nat PROVE Stretch(<<>>, a, a)
BY DEF Stretch

LEMMA StretchNext ==
    ASSUME NEW a \in Nat, NEW n \in Nat
    PROVE  Stretch([i \in 1..n |-> a + i], a, a + n)
BY DEF Stretch

LEMMA StretchJoined ==
    ASSUME NEW a \in Nat, NEW b \in Nat, NEW c \in Nat, NEW s, NEW t, Stretch(s, a, b), Stretch(t, b, c)
    PROVE  Stretch(s \o t, a, c)
<1>1. s \in Seq(Nat) /\ t \in Seq(Nat) /\ Len(s) = b - a /\ Len(t) = c - b /\ a <= b /\ b <= c
  BY DEF Stretch
<1>2. s \o t \in Seq(Nat) /\ Len(s \o t) = c - a
  BY <1>1
<1>3. ASSUME NEW i \in 1..(c - a)
      PROVE  (s \o t)[i] = a + i
  <2>1. (s \o t)[i] = IF i <= Len(s) THEN s[i] ELSE t[i - Len(s)]
    BY <1>1, <1>3
  <2>2. i <= Len(s) => s[i] = a + i
    BY <1>1, <1>3 DEF Stretch
  <2>3. i > Len(s) => t[i - Len(s)] = b + (i - Len(s))
    BY <1>1, <1>3 DEF Stretch
  <2> QED BY <1>1, <1>3, <2>1, <2>2, <2>3
<1> QED BY <1>1, <1>2, <1>3 DEF Stretch

\* A stretch in two.
LEMMA StretchCut ==
    ASSUME NEW a \in Nat, NEW b \in Nat, NEW s, Stretch(s, a, b), NEW c \in 1..Len(s)
    PROVE  /\ Stretch(SubSeq(s, 1, c), a, a + c)
           /\ Stretch(SubSeq(s, c + 1, Len(s)), a + c, b)
<1>1. /\ s \in Seq(Nat) /\ Len(s) = b - a /\ Len(s) \in Nat /\ c \in Nat /\ c >= 1 /\ c <= Len(s)
      /\ \A i \in 1..Len(s) : s[i] = a + i
  BY DEF Stretch
<1>2. PICK n \in Nat : n = Len(s)
  BY <1>1
<1>3. /\ SubSeq(s, 1, c) \in Seq(Nat) /\ Len(SubSeq(s, 1, c)) = c
      /\ \A i \in 1..c : SubSeq(s, 1, c)[i] = s[i]
  BY <1>1, <1>2
<1>4. SubSeq(s, c + 1, n) \in Seq(Nat) /\ Len(SubSeq(s, c + 1, n)) = n - c
      /\ \A i \in 1..(n - c) : SubSeq(s, c + 1, n)[i] = s[i + c]
  BY <1>1, <1>2
<1>5. \A i \in 1..(n - c) : SubSeq(s, c + 1, n)[i] = (a + c) + i
  BY <1>1, <1>2, <1>4
<1>6. Stretch(SubSeq(s, 1, c), a, a + c)
  BY <1>1, <1>2, <1>3 DEF Stretch
<1>7. Stretch(SubSeq(s, c + 1, n), a + c, b)
  BY <1>1, <1>2, <1>4, <1>5 DEF Stretch
<1> QED BY <1>2, <1>6, <1>7

LEMMA ChunksArrive ==
    ASSUME NEW ends, NEW a, NEW chunks \in Seq(Seq(Nat)), NEW last \in Nat, NEW n \in Nat, NEW chunk,
           Chunks(ends, a, chunks, last), Stretch(chunk, last, last + n)
    PROVE  Chunks(Append(ends, last + n), a, Append(chunks, chunk), last + n)
<1>1. /\ ends \in Seq(Nat) /\ Len(ends) = Len(chunks) + 1 /\ Len(chunks) \in Nat
      /\ ends[1] = a /\ ends[Len(ends)] = last
      /\ \A i \in 1..Len(ends) : ends[i] <= last /\ ends[i] \in Nat
      /\ \A i \in 1..Len(chunks) : Stretch(chunks[i], ends[i], ends[i + 1])
      /\ chunk \in Seq(Nat)
  BY SMTT(30) DEF Chunks, Stretch
<1> DEFINE new == Append(ends, last + n)
           all == Append(chunks, chunk)
<1>2. /\ new \in Seq(Nat) /\ Len(new) = Len(ends) + 1
      /\ \A i \in 1..Len(ends) : new[i] = ends[i]
      /\ new[Len(ends) + 1] = last + n
      /\ Len(all) = Len(chunks) + 1
      /\ \A i \in 1..Len(chunks) : all[i] = chunks[i]
      /\ all[Len(chunks) + 1] = chunk
  BY <1>1
<1> HIDE DEF new, all
<1>3. new[1] = a /\ new[Len(new)] = last + n /\ Len(new) = Len(all) + 1
  BY <1>1, <1>2
<1>4. ASSUME NEW i \in 1..Len(new)
      PROVE  new[i] <= last + n
  <2>1. CASE i \in 1..Len(ends)
    <3>1. new[i] \in Nat /\ new[i] <= last
      BY <1>1, <1>2, <2>1
    <3> QED BY <3>1
  <2>2. CASE i = Len(ends) + 1
    BY <1>2, <2>2
  <2> QED BY <1>1, <1>2, <1>4, <2>1, <2>2
<1>5. ASSUME NEW i \in 1..Len(all)
      PROVE  Stretch(all[i], new[i], new[i + 1])
  <2>1. CASE i \in 1..Len(chunks)
    <3>1. i + 1 \in 1..Len(ends) /\ i \in 1..Len(ends)
      BY <1>1, <2>1
    <3> QED BY <1>1, <1>2, <2>1, <3>1
  <2>2. CASE i = Len(chunks) + 1
    <3>1. new[i] = last /\ new[i + 1] = last + n /\ all[i] = chunk
      BY <1>1, <1>2, <2>2
    <3> QED BY <3>1
  <2> QED BY <1>1, <1>2, <1>5, <2>1, <2>2
<1> QED BY <1>2, <1>3, <1>4, <1>5 DEF Chunks, new, all

LEMMA ChunksLeave ==
    ASSUME NEW ends, NEW a, NEW chunks \in Seq(Seq(Nat)), NEW last \in Nat, chunks # <<>>,
           Chunks(ends, a, chunks, last)
    PROVE  /\ Stretch(Head(chunks), a, ends[2]) /\ ends[2] \in Nat
           /\ Tail(ends) \in Seq(Nat)
           /\ Chunks(Tail(ends), ends[2], Tail(chunks), last)
<1>0. Len(chunks) \in Nat /\ Len(chunks) >= 1
  OBVIOUS
<1>1. /\ ends \in Seq(Nat) /\ Len(ends) = Len(chunks) + 1 /\ Len(chunks) \in Nat /\ Len(chunks) >= 1
      /\ ends[1] = a /\ ends[Len(ends)] = last
      /\ \A i \in 1..Len(ends) : ends[i] <= last /\ ends[i] \in Nat
      /\ \A i \in 1..Len(chunks) : Stretch(chunks[i], ends[i], ends[i + 1])
  BY <1>0 DEF Chunks
<1>2. /\ Tail(ends) \in Seq(Nat) /\ Len(Tail(ends)) = Len(chunks)
      /\ Len(Tail(chunks)) = Len(chunks) - 1
      /\ Head(chunks) = chunks[1]
      /\ \A i \in 1..Len(chunks) : Tail(ends)[i] = ends[i + 1]
      /\ \A i \in 1..(Len(chunks) - 1) : Tail(chunks)[i] = chunks[i + 1]
  BY <1>1
<1>3. Stretch(Head(chunks), a, ends[2]) /\ ends[2] \in Nat
  <2>1. 1 \in 1..Len(chunks) /\ 2 \in 1..Len(ends) /\ 1 + 1 = 2
    BY <1>1
  <2> QED BY <1>1, <1>2, <2>1
<1>4. Tail(ends)[1] = ends[2] /\ Tail(ends)[Len(chunks)] = last
  BY <1>1, <1>2
<1>5. \A i \in 1..Len(chunks) : Tail(ends)[i] <= last
  BY <1>1, <1>2, SMTT(30)
<1>6. ASSUME NEW i \in 1..(Len(chunks) - 1)
      PROVE  Stretch(Tail(chunks)[i], Tail(ends)[i], Tail(ends)[i + 1])
  <2>1. i + 1 \in 1..Len(chunks) /\ i \in 1..Len(chunks)
    BY <1>1, <1>6
  <2> QED BY <1>1, <1>2, <2>1
<1>7. Len(Tail(ends)) = Len(Tail(chunks)) + 1 /\ Tail(ends)[Len(Tail(ends))] = last
  BY <1>1, <1>2, <1>4, SMTT(30)
<1>8. \A i \in 1..Len(Tail(ends)) : Tail(ends)[i] <= last
  BY <1>2, <1>5
<1>9. \A i \in 1..Len(Tail(chunks)) : Stretch(Tail(chunks)[i], Tail(ends)[i], Tail(ends)[i + 1])
  BY <1>2, <1>6
<1>10. Chunks(Tail(ends), ends[2], Tail(chunks), last)
  BY <1>2, <1>4, <1>7, <1>8, <1>9 DEF Chunks
<1> QED BY <1>2, <1>3, <1>10

\* What is in buf was typed: each of its symbols belongs to one of the typed lines.
LEMMA BufWasTyped ==
    ASSUME LineInv
    PROVE  \A i \in 1..Len(buf) : LineNumber(buf[i]) \in 1..Len(typed) /\ typed[LineNumber(buf[i])] \in TypedLines
<1>1. PICK m \in Nat, e \in Nat, ends \in Seq(Nat) :
          /\ Stretch(buf, Begin(Len(taken) + 1), m) /\ Stretch(reader.chunk, m, e)
          /\ Chunks(ends, e, waiting, sent)
  BY DEF LineInv
<1>2. /\ typed \in Seq(TypedLines) /\ Len(typed) \in Nat
      /\ sent \in Nat /\ sent <= 2 * Len(typed) /\ Len(waiting) \in Nat
  BY DEF LineInv
<1>3. m <= e /\ e <= sent
  <2>1. Len(ends) = Len(waiting) + 1 /\ ends[1] = e /\ \A i \in 1..Len(ends) : ends[i] <= sent
    BY <1>1 DEF Chunks
  <2>2. m <= e
    BY <1>1 DEF Stretch
  <2> QED BY <1>2, <2>1, <2>2
<1> SUFFICES ASSUME NEW i \in 1..Len(buf)
             PROVE  LineNumber(buf[i]) \in 1..Len(typed)
  BY <1>2
<1>4. PICK a \in Nat : /\ Len(buf) = m - a /\ buf[i] = a + i
  BY <1>1 DEF Stretch
<1>5. PICK x \in Nat : x = buf[i] /\ 1 <= x /\ x <= 2 * Len(typed)
  BY <1>1, <1>2, <1>3, <1>4
<1>6. (x + 1) \div 2 \in Nat /\ 1 <= (x + 1) \div 2 /\ (x + 1) \div 2 <= Len(typed)
  BY <1>2, <1>5
<1> QED BY <1>2, <1>5, <1>6 DEF LineNumber

\* Where buf is cut a line ends, and those that end before it in buf end in carriage
\* returns, if any does.
LEMMA CutIsEnd ==
    ASSUME LineInv, NEW cut, cut \in Ends, \A i \in Ends : cut <= i
    PROVE  /\ cut \in 1..Len(buf) /\ buf[cut] % 2 = 0
           /\ \A i \in 1..(cut - 1) : buf[i] % 2 = 0 =>
                /\ typed[LineNumber(buf[i])].feed = "CR"
                /\ typed[LineNumber(buf[cut])].feed = "LF"
<1>1. buf \in Seq(Nat) /\ Len(buf) \in Nat
  BY DEF LineInv, Stretch
<1>2. DOMAIN buf = 1..Len(buf)
  BY <1>1
<1>3. cut \in Feeds /\ (LineFeeds # {} => cut \in LineFeeds)
  BY DEF Ends, LineFeeds
<1>4. cut \in 1..Len(buf) /\ buf[cut] % 2 = 0
  BY <1>2, <1>3 DEF Feeds
<1>5. ASSUME NEW i \in 1..(cut - 1), buf[i] % 2 = 0
      PROVE  typed[LineNumber(buf[i])].feed = "CR" /\ typed[LineNumber(buf[cut])].feed = "LF"
  <2>1. i \in 1..Len(buf) /\ ~(cut <= i)
    BY <1>1, <1>4, <1>5
  <2>2. i \in Feeds /\ i \notin Ends
    BY <1>2, <1>5, <2>1 DEF Feeds
  <2>3. LineFeeds # {} /\ i \notin LineFeeds
    BY <2>2 DEF Ends
  <2>4. typed[LineNumber(buf[i])].feed # "LF" /\ typed[LineNumber(buf[cut])].feed = "LF"
    BY <1>3, <2>2, <2>3 DEF LineFeeds
  <2>5. typed[LineNumber(buf[i])].feed \in {"LF", "CR"}
    BY <2>1, BufWasTyped DEF TypedLines
  <2> QED BY <2>4, <2>5
<1> QED BY <1>4, <1>5

\* A line that is cut off joins those that were, and is what stood in buf.
LEMMA LineTaken ==
    ASSUME LineInv, NEW cut, CutLine(cut)
    PROVE  /\ taken' \in Seq(Seq(Nat)) /\ Len(taken') = Len(taken) + 1
           /\ \A k \in 1..Len(taken) : taken'[k] = taken[k]
           /\ Len(taken'[Len(taken) + 1]) = cut /\ cut \in 1..Len(buf)
           /\ \A i \in 1..cut : /\ taken'[Len(taken) + 1][i] = Begin(Len(taken) + 1) + i
                                /\ taken'[Len(taken) + 1][i] = buf[i]
           /\ \A m \in Nat : Stretch(buf, Begin(Len(taken) + 1), m) =>
                    Stretch(buf', Begin(Len(taken) + 1) + cut, m)
<1> DEFINE d == Begin(Len(taken) + 1)
<1>1. PICK m \in Nat : Stretch(buf, d, m)
  BY DEF LineInv
<1>2. cut \in Ends /\ (\A i \in Ends : cut <= i) /\ buf' = SubSeq(buf, cut + 1, Len(buf))
      /\ taken' = Append(taken, SubSeq(buf, 1, cut))
  BY DEF CutLine
<1>3. cut \in 1..Len(buf)
  BY <1>2, CutIsEnd
<1> HIDE DEF d
<1>8. d \in Nat
  BY <1>1 DEF Stretch
<1>4. PICK line : line = SubSeq(buf, 1, cut) /\ Stretch(line, d, d + cut)
  BY <1>1, <1>3, <1>8, StretchCut
<1>5. line \in Seq(Nat) /\ Len(line) = cut /\ \A i \in 1..cut : line[i] = d + i /\ buf[i] = d + i
  <2>1. /\ Len(line) = (d + cut) - d /\ d \in Nat /\ line \in Seq(Nat)
        /\ \A i \in 1..Len(line) : line[i] = d + i
    BY <1>4 DEF Stretch
  <2>2. Len(buf) \in Nat /\ \A i \in 1..Len(buf) : buf[i] = d + i
    BY <1>1 DEF Stretch
  <2>3. Len(line) = cut /\ \A i \in 1..cut : i \in 1..Len(buf)
    BY <1>3, <2>1, <2>2
  <2> QED BY <2>1, <2>2, <2>3
<1>6. /\ taken' \in Seq(Seq(Nat)) /\ Len(taken') = Len(taken) + 1
      /\ \A k \in 1..Len(taken) : taken'[k] = taken[k]
      /\ taken'[Len(taken) + 1] = line
  <2>1. taken \in Seq(Seq(Nat)) /\ taken' = Append(taken, line)
    BY <1>2, <1>4 DEF LineInv
  <2> QED BY <1>5, <2>1
<1>7. \A k \in Nat : Stretch(buf, d, k) => Stretch(buf', d + cut, k)
  BY <1>2, <1>3, <1>8, StretchCut
<1> QED BY <1>3, <1>5, <1>6, <1>7 DEF d

LEMMA LineInvInit == ShellInit => LineInv
<1> SUFFICES ASSUME ShellInit PROVE LineInv
  OBVIOUS
<1>1. /\ typed \in Seq(TypedLines) /\ sent = 0 /\ waiting = <<>> /\ buf = <<>> /\ taken = <<>>
      /\ reader = [state |-> "idle", chunk |-> <<>>]
  BY ShellAssumption DEF ShellInit
<1>2. Chunks(<<0>>, 0, waiting, sent)
  <2>1. <<0>> \in Seq(Nat) /\ Len(<<0>>) = 1 /\ <<0>>[1] = 0 /\ Len(waiting) = 0
    BY <1>1
  <2> QED BY <1>1, <2>1 DEF Chunks
<1>3. Stretch(buf, Begin(Len(taken) + 1), 0) /\ Stretch(reader.chunk, 0, 0) /\ LinesInOrder
  BY <1>1, StretchEmpty DEF Begin, LinesInOrder
<1>4. \E m \in Nat, e \in Nat, ends \in Seq(Nat) :
          Stretch(buf, Begin(Len(taken) + 1), m) /\ Stretch(reader.chunk, m, e) /\ Chunks(ends, e, waiting, sent)
  <2>1. <<0>> \in Seq(Nat)
    OBVIOUS
  <2> QED BY <1>2, <1>3, <2>1
<1> QED BY <1>1, <1>3, <1>4 DEF LineInv

LEMMA LineInvStep == LineInv /\ [ShellNext]_vars => LineInv'
<1> SUFFICES ASSUME LineInv, [ShellNext]_vars PROVE LineInv'
  OBVIOUS
<1>0. /\ typed \in Seq(TypedLines) /\ Len(typed) \in Nat /\ sent \in Nat /\ sent <= 2 * Len(typed)
      /\ taken \in Seq(Seq(Nat)) /\ Len(taken) \in Nat /\ LinesInOrder
      /\ waiting \in Seq(Seq(Nat))
      /\ reader \in [state : {"idle", "delayed", "looping", "running"}, chunk : Seq(Nat)]
      /\ reader.state # "delayed" => reader.chunk = <<>>
  BY DEF LineInv
<1>1. PICK m \in Nat, e \in Nat, ends \in Seq(Nat) :
          /\ Stretch(buf, Begin(Len(taken) + 1), m)
          /\ Stretch(reader.chunk, m, e)
          /\ Chunks(ends, e, waiting, sent)
  BY DEF LineInv
<1>15. ASSUME UNCHANGED <<typed, taken>>
       PROVE  LinesInOrder' /\ Begin(Len(taken) + 1)' = Begin(Len(taken) + 1)
  BY <1>0, <1>15 DEF LinesInOrder, Begin
<1>2. ASSUME UNCHANGED <<typed, sent, waiting, buf, taken>>,
             reader' \in [state : {"idle", "delayed", "looping", "running"}, chunk : Seq(Nat)],
             reader'.chunk = reader.chunk, reader'.state # "delayed" => reader'.chunk = <<>>
      PROVE  LineInv'
  BY <1>0, <1>1, <1>2, <1>15 DEF LineInv
<1>3. ASSUME UNCHANGED <<inputVars, reader>>
      PROVE  LineInv'
  BY <1>0, <1>2, <1>3 DEF inputVars
<1>4. ASSUME NEW n \in 1..(2 * Len(typed)), DataReceived(n)
      PROVE  LineInv'
  <2> DEFINE chunk == [i \in 1..n |-> sent + i]
  <2>1. /\ n \in Nat /\ sent + n <= 2 * Len(typed) /\ sent + n \in Nat
        /\ waiting' = Append(waiting, chunk) /\ sent' = sent + n
        /\ UNCHANGED <<typed, reader, buf, taken>>
    BY <1>0, <1>4 DEF DataReceived
  <2>2. Stretch(chunk, sent, sent + n)
    BY <1>0, <2>1, StretchNext
  <2>3. chunk \in Seq(Nat)
    BY <2>2 DEF Stretch
  <2> HIDE DEF chunk
  <2>4. Chunks(Append(ends, sent + n), e, waiting', sent') /\ Append(ends, sent + n) \in Seq(Nat)
    <3>1. Chunks(Append(ends, sent + n), e, Append(waiting, chunk), sent + n)
      BY <1>0, <1>1, <2>1, <2>2, ChunksArrive
    <3> QED BY <2>1, <3>1
  <2>5. \E m2 \in Nat, e2 \in Nat, ends2 \in Seq(Nat) :
            Stretch(buf, Begin(Len(taken) + 1), m2) /\ Stretch(reader.chunk, m2, e2) /\ Chunks(ends2, e2, waiting', sent')
    BY <1>1, <2>4
  <2>6. waiting' \in Seq(Seq(Nat))
    BY <1>0, <2>1, <2>3
  <2> QED BY <1>0, <1>15, <2>1, <2>5, <2>6 DEF LineInv
<1>5. CASE AcquireLock
  <2>1. /\ reader.state = "idle" /\ waiting # <<>>
        /\ reader' = [state |-> "delayed", chunk |-> Head(waiting)] /\ waiting' = Tail(waiting)
        /\ UNCHANGED <<typed, sent, buf, taken>>
    BY <1>5 DEF AcquireLock
  <2>2. reader.chunk = <<>> /\ Head(waiting) \in Seq(Nat) /\ waiting' \in Seq(Seq(Nat))
    BY <1>0, <2>1
  <2>3. m = e
    BY <1>1, <2>2 DEF Stretch
  <2>4. /\ Stretch(Head(waiting), m, ends[2]) /\ ends[2] \in Nat /\ Tail(ends) \in Seq(Nat)
        /\ Chunks(Tail(ends), ends[2], waiting', sent)
    BY <1>0, <1>1, <2>1, <2>3, ChunksLeave
  <2>5. reader'.chunk = Head(waiting) /\ reader'.state = "delayed"
        /\ reader' \in [state : {"idle", "delayed", "looping", "running"}, chunk : Seq(Nat)]
    BY <2>1, <2>2
  <2>6. \E m2 \in Nat, e2 \in Nat, ends2 \in Seq(Nat) :
            Stretch(buf, Begin(Len(taken) + 1), m2) /\ Stretch(reader'.chunk, m2, e2) /\ Chunks(ends2, e2, waiting', sent)
    BY <1>1, <2>4, <2>5
  <2> QED BY <1>0, <1>15, <2>1, <2>2, <2>5, <2>6 DEF LineInv
<1>6. CASE AppendChunk
  <2>1. /\ buf' = buf \o reader.chunk /\ reader' = [state |-> "looping", chunk |-> <<>>]
        /\ UNCHANGED <<typed, sent, waiting, taken>>
    BY <1>6 DEF AppendChunk
  <2>2. Stretch(buf', Begin(Len(taken) + 1), e)
    <3>1. Begin(Len(taken) + 1) \in Nat
      BY <1>1 DEF Stretch
    <3> QED BY <1>1, <2>1, <3>1, StretchJoined
  <2>3. reader'.chunk = <<>> /\ reader'.state = "looping"
        /\ reader' \in [state : {"idle", "delayed", "looping", "running"}, chunk : Seq(Nat)]
    BY <2>1
  <2>4. Stretch(reader'.chunk, e, e)
    BY <2>3, StretchEmpty
  <2>5. \E m2 \in Nat, e2 \in Nat, ends2 \in Seq(Nat) :
            Stretch(buf', Begin(Len(taken) + 1), m2) /\ Stretch(reader'.chunk, m2, e2) /\ Chunks(ends2, e2, waiting, sent)
    BY <1>1, <2>2, <2>4
  <2> QED BY <1>0, <1>15, <2>1, <2>3, <2>5 DEF LineInv
<1>7. ASSUME NEW cut, CutLine(cut), reader' \in [state : {"idle", "delayed", "looping", "running"}, chunk : Seq(Nat)],
             reader'.chunk = <<>>
      PROVE  LineInv'
  <2> DEFINE T == Len(taken)
             d == Begin(T + 1)
             line == taken'[T + 1]
  <2>1. /\ cut \in Ends /\ (\A i \in Ends : cut <= i) /\ reader.state = "looping"
        /\ UNCHANGED <<typed, sent, waiting>>
    BY <1>7 DEF CutLine
  <2>2. /\ taken' \in Seq(Seq(Nat)) /\ Len(taken') = T + 1
        /\ \A k \in 1..T : taken'[k] = taken[k]
        /\ Len(line) = cut /\ cut \in 1..Len(buf) /\ \A i \in 1..cut : line[i] = d + i /\ line[i] = buf[i]
        /\ Stretch(buf', d + cut, m)
    BY <1>1, <1>7, LineTaken
  <2>3. /\ buf[cut] % 2 = 0
        /\ \A i \in 1..(cut - 1) : buf[i] % 2 = 0 =>
                typed[LineNumber(buf[i])].feed = "CR" /\ typed[LineNumber(buf[cut])].feed = "LF"
    BY <2>1, CutIsEnd
  <2>4. Len(buf) \in Nat /\ d \in Nat
    BY <1>1 DEF Stretch
  <2>5. T + 1 \in 1..Len(taken') /\ line \in Seq(Nat) /\ DOMAIN line = 1..cut /\ T \in Nat
        /\ cut \in Nat /\ cut >= 1 /\ cut \in 1..cut
    BY <1>0, <2>2, <2>4
  <2>6. Last(line) = d + cut /\ Last(line) = buf[cut] /\ line # <<>>
    BY <2>2, <2>5 DEF Last
  <2>7. ASSUME NEW k \in 1..(T + 1)
        PROVE  Begin(k)' = Begin(k)
    <3>1. k # 1 => k - 1 \in 1..T
      BY <2>5, <2>7
    <3> QED BY <2>2, <3>1 DEF Begin
  <2>8. Begin(Len(taken) + 1)' = d + cut
    <3>1. T + 2 # 1 /\ (T + 2) - 1 = T + 1
      BY <2>5
    <3>2. Len(taken') + 1 = T + 2
      BY <2>2, <2>5
    <3> HIDE DEF T, d
    <3> QED BY <2>6, <3>1, <3>2 DEF Begin
  <2>9. LinesInOrder'
    <3>1. ASSUME NEW k \in 1..(T + 1)
          PROVE  /\ taken'[k] # <<>> /\ \A i \in DOMAIN taken'[k] : taken'[k][i] = Begin(k)' + i
                 /\ Last(taken'[k]) % 2 = 0
                 /\ \A i \in 1..(Len(taken'[k]) - 1) : taken'[k][i] % 2 = 0 =>
                        /\ typed'[LineNumber(taken'[k][i])].feed = "CR"
                        /\ typed'[LineNumber(Last(taken'[k]))].feed = "LF"
      <4>1. CASE k \in 1..T
        <5>1. k \in DOMAIN taken
          BY <1>0, <4>1
        <5>2. /\ taken[k] # <<>> /\ \A i \in DOMAIN taken[k] : taken[k][i] = Begin(k) + i
              /\ Last(taken[k]) % 2 = 0
              /\ \A i \in 1..(Len(taken[k]) - 1) : taken[k][i] % 2 = 0 =>
                     /\ typed[LineNumber(taken[k][i])].feed = "CR"
                     /\ typed[LineNumber(Last(taken[k]))].feed = "LF"
          BY <1>0, <5>1 DEF LinesInOrder
        <5>3. taken'[k] = taken[k] /\ Begin(k)' = Begin(k) /\ typed' = typed
          BY <2>1, <2>2, <2>7, <4>1, <3>1
        <5> QED BY <5>2, <5>3
      <4>2. CASE k = T + 1
        <5>1. \A i \in 1..(cut - 1) : i \in 1..cut
          BY <2>5
        <5>2. Begin(k)' = d
          BY <2>7, <4>2
        <5>3. taken'[k] = line /\ typed' = typed
          BY <2>1, <4>2
        <5>4. \A i \in DOMAIN line : line[i] = d + i
          BY <2>2, <2>5
        <5>5. Last(line) % 2 = 0
          BY <2>3, <2>6
        <5>6. Len(line) = cut /\ \A i \in 1..(cut - 1) : line[i] = buf[i]
          BY <2>2, <5>1
        <5> HIDE DEF line, T, d
        <5>7. \A i \in 1..(Len(line) - 1) : line[i] % 2 = 0 =>
                 typed[LineNumber(line[i])].feed = "CR" /\ typed[LineNumber(Last(line))].feed = "LF"
          BY <2>3, <2>6, <5>6
        <5> QED BY <2>6, <5>2, <5>3, <5>4, <5>5, <5>7
      <4> QED BY <2>5, <3>1, <4>1, <4>2
    <3>2. DOMAIN taken' = 1..(T + 1)
      BY <2>2
    <3> HIDE DEF T
    <3> QED BY <3>1, <3>2 DEF LinesInOrder
  <2>10. reader.chunk = <<>>
    BY <1>0, <2>1
  <2>11. \E m2 \in Nat, e2 \in Nat, ends2 \in Seq(Nat) :
            Stretch(buf', Begin(Len(taken) + 1)', m2) /\ Stretch(reader'.chunk, m2, e2) /\ Chunks(ends2, e2, waiting, sent)
    BY <1>1, <1>7, <2>2, <2>8, <2>10
  <2> QED BY <1>0, <1>7, <2>1, <2>2, <2>9, <2>11 DEF LineInv
<1>8. ASSUME NEW cut, TakeBlank(cut) \/ TakeExit(cut)
      PROVE  LineInv'
  <2>1. CutLine(cut) /\ reader.state = "looping"
    BY <1>8 DEF TakeBlank, TakeExit, CutLine
  <2>2. /\ reader' \in [state : {"idle", "delayed", "looping", "running"}, chunk : Seq(Nat)]
        /\ reader'.chunk = <<>>
    BY <1>0, <1>8, <2>1 DEF TakeBlank, TakeExit
  <2> QED BY <1>7, <2>1, <2>2
<1>9. ASSUME NEW cut, TakeLine(cut)
      PROVE  LineInv'
  <2>1. CutLine(cut) /\ reader' = [reader EXCEPT !.state = "running"] /\ reader.state = "looping"
    BY <1>9 DEF TakeLine, CutLine
  <2> QED BY <1>0, <1>7, <2>1
<1>10. CASE Respond \/ EndOfBuffer
  <2>1. /\ reader.state \in {"running", "looping"}
        /\ \E state \in {"idle", "looping"} : reader' = [reader EXCEPT !.state = state]
        /\ UNCHANGED inputVars
    BY <1>10 DEF Respond, EndOfBuffer
  <2>2. /\ reader' \in [state : {"idle", "delayed", "looping", "running"}, chunk : Seq(Nat)]
        /\ reader'.chunk = reader.chunk /\ reader.chunk = <<>>
    BY <1>0, <2>1
  <2> QED BY <1>2, <2>1, <2>2 DEF inputVars
<1>11. CASE CloseSession \/ HangUp
  BY <1>0, <1>2, <1>11 DEF CloseSession, HangUp
<1>12. ASSUME NEW r \in Runners, Step(r)
       PROVE  LineInv'
  BY <1>3, <1>12 DEF Step
<1>13. ASSUME NEW j \in 1..MaxJobs, StartJob(j) \/ RefuseJob(j)
       PROVE  LineInv'
  BY <1>3, <1>13 DEF StartJob, RefuseJob
<1>14. CASE UNCHANGED vars
  BY <1>3, <1>14 DEF vars, inputVars
<1> QED BY <1>4, <1>5, <1>6, <1>8, <1>9, <1>10, <1>11, <1>12, <1>13, <1>14 DEF ShellNext, ReaderStep

\* What was typed is cut into lines without loss, doubling or exchange, for every input
\* and every way of cutting it into chunks; a line reaches over the end of another only
\* if that is a carriage return and its own end a line feed.
THEOREM TypedLinesStayInOrder == ShellSpec => []LinesInOrder
<1>1. LineInv => LinesInOrder
  BY DEF LineInv
<1> QED BY <1>1, LineInvInit, LineInvStep, PTL DEF ShellSpec

\* A client that ends all its lines alike has them read as it typed them.
Alike == \A n, k \in DOMAIN typed : typed[n].feed = typed[k].feed
WholeLines == Alike => \A k \in DOMAIN taken : taken[k] = <<2 * k - 1, 2 * k>>

LEMMA WholeLinesStep == LineInv /\ WholeLines /\ [ShellNext]_vars => WholeLines'
<1> SUFFICES ASSUME LineInv, WholeLines, [ShellNext]_vars, Alike'
             PROVE  \A k \in DOMAIN taken' : taken'[k] = <<2 * k - 1, 2 * k>>
  BY DEF WholeLines
<1>1. typed' = typed
  BY DEF ShellNext, ReaderStep, DataReceived, AcquireLock, AppendChunk, TakeBlank, TakeExit, TakeLine,
         CutLine, Respond, EndOfBuffer, CloseSession, HangUp, Step, StartJob, RefuseJob, vars, inputVars
<1>2. Alike /\ \A k \in DOMAIN taken : taken[k] = <<2 * k - 1, 2 * k>>
  BY <1>1 DEF Alike, WholeLines
<1>3. ASSUME NEW cut, CutLine(cut)
      PROVE  \A k \in DOMAIN taken' : taken'[k] = <<2 * k - 1, 2 * k>>
  <2> DEFINE T == Len(taken)
             line == taken'[T + 1]
  <2>1. cut \in Ends /\ (\A i \in Ends : cut <= i)
    BY <1>3 DEF CutLine
  <2>2. T \in Nat /\ taken \in Seq(Seq(Nat)) /\ DOMAIN taken = 1..T
    BY DEF LineInv
  <2>3. /\ taken' \in Seq(Seq(Nat)) /\ Len(taken') = T + 1
        /\ \A k \in 1..T : taken'[k] = taken[k]
        /\ Len(line) = cut /\ cut \in 1..Len(buf)
        /\ \A i \in 1..cut : line[i] = Begin(T + 1) + i /\ line[i] = buf[i]
    BY <1>3, LineTaken
  <2>4. Begin(T + 1) = 2 * T
    <3>1. CASE T = 0
      BY <3>1 DEF Begin
    <3>2. CASE T # 0
      <4>1. T \in DOMAIN taken /\ T + 1 # 1 /\ (T + 1) - 1 = T
        BY <2>2, <3>2
      <4>2. taken[T] = <<2 * T - 1, 2 * T>>
        BY <1>2, <4>1
      <4>3. Last(taken[T]) = 2 * T
        BY <4>2 DEF Last
      <4> HIDE DEF T
      <4> QED BY <4>1, <4>3 DEF Begin
    <3> QED BY <3>1, <3>2
  <2>5. Len(buf) \in Nat /\ cut \in Nat /\ cut >= 1 /\ cut <= Len(buf)
    <3>1. Len(buf) \in Nat
      BY DEF LineInv, Stretch
    <3> QED BY <2>3, <3>1
  <2>6. /\ buf[cut] % 2 = 0
        /\ \A i \in 1..(cut - 1) : buf[i] % 2 # 0
    <3>1. ASSUME NEW i \in 1..(cut - 1), buf[i] % 2 = 0
          PROVE  FALSE
      <4>1. typed[LineNumber(buf[i])].feed = "CR" /\ typed[LineNumber(buf[cut])].feed = "LF"
        BY <2>1, <3>1, CutIsEnd
      <4>2. i \in 1..Len(buf)
        BY <2>5, <3>1
      <4>3. LineNumber(buf[i]) \in 1..Len(typed) /\ LineNumber(buf[cut]) \in 1..Len(typed)
        BY <2>3, <4>2, BufWasTyped
      <4>4. DOMAIN typed = 1..Len(typed)
        BY DEF LineInv
      <4> QED BY <1>2, <4>1, <4>3, <4>4 DEF Alike
    <3> QED BY <2>1, <3>1, CutIsEnd
  <2>7. cut = 2
    <3>1. cut # 1
      <4>1. cut = 1 => buf[cut] = 2 * T + 1
        BY <2>3, <2>4
      <4> HIDE DEF T
      <4> QED BY <2>2, <2>6, <4>1
    <3>2. ~(cut > 2)
      <4>1. cut > 2 => buf[2] = 2 * T + 2 /\ 2 \in 1..(cut - 1)
        BY <2>3, <2>4, <2>5
      <4> HIDE DEF T
      <4> QED BY <2>2, <2>6, <4>1
    <3> QED BY <2>5, <3>1, <3>2
  <2>8. line = <<2 * (T + 1) - 1, 2 * (T + 1)>>
    <3>1. line[1] = 2 * T + 1 /\ line[2] = 2 * T + 2 /\ Len(line) = 2
      BY <2>2, <2>3, <2>4, <2>7
    <3>2. T + 1 \in 1..Len(taken')
      BY <2>2, <2>3
    <3>3. line \in Seq(Nat)
      BY <2>3, <3>2
    <3>4. 2 * (T + 1) - 1 = 2 * T + 1 /\ 2 * (T + 1) = 2 * T + 2
      BY <2>2
    <3>5. ASSUME NEW t \in Seq(Nat), Len(t) = 2, NEW x, NEW y, t[1] = x, t[2] = y
          PROVE  t = <<x, y>>
      BY <3>5
    <3> HIDE DEF line, T
    <3> QED BY <3>1, <3>3, <3>4, <3>5
  <2>9. ASSUME NEW k \in 1..(T + 1)
        PROVE  taken'[k] = <<2 * k - 1, 2 * k>>
    <3>1. CASE k \in 1..T
      BY <1>2, <2>2, <2>3, <3>1
    <3>2. CASE k = T + 1
      BY <2>8, <3>2
    <3> QED BY <2>2, <3>1, <3>2
  <2>10. DOMAIN taken' = 1..(T + 1)
    BY <2>3
  <2> QED BY <2>9, <2>10
<1>4. CASE taken' = taken
  BY <1>2, <1>4
<1>5. taken' = taken \/ \E cut : CutLine(cut)
  BY DEF ShellNext, ReaderStep, DataReceived, AcquireLock, AppendChunk, TakeBlank, TakeExit, TakeLine,
         Respond, EndOfBuffer, CloseSession, HangUp, Step, StartJob, RefuseJob, vars, inputVars
<1> QED BY <1>3, <1>4, <1>5

\* With lines that all end alike, in line feeds or in carriage returns, every line that
\* is read is the next one typed, however the input is cut into chunks.
THEOREM LinesAreReadWhole == ShellSpec => []WholeLines
<1>1. ShellInit => WholeLines
  BY DEF ShellInit, WholeLines
<1> QED BY <1>1, LineInvInit, LineInvStep, WholeLinesStep, PTL DEF ShellSpec

-----------------------------------------------------------------------------
(* The decisions of a chain                                                *)

ChainRecords == [kind : {"chain"}, nodes : Chains, segment : Nat, should : BOOLEAN, rc : Nat, log : Seq(Int)]
Frames == ChainRecords \cup [kind : {"script"}, at : Nat \ {0}, rc : Nat] \cup [kind : {"auth"}]

\* What a shell decides about node j by the node before it alone.
Condition(nodes, log, j) ==
    \/ j = 1
    \/ nodes[j - 1].op \in {";", "&"}
    \/ nodes[j - 1].op = "&&" /\ log[j - 1] = 0
    \/ nodes[j - 1].op = "||" /\ log[j - 1] # 0

AllRan(log, n) == \A i \in 1..n : log[i] # Skipped

\* What PlainChainsFollowShell says of node j.
Decided(nodes, log, j) ==
    AllRan(log, j - 1) =>
        /\ Condition(nodes, log, j) => log[j] # Skipped
        /\ log[j] # Skipped => Condition(nodes, log, j) \/ nodes[j].op \in {"&&", "||", "&"}

\* As long as no node was skipped, should_execute is what a shell decides.
ChainOk(f) ==
    /\ Len(f.log) <= Len(f.nodes)
    /\ \A j \in 1..Len(f.log) : Decided(f.nodes, f.log, j)
    /\ AllRan(f.log, Len(f.log)) /\ Len(f.log) < Len(f.nodes) =>
          (f.should <=> Condition(f.nodes, f.log, Len(f.log) + 1))

FrameOk(f) == f.kind = "chain" => ChainOk(f)

\* The chain's next node was found to run.
Running(f) ==
    /\ Len(f.log) < Len(f.nodes)
    /\ f.should \/ ShouldSkipNode(f.nodes[Len(f.log) + 1], f.rc)

\* A frame that waits for what is above it.
Waits(f) == f.kind \in {"chain", "script"} /\ (f.kind = "chain" => Running(f))

\* The command before j ran, so its status is the last one.
LEMMA ConditionOfShell ==
    ASSUME NEW nodes, NEW log \in Seq(Int), NEW j \in 1..(Len(log) + 1), AllRan(log, j - 1)
    PROVE  ShellRuns(nodes, log, j) <=> Condition(nodes, log, j)
<1>1. CASE j = 1
  BY <1>1 DEF ShellRuns, Condition
<1>2. CASE j # 1
  <2> DEFINE Newest(i) == Ran(log, i) /\ \A k \in (i + 1)..(j - 1) : ~Ran(log, k)
  <2>1. j \in Nat /\ j - 1 \in 1..(j - 1)
    BY <1>2
  <2>2. \A i \in 1..(j - 1) : Ran(log, i)
    BY DEF AllRan, Ran
  <2>3. Newest(j - 1)
    <3>1. ((j - 1) + 1)..(j - 1) = {}
      BY <2>1
    <3> QED BY <2>1, <2>2, <3>1
  <2>4. \A i \in 1..(j - 1) : Newest(i) => i = j - 1
    <3> SUFFICES ASSUME NEW i \in 1..(j - 1), Newest(i), i # j - 1 PROVE FALSE
      OBVIOUS
    <3>1. i + 1 \in (i + 1)..(j - 1) /\ i + 1 \in 1..(j - 1)
      BY <2>1
    <3> QED BY <2>2, <3>1
  <2> HIDE DEF Newest
  <2>5. (CHOOSE i \in 1..(j - 1) : Newest(i)) = j - 1
    BY <2>1, <2>3, <2>4
  <2>6. LastStatus(log, j) = log[j - 1]
    BY <2>5 DEF LastStatus, Newest
  <2> QED BY <1>2, <2>6 DEF ShellRuns, Condition
<1> QED BY <1>1, <1>2

\* A chain frame whose node n + 1 has the status rc, or was skipped.
LEMMA NodeLogged ==
    ASSUME NEW f \in ChainRecords, ChainOk(f), NEW n \in Nat, n = Len(f.log), n < Len(f.nodes),
           NEW rc \in Int,
           IF rc = Skipped
           THEN ~f.should /\ ~ShouldSkipNode(f.nodes[n + 1], f.rc)
           ELSE f.should \/ ShouldSkipNode(f.nodes[n + 1], f.rc),
           NEW nodes \in Chains, Len(nodes) \in (n + 1)..Len(f.nodes),
           \A i \in 1..Len(nodes) : nodes[i] = f.nodes[i],
           NEW should \in BOOLEAN,
           rc # Skipped /\ n + 1 < Len(nodes) => (should <=> NextShouldExecute(f.nodes[n + 1], rc)),
           NEW g, g.nodes = nodes, g.log = Append(f.log, rc), g.should = should
    PROVE  ChainOk(g)
<1> DEFINE log == Append(f.log, rc)
<1>1. /\ f.log \in Seq(Int) /\ f.nodes \in Chains /\ nodes \in Seq(Nodes) /\ Len(nodes) \in Nat
      /\ f.nodes \in Seq(Nodes)
  BY DEF ChainRecords, Chains
<1>2. /\ log \in Seq(Int) /\ Len(log) = n + 1 /\ \A i \in 1..n : log[i] = f.log[i]
      /\ log[n + 1] = rc
  BY <1>1
<1> HIDE DEF log
<1>3. ASSUME NEW m \in 0..n
      PROVE  AllRan(log, m) <=> AllRan(f.log, m)
  <2>1. \A i \in 1..m : i \in 1..n
    OBVIOUS
  <2> QED BY <1>2, <2>1 DEF AllRan
<1>4. ASSUME NEW j \in 1..(n + 1)
      PROVE  Condition(nodes, log, j) <=> Condition(f.nodes, f.log, j)
  <2>1. CASE j = 1
    BY <2>1 DEF Condition
  <2>2. CASE j # 1
    <3>1. j - 1 \in 1..n /\ j - 1 \in 1..Len(nodes)
      BY <2>2
    <3>2. nodes[j - 1] = f.nodes[j - 1] /\ log[j - 1] = f.log[j - 1]
      BY <1>2, <3>1
    <3> QED BY <3>2 DEF Condition
  <2> QED BY <2>1, <2>2
<1>5. ASSUME NEW j \in 1..n
      PROVE  Decided(nodes, log, j)
  <2>1. j \in 1..(n + 1) /\ j - 1 \in 0..n /\ j \in 1..Len(nodes)
    OBVIOUS
  <2>2. Decided(f.nodes, f.log, j)
    BY DEF ChainOk
  <2>3. nodes[j] = f.nodes[j] /\ log[j] = f.log[j]
    BY <1>2, <2>1
  <2> QED BY <1>3, <1>4, <2>1, <2>2, <2>3 DEF Decided
<1>6. AllRan(f.log, n) => (f.should <=> Condition(f.nodes, f.log, n + 1))
  BY DEF ChainOk
<1>7. Decided(nodes, log, n + 1)
  <2>1. nodes[n + 1] = f.nodes[n + 1] /\ nodes[n + 1] \in Nodes /\ n + 1 \in 1..(n + 1)
    BY <1>1
  <2>2. nodes[n + 1].op \in Operators
    BY <2>1 DEF Nodes
  <2>3. AllRan(log, n) => (f.should <=> Condition(nodes, log, n + 1))
    BY <1>3, <1>4, <1>6, <2>1
  <2>4. rc # Skipped => f.should \/ nodes[n + 1].op \in {"&&", "||", "&"}
    BY <2>1, <2>2 DEF ShouldSkipNode, Operators
  <2>5. rc = Skipped => ~f.should
    OBVIOUS
  <2>6. (n + 1) - 1 = n
    OBVIOUS
  <2> QED BY <1>2, <2>3, <2>4, <2>5, <2>6 DEF Decided
<1>8. AllRan(log, n + 1) /\ n + 1 < Len(nodes) => (should <=> Condition(nodes, log, n + 2))
  <2> SUFFICES ASSUME AllRan(log, n + 1), n + 1 < Len(nodes)
               PROVE  should <=> Condition(nodes, log, n + 2)
    OBVIOUS
  <2>1. rc # Skipped
    BY <1>2 DEF AllRan
  <2>2. should <=> NextShouldExecute(f.nodes[n + 1], rc)
    BY <2>1
  <2>3. f.nodes[n + 1] = nodes[n + 1] /\ nodes[n + 1] \in Nodes /\ nodes[n + 1].op # "None"
    BY <1>1 DEF Chains
  <2>4. nodes[n + 1].op \in Operators
    BY <2>3 DEF Nodes
  <2>5. (n + 2) - 1 = n + 1 /\ n + 2 # 1
    OBVIOUS
  <2>6. NextShouldExecute(nodes[n + 1], rc) <=> Condition(nodes, log, n + 2)
    BY <1>2, <2>3, <2>4, <2>5 DEF NextShouldExecute, Condition, Operators
  <2> QED BY <2>2, <2>3, <2>6
<1>9. \A j \in 1..(n + 1) : Decided(nodes, log, j)
  BY <1>5, <1>7
<1> QED BY <1>2, <1>8, <1>9 DEF ChainOk, log

-----------------------------------------------------------------------------
(* The stack of a runner                                                   *)

StackOk(s) ==
    /\ s \in Seq(Frames)
    /\ \A i \in 1..Len(s) : FrameOk(s[i])
    /\ \A i \in 1..(Len(s) - 1) : Waits(s[i])

\* A runner that can get an answer or a frame on top.
Ready(s) == StackOk(s) /\ (s # <<>> => Waits(Last(s)))

LEMMA OnTop ==
    ASSUME NEW s, Ready(s), NEW f \in Frames, FrameOk(f)
    PROVE  StackOk(Append(s, f))
<1>1. s \in Seq(Frames) /\ Len(s) \in Nat /\ (s # <<>> <=> Len(s) > 0)
  BY DEF Ready, StackOk
<1>2. /\ Append(s, f) \in Seq(Frames) /\ Len(Append(s, f)) = Len(s) + 1
      /\ \A i \in 1..Len(s) : Append(s, f)[i] = s[i]
      /\ Append(s, f)[Len(s) + 1] = f
  BY <1>1
<1>3. \A i \in 1..Len(s) : Waits(s[i])
  <2> SUFFICES ASSUME NEW i \in 1..Len(s) PROVE Waits(s[i])
    OBVIOUS
  <2>1. CASE i \in 1..(Len(s) - 1)
    BY <2>1 DEF Ready, StackOk
  <2>2. CASE i = Len(s)
    BY <1>1, <2>2 DEF Ready, Last
  <2> QED BY <1>1, <2>1, <2>2
<1>4. \A i \in 1..(Len(s) + 1) : FrameOk(Append(s, f)[i])
  <2> SUFFICES ASSUME NEW i \in 1..(Len(s) + 1) PROVE FrameOk(Append(s, f)[i])
    OBVIOUS
  <2>1. CASE i \in 1..Len(s)
    BY <1>2, <2>1 DEF Ready, StackOk
  <2>2. CASE i = Len(s) + 1
    BY <1>2, <2>2
  <2> QED BY <1>1, <2>1, <2>2
<1> QED BY <1>1, <1>2, <1>3, <1>4 DEF StackOk

LEMMA TakenOff ==
    ASSUME NEW s, StackOk(s), s # <<>>
    PROVE  Ready(Front(s))
<1>1. s \in Seq(Frames) /\ Len(s) \in Nat /\ Len(s) > 0
  BY DEF StackOk
<1>2. PICK n \in Nat : n = Len(s) - 1
  BY <1>1
<1>3. /\ Front(s) \in Seq(Frames) /\ Len(Front(s)) = n
      /\ \A i \in 1..n : Front(s)[i] = s[i]
  <2>1. SubSeq(s, 1, n) \in Seq(Frames) /\ Len(SubSeq(s, 1, n)) = n
        /\ \A i \in 1..n : SubSeq(s, 1, n)[i] = s[i]
    BY <1>1, <1>2
  <2> QED BY <1>2, <2>1 DEF Front
<1>4. \A i \in 1..n : Waits(s[i]) /\ FrameOk(s[i])
  BY <1>1, <1>2 DEF StackOk
<1>5. StackOk(Front(s))
  BY <1>3, <1>4 DEF StackOk
<1>6. Front(s) # <<>> => Waits(Last(Front(s)))
  BY <1>3, <1>4 DEF Last
<1> QED BY <1>5, <1>6 DEF Ready

LEMMA NewTop ==
    ASSUME NEW s, StackOk(s), s # <<>>, NEW f \in Frames, FrameOk(f)
    PROVE  StackOk(Front(s) \o <<f>>)
<1>1. Ready(Front(s)) /\ Front(s) \in Seq(Frames)
  BY TakenOff DEF Ready, StackOk
<1>2. Front(s) \o <<f>> = Append(Front(s), f)
  BY <1>1
<1> QED BY <1>1, <1>2, OnTop

LEMMA TopFrame ==
    ASSUME NEW s, StackOk(s), s # <<>>
    PROVE  Last(s) \in Frames /\ FrameOk(Last(s))
<1>1. s \in Seq(Frames) /\ Len(s) \in 1..Len(s)
  BY DEF StackOk
<1> QED BY <1>1 DEF StackOk, Last

\* A prefix of a chain is one.
LEMMA ChainCut ==
    ASSUME NEW nodes \in Chains, NEW n \in Nat, n < Len(nodes)
    PROVE  /\ SubSeq(nodes, 1, n + 1) \in Chains /\ Len(SubSeq(nodes, 1, n + 1)) = n + 1
           /\ \A i \in 1..(n + 1) : SubSeq(nodes, 1, n + 1)[i] = nodes[i]
<1>1. nodes \in Seq(Nodes) /\ Len(nodes) \in Nat /\ \A i \in 1..(Len(nodes) - 1) : nodes[i].op # "None"
  BY DEF Chains
<1>2. PICK m \in Nat : m = n + 1
  OBVIOUS
<1>3. /\ SubSeq(nodes, 1, m) \in Seq(Nodes) /\ Len(SubSeq(nodes, 1, m)) = m
      /\ \A i \in 1..m : SubSeq(nodes, 1, m)[i] = nodes[i]
  BY <1>1, <1>2
<1>4. \A i \in 1..(m - 1) : SubSeq(nodes, 1, m)[i].op # "None"
  <2> SUFFICES ASSUME NEW i \in 1..(m - 1) PROVE SubSeq(nodes, 1, m)[i].op # "None"
    OBVIOUS
  <2>1. i \in 1..m /\ i \in 1..(Len(nodes) - 1)
    BY <1>1, <1>2
  <2> QED BY <1>1, <1>3, <2>1
<1>5. SubSeq(nodes, 1, m) \in Chains
  BY <1>3, <1>4 DEF Chains
<1> QED BY <1>2, <1>3, <1>5

\* A command's status goes to the frame below it.
LEMMA ReturnedOk ==
    ASSUME NEW below, Ready(below), NEW rc \in Nat, NEW overflow \in BOOLEAN
    PROVE  StackOk(Returned(below, rc, overflow))
<1>1. CASE below = <<>>
  BY <1>1 DEF Returned, Ready
<1>2. CASE below # <<>>
  <2> DEFINE f == Last(below)
             n == Len(f.log)
             node == f.nodes[n + 1]
             more == node.op # "&" /\ f.segment < Len(node.cmds)
  <2>1. f \in Frames /\ FrameOk(f) /\ Waits(f) /\ StackOk(below)
    BY <1>2, TopFrame DEF Ready
  <2>2. CASE f.kind = "script"
    <3> DEFINE g == [f EXCEPT !.at = @ + 1, !.rc = rc]
    <3>1. f \in [kind : {"script"}, at : Nat \ {0}, rc : Nat]
      BY <2>1, <2>2 DEF Frames, ChainRecords
    <3>2. g \in [kind : {"script"}, at : Nat \ {0}, rc : Nat]
      <4>1. ASSUME NEW x \in [kind : {"script"}, at : Nat \ {0}, rc : Nat], NEW at \in Nat \ {0}
            PROVE  [x EXCEPT !.at = at, !.rc = rc] \in [kind : {"script"}, at : Nat \ {0}, rc : Nat]
        OBVIOUS
      <4>2. f.at + 1 \in Nat \ {0}
        BY <3>1
      <4>3. g = [f EXCEPT !.at = f.at + 1, !.rc = rc]
        BY <3>1
      <4> HIDE DEF g, f
      <4> QED BY <3>1, <4>1, <4>2, <4>3
    <3>3. g \in Frames /\ FrameOk(g)
      BY <3>2 DEF Frames, FrameOk
    <3>4. Returned(below, rc, overflow) = Front(below) \o <<g>>
      BY <1>2, <2>2 DEF Returned
    <3> HIDE DEF g
    <3> QED BY <1>2, <2>1, <3>3, <3>4, NewTop
  <2>3. CASE f.kind = "chain" /\ more
    <3> DEFINE g == [f EXCEPT !.segment = @ + 1]
    <3>1. f \in ChainRecords /\ ChainOk(f)
      BY <2>1, <2>3 DEF Frames, FrameOk
    <3>2. g \in ChainRecords /\ g.nodes = f.nodes /\ g.log = f.log /\ g.should = f.should
      BY <3>1, SMTT(30) DEF ChainRecords
    <3>3. g \in Frames /\ FrameOk(g)
      BY <3>1, <3>2 DEF Frames, FrameOk, ChainOk
    <3>4. Returned(below, rc, overflow) = Front(below) \o <<g>>
      BY <1>2, <2>3 DEF Returned
    <3> HIDE DEF g
    <3> QED BY <1>2, <2>1, <3>3, <3>4, NewTop
  <2>4. CASE f.kind = "chain" /\ ~more
    <3> DEFINE nodes == IF overflow THEN SubSeq(f.nodes, 1, n + 1) ELSE f.nodes
               should == NextShouldExecute(node, rc)
               g == [f EXCEPT !.segment = 1,
                              !.log = Append(@, rc),
                              !.rc = IF overflow THEN 1 ELSE rc,
                              !.nodes = IF overflow THEN SubSeq(@, 1, n + 1) ELSE @,
                              !.should = NextShouldExecute(node, rc)]
    <3>1. f \in ChainRecords /\ ChainOk(f) /\ Running(f)
      BY <2>1, <2>4 DEF Frames, FrameOk, Waits
    <3>2. f.nodes \in Chains /\ f.log \in Seq(Int) /\ n \in Nat /\ n < Len(f.nodes) /\ Len(f.nodes) \in Nat
      BY <3>1 DEF ChainRecords, Chains, Running
    <3>3. nodes \in Chains /\ Len(nodes) \in (n + 1)..Len(f.nodes) /\ \A i \in 1..Len(nodes) : nodes[i] = f.nodes[i]
      BY <3>2, ChainCut
    <3>4. should \in BOOLEAN
      BY DEF NextShouldExecute
    <3>5. Append(f.log, rc) \in Seq(Int) /\ rc \in Int /\ rc # Skipped
      BY <3>2 DEF Skipped
    <3>6. f.should \/ ShouldSkipNode(f.nodes[n + 1], f.rc)
      BY <3>1 DEF Running
    <3>7. /\ g.kind = "chain" /\ g.nodes = nodes /\ g.segment = 1 /\ g.should = should
          /\ g.rc = (IF overflow THEN 1 ELSE rc) /\ g.log = Append(f.log, rc)
          /\ DOMAIN g = DOMAIN f
      BY <3>1 DEF ChainRecords
    <3>8. g \in ChainRecords
      <4> HIDE DEF nodes, should, n
      <4>1. f \in ChainRecords /\ Append(f.log, rc) \in Seq(Int) /\ nodes \in Chains /\ should \in BOOLEAN
            /\ (IF overflow THEN 1 ELSE rc) \in Nat
        BY <3>1, <3>3, <3>4, <3>5
      <4>2. g = [f EXCEPT !.segment = 1, !.log = Append(@, rc), !.rc = IF overflow THEN 1 ELSE rc,
                          !.nodes = nodes, !.should = should]
        BY <3>1 DEF nodes, should, n, ChainRecords
      <4> HIDE DEF g
      <4> QED BY <4>1, <4>2 DEF ChainRecords
    <3>9. Returned(below, rc, overflow) = Front(below) \o <<g>>
      BY <1>2, <2>4 DEF Returned
    <3> HIDE DEF g, nodes, should, node, n, f
    <3>10. ChainOk(g)
      <4>1. PICK m \in Nat : m = n
        BY <3>2
      <4>2. rc # Skipped /\ m + 1 < Len(nodes) => (should <=> NextShouldExecute(f.nodes[m + 1], rc))
        BY <4>1 DEF should, node
      <4>3. PICK h \in ChainRecords : h = f
        BY <3>1
      <4> QED BY <3>1, <3>2, <3>3, <3>4, <3>5, <3>6, <3>7, <4>1, <4>2, <4>3, NodeLogged DEF n
    <3>11. g \in Frames /\ FrameOk(g)
      BY <3>8, <3>10 DEF Frames, FrameOk
    <3> QED BY <1>2, <2>1, <3>9, <3>11, NewTop
  <2> QED BY <2>1, <2>2, <2>3, <2>4 DEF Waits
<1> QED BY <1>1, <1>2

-----------------------------------------------------------------------------
(* The steps of the runners                                                *)

StacksInv ==
    /\ stack \in [Runners -> Seq(Frames)] /\ \A q \in Runners : StackOk(stack[q])
    /\ capture \in [Editors -> Seq(Lines)] /\ saved \in [Editors -> Seq(Lines)]
    /\ job \in [1..MaxJobs -> Chains]

\* A runner has calls under way only while it has been given something to do.
BusyInv ==
    /\ reader.state # "running" => stack[0] = <<>>
    /\ \A j \in (1..MaxJobs) \ woken : stack[j] = <<>>

OnlyMoves(r) == \A q \in Runners \ {r} : stack'[q] = stack[q]

LEMMA StackMoves ==
    ASSUME StacksInv, NEW r \in Runners, NEW s, StackOk(s), stack' = [stack EXCEPT ![r] = s]
    PROVE  /\ stack' \in [Runners -> Seq(Frames)] /\ \A q \in Runners : StackOk(stack'[q])
           /\ OnlyMoves(r)
<1>1. s \in Seq(Frames)
  BY DEF StackOk
<1>2. /\ stack' \in [Runners -> Seq(Frames)] /\ stack'[r] = s
      /\ \A q \in Runners \ {r} : stack'[q] = stack[q]
  BY <1>1 DEF StacksInv
<1> QED BY <1>2 DEF StacksInv, OnlyMoves

LEMMA ReturnMoves ==
    ASSUME StacksInv, NEW r \in Runners, NEW below, Ready(below), NEW rc \in Nat, Return(r, below, rc)
    PROVE  /\ stack' \in [Runners -> Seq(Frames)] /\ \A q \in Runners : StackOk(stack'[q])
           /\ OnlyMoves(r)
<1>1. PICK overflow \in BOOLEAN : stack' = [stack EXCEPT ![r] = Returned(below, rc, overflow)]
  BY DEF Return
<1>2. StackOk(Returned(below, rc, overflow))
  BY ReturnedOk
<1> QED BY <1>1, <1>2, StackMoves

LEMMA PushMoves ==
    ASSUME StacksInv, NEW r \in Runners, Ready(stack[r]), NEW f \in Frames, FrameOk(f), Push(r, f)
    PROVE  /\ stack' \in [Runners -> Seq(Frames)] /\ \A q \in Runners : StackOk(stack'[q])
           /\ OnlyMoves(r)
<1>1. stack' = [stack EXCEPT ![r] = Append(stack[r], f)]
  BY DEF Push
<1>2. StackOk(Append(stack[r], f))
  BY OnTop
<1> QED BY <1>1, <1>2, StackMoves

\* What begins.
LEMMA NewFrames ==
    /\ \A nodes \in Chains : ChainFrame(nodes) \in Frames /\ FrameOk(ChainFrame(nodes))
    /\ ScriptFrame \in Frames /\ FrameOk(ScriptFrame)
    /\ AuthFrame \in Frames /\ FrameOk(AuthFrame)
<1>1. ASSUME NEW nodes \in Chains
      PROVE  ChainFrame(nodes) \in Frames /\ FrameOk(ChainFrame(nodes))
  <2> DEFINE f == ChainFrame(nodes)
  <2>1. f \in ChainRecords /\ f.nodes = nodes /\ f.log = <<>> /\ f.should = TRUE
    BY DEF ChainFrame, ChainRecords
  <2>2. Len(nodes) \in Nat /\ Len(f.log) = 0
    BY <2>1 DEF Chains
  <2>3. Condition(f.nodes, f.log, 1)
    BY DEF Condition
  <2>4. ChainOk(f)
    <3> HIDE DEF f
    <3>1. Len(f.log) + 1 = 1 /\ Len(f.log) <= Len(f.nodes) /\ 1..Len(f.log) = {}
      BY <2>1, <2>2
    <3> QED BY <2>1, <2>3, <3>1 DEF ChainOk
  <2> QED BY <2>1, <2>4 DEF Frames, FrameOk
<1>2. ScriptFrame \in Frames /\ FrameOk(ScriptFrame) /\ AuthFrame \in Frames /\ FrameOk(AuthFrame)
  BY DEF ScriptFrame, AuthFrame, Frames, FrameOk
<1> QED BY <1>1, <1>2

LEMMA JobsOfLines ==
    ASSUME StacksInv, NEW lines \in Seq(Lines), StartJobs(lines)
    PROVE  job' \in [1..MaxJobs -> Chains]
<1> DEFINE Number(i) == Started + Cardinality({k \in Entries(lines) : k <= i})
           New(j) == \E i \in Entries(lines) : Number(i) = j
           first(j) == CHOOSE i \in Entries(lines) : Number(i) = j
<1>1. job' = [j \in 1..MaxJobs |-> IF New(j) THEN lines[first(j)].entry ELSE job[j]]
  BY DEF StartJobs
<1>2. \A i \in Entries(lines) : lines[i].entry \in Chains
  <2>1. \A l \in Lines : l.entry \in Chains
    BY DEF Lines
  <2>2. \A i \in Entries(lines) : lines[i] \in Lines
    BY DEF Entries
  <2> QED BY <2>1, <2>2
<1>3. ASSUME NEW j \in 1..MaxJobs, New(j)
      PROVE  first(j) \in Entries(lines)
  <2> HIDE DEF Number
  <2> QED BY <1>3
<1> HIDE DEF New, first
<1>4. ASSUME NEW j \in 1..MaxJobs
      PROVE  (IF New(j) THEN lines[first(j)].entry ELSE job[j]) \in Chains
  BY <1>2, <1>3 DEF StacksInv
<1> QED BY <1>1, <1>4

\* execute, for a runner whose script or whose session has a line for it.
LEMMA ExecuteMoves ==
    ASSUME StacksInv, NEW r \in Runners, Ready(stack[r]), NEW line \in Lines, Execute(r, line)
    PROVE  StacksInv' /\ OnlyMoves(r)
<1>1. CASE ExecuteChain(r, line)
  <2>1. line.nodes \in Chains
    BY DEF Lines
  <2>2. \/ Push(r, ChainFrame(line.nodes))
        \/ Return(r, stack[r], 0) \/ Return(r, stack[r], 1)
    BY <1>1 DEF ExecuteChain
  <2>3. /\ stack' \in [Runners -> Seq(Frames)] /\ \A q \in Runners : StackOk(stack'[q])
        /\ OnlyMoves(r)
    BY <2>1, <2>2, PushMoves, ReturnMoves, NewFrames
  <2> QED BY <1>1, <2>3 DEF StacksInv, ExecuteChain
<1>2. CASE AnswerSu(r)
  <2>1. Return(r, stack[r], 0) \/ Return(r, stack[r], 1)
    BY <1>2 DEF AnswerSu
  <2>2. /\ stack' \in [Runners -> Seq(Frames)] /\ \A q \in Runners : StackOk(stack'[q])
        /\ OnlyMoves(r)
    BY <2>1, ReturnMoves
  <2> QED BY <1>2, <2>2 DEF StacksInv, AnswerSu
<1>3. CASE AnswerAuth(r)
  <2>1. Push(r, AuthFrame)
    BY <1>3 DEF AnswerAuth
  <2>2. /\ stack' \in [Runners -> Seq(Frames)] /\ \A q \in Runners : StackOk(stack'[q])
        /\ OnlyMoves(r)
    BY <2>1, PushMoves, NewFrames
  <2> QED BY <1>3, <2>2 DEF StacksInv, AnswerAuth
<1>4. CASE AnswerEditor(r, line)
  <2>1. Return(r, stack[r], 0)
    BY <1>4 DEF AnswerEditor
  <2>2. /\ stack' \in [Runners -> Seq(Frames)] /\ \A q \in Runners : StackOk(stack'[q])
        /\ OnlyMoves(r)
    BY <2>1, ReturnMoves
  <2>3. PICK e \in Editors :
          \/ UNCHANGED <<capture, saved, job>>
          \/ /\ saved' = [saved EXCEPT ![e] = capture[e]] /\ UNCHANGED capture
             /\ StartJobs(capture[e]) \/ UNCHANGED job
          \/ capture' = [capture EXCEPT ![e] = Append(@, line)] /\ UNCHANGED <<saved, job>>
    BY <1>4 DEF AnswerEditor
  <2>4. capture[e] \in Seq(Lines) /\ Append(capture[e], line) \in Seq(Lines)
    BY DEF StacksInv
  <2>5. StartJobs(capture[e]) => job' \in [1..MaxJobs -> Chains]
    BY <2>4, JobsOfLines
  <2>6. capture' \in [Editors -> Seq(Lines)] /\ saved' \in [Editors -> Seq(Lines)]
    BY <2>3, <2>4 DEF StacksInv
  <2>7. job' \in [1..MaxJobs -> Chains]
    BY <2>3, <2>5 DEF StacksInv
  <2> QED BY <2>2, <2>6, <2>7 DEF StacksInv
<1> QED BY <1>1, <1>2, <1>3, <1>4 DEF Execute

\* A command of a chain that runs.
LEMMA CommandMoves ==
    ASSUME StacksInv, NEW r \in Runners, Ready(stack[r]), NEW cmd, RunCommand(r, cmd)
    PROVE  StacksInv' /\ OnlyMoves(r)
<1>1. \/ \E rc \in Nat : Return(r, stack[r], rc)
      \/ Push(r, ScriptFrame)
  <2>1. \A rc \in {0, 1, 126, 127} : Done(r, rc) => \E status \in Nat : Return(r, stack[r], status)
    BY DEF Done
  <2>2. Push(r, ScriptFrame) \/ \E rc \in {0, 1, 126, 127} : Done(r, rc)
    BY DEF RunCommand, RunPlain, RunMissing, RunSu, RunProtected, RunSudoI, RunSudo, RunBash,
           RunDirect, OpenEditor, RunVisudo
  <2> QED BY <2>1, <2>2
<1>2. /\ stack' \in [Runners -> Seq(Frames)] /\ \A q \in Runners : StackOk(stack'[q])
      /\ OnlyMoves(r)
  BY <1>1, ReturnMoves, PushMoves, NewFrames
<1>3. /\ \/ UNCHANGED capture
         \/ \E e \in Editors : capture' = [capture EXCEPT ![e] = saved[e]]
      /\ UNCHANGED <<saved, job>>
  BY DEF RunCommand, OpenEditor, RunVisudo, Editors
<1>4. capture' \in [Editors -> Seq(Lines)]
  BY <1>3 DEF StacksInv
<1> QED BY <1>2, <1>3, <1>4 DEF StacksInv

LEMMA ChainMoves ==
    ASSUME StacksInv, NEW r \in Runners, ChainStep(r)
    PROVE  StacksInv' /\ OnlyMoves(r)
<1> DEFINE f == Top(r)
           n == Len(f.log)
           node == f.nodes[n + 1]
           runs == f.should \/ ShouldSkipNode(node, f.rc)
<1>1. stack[r] # <<>> /\ StackOk(stack[r]) /\ f.kind = "chain"
  BY DEF ChainStep, StacksInv
<1>2. f \in Frames /\ FrameOk(f)
  BY <1>1, TopFrame DEF Top
<1>3. f \in ChainRecords /\ ChainOk(f)
  BY <1>1, <1>2 DEF Frames, FrameOk
<1>4. /\ f.nodes \in Chains /\ f.log \in Seq(Int) /\ n \in Nat /\ f.rc \in Nat /\ f.should \in BOOLEAN
      /\ Len(f.nodes) \in Nat
  BY <1>3 DEF ChainRecords, Chains
<1>5. ASSUME stack' \in [Runners -> Seq(Frames)], \A q \in Runners : StackOk(stack'[q]), OnlyMoves(r),
             UNCHANGED <<capture, saved, job>>
      PROVE  StacksInv' /\ OnlyMoves(r)
  BY <1>5 DEF StacksInv
<1>6. CASE n + 1 > Len(f.nodes)
  <2>1. Return(r, Front(stack[r]), f.rc) /\ UNCHANGED <<capture, saved, job>>
    BY <1>4, <1>6 DEF ChainStep
  <2>2. Ready(Front(stack[r]))
    BY <1>1, TakenOff
  <2> HIDE DEF f
  <2> QED BY <1>4, <1>5, <2>1, <2>2, ReturnMoves
<1>7. CASE n + 1 <= Len(f.nodes) /\ ~runs
  <2> DEFINE g == [f EXCEPT !.log = Append(@, Skipped)]
  <2>1. stack' = [stack EXCEPT ![r] = Front(stack[r]) \o <<g>>] /\ UNCHANGED <<capture, saved, job>>
    <3>1. ~(n + 1 > Len(f.nodes))
      BY <1>4, <1>7
    <3>2. /\ stack' = [stack EXCEPT ![r] = Front(@) \o <<[Top(r) EXCEPT !.log = Append(@, Skipped)]>>]
          /\ UNCHANGED <<capture, saved, job>>
      BY <1>7, <3>1 DEF ChainStep
    <3>3. stack' = [stack EXCEPT ![r] = Front(@) \o <<g>>]
      BY <3>2
    <3> HIDE DEF g
    <3>4. stack' = [stack EXCEPT ![r] = Front(stack[r]) \o <<g>>]
      BY <3>3 DEF StacksInv
    <3> QED BY <3>2, <3>4
  <2>2. Skipped \in Int /\ Append(f.log, Skipped) \in Seq(Int)
    BY <1>4 DEF Skipped
  <2>3. g \in ChainRecords /\ g.nodes = f.nodes /\ g.log = Append(f.log, Skipped) /\ g.should = f.should
    <3> HIDE DEF f
    <3> QED BY <1>3, <2>2 DEF ChainRecords
  <2>4. n < Len(f.nodes) /\ Len(f.nodes) \in (n + 1)..Len(f.nodes)
    BY <1>4, <1>7
  <2>5. ~f.should /\ ~ShouldSkipNode(f.nodes[n + 1], f.rc)
    BY <1>7
  <2> HIDE DEF g, f
  <2>6. ChainOk(g)
    <3>1. PICK m \in Nat : m = n
      BY <1>4
    <3>2. PICK rc \in Int : rc = Skipped
      BY <2>2
    <3> QED BY <1>3, <1>4, <2>3, <2>4, <2>5, <3>1, <3>2, NodeLogged
  <2>7. g \in Frames /\ FrameOk(g)
    BY <2>3, <2>6 DEF Frames, FrameOk
  <2>8. StackOk(Front(stack[r]) \o <<g>>)
    BY <1>1, <2>7, NewTop
  <2> QED BY <1>5, <2>1, <2>8, StackMoves
<1>8. CASE n + 1 <= Len(f.nodes) /\ runs
  <2>1. Running(f)
    BY <1>4, <1>8 DEF Running
  <2>2. Ready(stack[r])
    BY <1>1, <2>1 DEF Ready, Waits, Top
  <2>3. \/ Done(r, 0) /\ UNCHANGED <<capture, saved, job>>
        \/ RunCommand(r, node.cmds[f.segment])
    BY <1>4, <1>8 DEF ChainStep
  <2>4. CASE Done(r, 0) /\ UNCHANGED <<capture, saved, job>>
    BY <1>5, <2>2, <2>4, ReturnMoves DEF Done
  <2>5. CASE RunCommand(r, node.cmds[f.segment])
    <3> HIDE DEF f, node
    <3> QED BY <2>2, <2>5, CommandMoves
  <2> QED BY <2>3, <2>4, <2>5
<1> QED BY <1>4, <1>6, <1>7, <1>8

LEMMA ScriptMoves ==
    ASSUME StacksInv, NEW r \in Runners, ScriptStep(r)
    PROVE  StacksInv' /\ OnlyMoves(r)
<1> DEFINE f == Top(r)
<1>1. stack[r] # <<>> /\ StackOk(stack[r]) /\ f.kind = "script"
  BY DEF ScriptStep, StacksInv
<1>2. f \in Frames
  BY <1>1, TopFrame DEF Top
<1>3. f.at \in Nat \ {0} /\ f.rc \in Nat
  BY <1>1, <1>2 DEF Frames, ChainRecords
<1>4. CASE f.at > Len(ScriptFile.lines)
  <2>1. Return(r, Front(stack[r]), f.rc) /\ UNCHANGED <<capture, saved, job>>
    <3>1. ~(f.at <= Len(ScriptFile.lines))
      BY <1>3, <1>4, ShellAssumption
    <3> QED BY <3>1 DEF ScriptStep
  <2>2. Ready(Front(stack[r]))
    BY <1>1, TakenOff
  <2> HIDE DEF f
  <2>3. /\ stack' \in [Runners -> Seq(Frames)] /\ \A q \in Runners : StackOk(stack'[q])
        /\ OnlyMoves(r)
    BY <1>3, <2>1, <2>2, ReturnMoves
  <2> QED BY <2>1, <2>3 DEF StacksInv
<1>5. CASE f.at <= Len(ScriptFile.lines)
  <2>1. Execute(r, ScriptFile.lines[f.at])
    <3>1. ~(f.at > Len(ScriptFile.lines))
      BY <1>3, <1>5, ShellAssumption
    <3> QED BY <3>1 DEF ScriptStep
  <2>2. ScriptFile.lines[f.at] \in Lines
    <3>1. f.at \in 1..Len(ScriptFile.lines)
      BY <1>3, <1>5, ShellAssumption
    <3> HIDE DEF f
    <3> QED BY <3>1, ShellAssumption
  <2>3. Ready(stack[r])
    BY <1>1 DEF Ready, Waits, Top
  <2> HIDE DEF f
  <2> QED BY <2>1, <2>2, <2>3, ExecuteMoves
<1> QED BY <1>3, <1>4, <1>5, ShellAssumption

LEMMA AuthMoves ==
    ASSUME StacksInv, NEW r \in Runners, AuthStep(r)
    PROVE  StacksInv' /\ OnlyMoves(r)
<1>1. stack[r] # <<>> /\ StackOk(stack[r])
  BY DEF AuthStep, StacksInv
<1>2. Ready(Front(stack[r]))
  BY <1>1, TakenOff
<1>3. PICK rc \in {0, 1} : Return(r, Front(stack[r]), rc)
  BY DEF AuthStep
<1>4. /\ stack' \in [Runners -> Seq(Frames)] /\ \A q \in Runners : StackOk(stack'[q])
      /\ OnlyMoves(r)
  <2>1. rc \in Nat
    OBVIOUS
  <2> QED BY <1>2, <1>3, <2>1, ReturnMoves
<1> QED BY <1>4 DEF StacksInv, AuthStep

\* What the emulator is given is a line.
LEMMA ReadIsLine ==
    ASSUME LineInv, NEW cut, CutLine(cut), Texts(cut) # {}
    PROVE  ReadAs(cut) \subseteq Lines
<1>1. cut \in 1..Len(buf) /\ Len(buf) \in Nat
  <2>1. Len(buf) \in Nat
    BY DEF LineInv, Stretch
  <2> QED BY <2>1, CutIsEnd DEF CutLine
<1>2. \A i \in 1..cut : i \in 1..Len(buf)
  BY <1>1
<1>3. \A n \in Texts(cut) : typed[n].line \in Lines
  BY <1>2, BufWasTyped DEF Texts, TypedLines
<1> QED BY <1>3, MergedAssumption DEF ReadAs

LEMMA StepMoves ==
    ASSUME StacksInv, NEW r \in Runners, Step(r)
    PROVE  /\ StacksInv' /\ OnlyMoves(r) /\ stack[r] # <<>>
           /\ UNCHANGED <<inputVars, reader, woken>>
<1>1. ChainStep(r) \/ ScriptStep(r) \/ AuthStep(r)
  BY DEF Step
<1>2. stack[r] # <<>>
  BY <1>1 DEF ChainStep, ScriptStep, AuthStep
<1>3. StacksInv' /\ OnlyMoves(r)
  BY <1>1, ChainMoves, ScriptMoves, AuthMoves
<1> QED BY <1>2, <1>3 DEF Step

LEMMA EmptyIsReady == Ready(<<>>)
BY DEF Ready, StackOk

\* What has no calls under way and begins one has been given something to do.
LEMMA BusyKept ==
    ASSUME BusyInv, NEW r \in Runners, OnlyMoves(r), reader.state = "running" => reader'.state = "running",
           woken \subseteq woken', r = 0 => reader'.state = "running", r # 0 => r \in woken'
    PROVE  BusyInv'
<1>1. reader'.state # "running" => stack'[0] = <<>>
  <2> SUFFICES ASSUME reader'.state # "running" PROVE stack'[0] = <<>>
    OBVIOUS
  <2>1. 0 \in Runners \ {r} /\ stack[0] = <<>>
    BY DEF BusyInv, Runners
  <2> QED BY <2>1 DEF OnlyMoves
<1>2. \A j \in (1..MaxJobs) \ woken' : stack'[j] = <<>>
  <2> SUFFICES ASSUME NEW j \in (1..MaxJobs) \ woken' PROVE stack'[j] = <<>>
    OBVIOUS
  <2>1. j \in Runners \ {r} /\ j \in (1..MaxJobs) \ woken
    BY DEF Runners
  <2> QED BY <2>1 DEF OnlyMoves, BusyInv
<1> QED BY <1>1, <1>2 DEF BusyInv

LEMMA StacksInit == ShellInit => StacksInv /\ BusyInv
<1> SUFFICES ASSUME ShellInit PROVE StacksInv /\ BusyInv
  OBVIOUS
<1>1. <<>> \in Seq(Frames) /\ <<>> \in Seq(Lines) /\ StackOk(<<>>)
  BY EmptyIsReady DEF Ready
<1>2. <<>> \in Chains
  <2>1. <<>> \in Seq(Nodes) /\ 1..(Len(<<>>) - 1) = {}
    OBVIOUS
  <2> QED BY <2>1 DEF Chains
<1>3. stack = [r \in Runners |-> <<>>] /\ capture = [e \in Editors |-> <<>>] /\ saved = capture
      /\ job = [j \in 1..MaxJobs |-> <<>>]
  BY DEF ShellInit
<1> QED BY <1>1, <1>2, <1>3 DEF StacksInv, BusyInv, Runners

LEMMA StacksStep == StacksInv /\ BusyInv /\ LineInv /\ [ShellNext]_vars => StacksInv' /\ BusyInv'
<1> SUFFICES ASSUME StacksInv, BusyInv, LineInv, [ShellNext]_vars
             PROVE  StacksInv' /\ BusyInv'
  OBVIOUS
<1>1. ASSUME UNCHANGED shellVars, reader'.state # "running" => reader.state # "running" \/ stack[0] = <<>>
      PROVE  StacksInv' /\ BusyInv'
  BY <1>1 DEF shellVars, StacksInv, BusyInv
<1>2. CASE UNCHANGED vars
  BY <1>1, <1>2 DEF vars, shellVars
<1>3. ASSUME NEW n \in 1..(2 * Len(typed)), DataReceived(n) PROVE StacksInv' /\ BusyInv'
  BY <1>1, <1>3 DEF DataReceived
<1>4. CASE AcquireLock
  BY <1>1, <1>4 DEF AcquireLock
<1>5. CASE AppendChunk
  BY <1>1, <1>5 DEF AppendChunk
<1>6. ASSUME NEW cut, TakeBlank(cut) \/ TakeExit(cut) PROVE StacksInv' /\ BusyInv'
  <2>1. reader.state = "looping"
    BY <1>6 DEF TakeBlank, TakeExit, CutLine
  <2> QED BY <1>1, <1>6, <2>1 DEF TakeBlank, TakeExit
<1>7. ASSUME NEW cut, TakeLine(cut) PROVE StacksInv' /\ BusyInv'
  <2>1. PICK line \in ReadAs(cut) : Execute(0, line)
    BY <1>7 DEF TakeLine
  <2>2. /\ reader.state = "looping" /\ UNCHANGED woken
        /\ reader' = [reader EXCEPT !.state = "running"]
    BY <1>7 DEF TakeLine, CutLine
  <2>3. line \in Lines /\ 0 \in Runners
    BY <1>7, <2>1, ReadIsLine DEF TakeLine, Runners
  <2>4. Ready(stack[0])
    BY <2>2, EmptyIsReady DEF BusyInv
  <2>5. StacksInv' /\ OnlyMoves(0)
    BY <2>1, <2>3, <2>4, ExecuteMoves
  <2>6. reader'.state = "running"
    BY <2>2 DEF LineInv
  <2> QED BY <2>2, <2>3, <2>5, <2>6, BusyKept
<1>8. CASE Respond
  BY <1>1, <1>8 DEF Respond
<1>9. CASE EndOfBuffer
  BY <1>1, <1>9 DEF EndOfBuffer
<1>10. CASE CloseSession \/ HangUp
  BY <1>1, <1>10 DEF CloseSession, HangUp
<1>11. ASSUME NEW r \in Runners, Step(r) PROVE StacksInv' /\ BusyInv'
  <2>1. StacksInv' /\ OnlyMoves(r) /\ stack[r] # <<>> /\ UNCHANGED <<reader, woken>>
    BY <1>11, StepMoves
  <2>2. r = 0 => reader.state = "running"
    BY <2>1 DEF BusyInv
  <2>3. r # 0 => r \in woken
    BY <2>1 DEF BusyInv, Runners
  <2> QED BY <2>1, <2>2, <2>3, BusyKept
<1>12. ASSUME NEW j \in 1..MaxJobs, StartJob(j) PROVE StacksInv' /\ BusyInv'
  <2> DEFINE line == [text |-> "other", nodes |-> job[j], entry |-> <<>>]
  <2>1. j \notin woken /\ woken' = woken \cup {j} /\ Execute(j, line) /\ UNCHANGED reader
    BY <1>12 DEF StartJob, Sleeping
  <2>2. line \in Lines
    <3>1. job[j] \in Chains
      BY DEF StacksInv
    <3>2. <<>> \in Chains
      <4>1. <<>> \in Seq(Nodes) /\ 1..(Len(<<>>) - 1) = {}
        OBVIOUS
      <4> QED BY <4>1 DEF Chains
    <3> QED BY <3>1, <3>2 DEF Lines
  <2>3. j \in Runners /\ stack[j] = <<>> /\ j # 0
    BY <2>1 DEF Runners, BusyInv
  <2> HIDE DEF line
  <2>4. StacksInv' /\ OnlyMoves(j)
    BY <2>1, <2>2, <2>3, EmptyIsReady, ExecuteMoves
  <2> QED BY <2>1, <2>3, <2>4, BusyKept
<1>13. ASSUME NEW j \in 1..MaxJobs, RefuseJob(j) PROVE StacksInv' /\ BusyInv'
  BY <1>13 DEF RefuseJob, StacksInv, BusyInv
<1> QED BY <1>2, <1>3, <1>4, <1>5, <1>6, <1>7, <1>8, <1>9, <1>10, <1>11, <1>12, <1>13
        DEF ShellNext, ReaderStep

LEMMA StacksDecide == StacksInv => PlainChainsFollowShell
<1> SUFFICES ASSUME StacksInv, NEW f \in ChainFrames, NEW j \in DOMAIN f.log,
                    \A i \in 1..(j - 1) : Ran(f.log, i)
             PROVE  /\ ShellRuns(f.nodes, f.log, j) => Ran(f.log, j)
                    /\ Ran(f.log, j) => ShellRuns(f.nodes, f.log, j) \/ f.nodes[j].op \in {"&&", "||", "&"}
  BY DEF PlainChainsFollowShell
<1>1. PICK r \in Runners : \E i \in DOMAIN stack[r] : f = stack[r][i]
  BY DEF ChainFrames
<1>2. PICK i \in DOMAIN stack[r] : f = stack[r][i]
  BY <1>1
<1>3. StackOk(stack[r]) /\ f.kind = "chain"
  BY DEF StacksInv, ChainFrames
<1>4. f \in Frames /\ FrameOk(f)
  BY <1>2, <1>3 DEF StackOk
<1>5. f \in ChainRecords /\ ChainOk(f)
  BY <1>3, <1>4 DEF Frames, FrameOk
<1>6. f.log \in Seq(Int) /\ j \in 1..Len(f.log) /\ j \in 1..(Len(f.log) + 1)
  BY <1>5 DEF ChainRecords
<1>7. Decided(f.nodes, f.log, j)
  BY <1>5, <1>6 DEF ChainOk
<1>8. AllRan(f.log, j - 1)
  BY DEF AllRan, Ran
<1>9. ShellRuns(f.nodes, f.log, j) <=> Condition(f.nodes, f.log, j)
  BY <1>6, <1>8, ConditionOfShell
<1> QED BY <1>7, <1>8, <1>9 DEF Decided, Ran

\* As long as no command of a chain was skipped, _execute_nodes runs what a shell
\* runs, and runs what a shell does not run only if && or || or & stands behind it:
\* in the session, in a script and in the jobs of crontab, however they interleave.
THEOREM ChainsFollowShellUntilSkip == ShellSpec => []PlainChainsFollowShell
<1> QED BY LineInvInit, LineInvStep, StacksInit, StacksStep, StacksDecide, PTL DEF ShellSpec
=============================================================================
