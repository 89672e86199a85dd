--------------------------- MODULE TransferProofs ---------------------------
(***************************************************************************)
(* What holds of what is transferred: of uploads and downloads for every   *)
(* limit, every set of names and sizes and every number of saves, handles  *)
(* and headers (an SFTP channel, an SCP channel and the saves of the       *)
(* quarantine, with their steps in any order), and of a session of the SSH *)
(* proxy for any number of chunks, with and without a pool.                *)
(***************************************************************************)
EXTENDS Sftp, Scp, SshProxy, FiniteSetTheorems, SequenceTheorems, TLAPS

transferVars == <<qVars, sftpVars, scpVars>>

TransferInit == QuarantineInit /\ SftpInit /\ ScpInit

TransferNext ==
    \/ QuarantineNext /\ UNCHANGED <<sftpVars, scpVars>>
    \/ SftpNext /\ UNCHANGED scpVars
    \/ ScpNext /\ UNCHANGED sftpVars

TransferSpec == TransferInit /\ [][TransferNext]_transferVars

-----------------------------------------------------------------------------
(* What the quarantine is given                                            *)

FileNames == QNames \cup {Malformed}

\* What a step of the quarantine or of one of the channels does to the saves.
LEMMA SaveCases ==
    ASSUME [TransferNext]_transferVars
    PROVE  \/ UNCHANGED qVars
           \/ \E name \in QNames, size \in QSizes : Quarantined(name, size)
           \/ \E h \in DOMAIN file_handles : Quarantined(file_handles[h].path, file_handles[h].size)
           \/ Quarantined(sink.name, sink.got)
           \/ \E i \in DOMAIN save : SaveStep(i)
<1>1. CASE QuarantineNext
  BY <1>1 DEF QuarantineNext
<1>2. CASE SftpNext
  <2>1. ASSUME NEW h \in 0..MaxHandles, SftpClose(h)
        PROVE  \/ UNCHANGED qVars
               \/ \E k \in DOMAIN file_handles : Quarantined(file_handles[k].path, file_handles[k].size)
    BY <2>1 DEF SftpClose
  <2> QED BY <1>2, <2>1 DEF SftpNext, SftpOpen, SftpWrite, SftpRemove, SftpRemoved, SftpRename, SftpLost
<1>3. CASE ScpNext
  BY <1>3 DEF ScpNext, ScpServer, ScpUsage, SinkStart, FileData, EndHeader, OtherHeader, CopyHeader,
              DirHeader, SourceStart, ClientAnswers, ClientHangsUp, FileReceived, SinkEof,
              InitialAck, DirAck, FileAck, FinalAck, EndAck
<1>4. CASE UNCHANGED transferVars
  BY <1>4 DEF transferVars
<1> QED BY <1>1, <1>2, <1>3, <1>4 DEF TransferNext

-----------------------------------------------------------------------------
(* SFTP                                                                    *)

Contents == [size : Nat, gap : BOOLEAN]
Handles == [path : QNames, size : Nat, gap : BOOLEAN, is_write : BOOLEAN]

SftpInv ==
    /\ file_handles \in [DOMAIN file_handles -> Handles]
    /\ vfs \in [DOMAIN vfs -> Contents] /\ DOMAIN vfs \subseteq QNames
    /\ removing \in Seq(QNames)
    /\ OnlyGapsExceedLimit

LEMMA SftpInvInit == SftpInit => SftpInv
BY SftpAssumption DEF SftpInit, SftpInv, OnlyGapsExceedLimit, Contents, Handles, Smaller

LEMMA SftpInvStep == SftpInv /\ [SftpNext]_sftpVars => SftpInv'
<1> SUFFICES ASSUME SftpInv, [SftpNext]_sftpVars PROVE SftpInv'
  OBVIOUS
<1> USE SftpAssumption, QuarantineAssumption DEF SftpInv, OnlyGapsExceedLimit, Contents, Handles
<1>1. ASSUME NEW p \in QNames, NEW is_write \in BOOLEAN, NEW trunc \in BOOLEAN,
             SftpOpen(p, is_write, trunc)
      PROVE  SftpInv'
  <2>1. PICK c \in Contents :
            /\ c.gap \/ c.size <= UploadLimit
            /\ file_handles' = Override(file_handles, next_handle_id,
                    [path |-> p, size |-> c.size, gap |-> c.gap, is_write |-> is_write])
    <3>1. Empty \in Contents /\ Empty.size = 0
      BY DEF Empty
    <3>2. Content(p) \in Contents /\ (Content(p).gap \/ Content(p).size <= UploadLimit)
      BY <3>1 DEF Content
    <3>3. CASE is_write /\ trunc
      <4>1. file_handles' = Override(file_handles, next_handle_id,
                [path |-> p, size |-> Empty.size, gap |-> Empty.gap, is_write |-> is_write])
        BY <1>1, <3>3 DEF SftpOpen
      <4> QED BY <3>1, <4>1
    <3>4. CASE ~(is_write /\ trunc)
      <4>1. file_handles' = Override(file_handles, next_handle_id,
                [path |-> p, size |-> Content(p).size, gap |-> Content(p).gap, is_write |-> is_write])
        BY <1>1, <3>4 DEF SftpOpen
      <4> QED BY <3>2, <4>1
    <3> QED BY <3>3, <3>4
  <2>2. DOMAIN file_handles' = DOMAIN file_handles \cup {next_handle_id}
    BY <2>1 DEF Override
  <2>3. \A h \in DOMAIN file_handles' :
            /\ file_handles'[h] \in Handles
            /\ file_handles'[h].gap \/ file_handles'[h].size <= UploadLimit
    BY <2>1, <2>2 DEF Override
  <2>4. file_handles' \in [DOMAIN file_handles' -> Handles]
    BY <2>1, <2>3 DEF Override
  <2> QED BY <1>1, <2>3, <2>4 DEF SftpOpen
<1>2. ASSUME NEW h \in 0..MaxHandles, NEW offset \in 0..(UploadLimit + 1), NEW length \in QSizes,
             SftpWrite(h, offset, length)
      PROVE  SftpInv'
  <2> DEFINE fh == file_handles[h]
             gapped == fh.gap \/ offset > fh.size
             size == Larger(fh.size, offset + length)
             new == [fh EXCEPT !.size = size, !.gap = gapped]
  <2>1. h \in DOMAIN file_handles /\ fh \in Handles /\ fh.size + length <= UploadLimit
    BY <1>2 DEF SftpWrite
  <2>2. /\ length \in Nat /\ gapped \in BOOLEAN /\ size \in Nat
        /\ gapped \/ size <= UploadLimit
    BY <2>1 DEF Larger
  <2>3. new \in Handles /\ new.gap = gapped /\ new.size = size
    <3> HIDE DEF gapped, size, fh
    <3> QED BY <2>1, <2>2
  <2>4. new.gap \/ new.size <= UploadLimit
    <3> HIDE DEF gapped, size, new
    <3> QED BY <2>2, <2>3
  <2>5. file_handles' = [file_handles EXCEPT ![h] = new]
    BY <1>2 DEF SftpWrite
  <2> HIDE DEF new
  <2> QED BY <1>2, <2>1, <2>3, <2>4, <2>5 DEF SftpWrite
<1>3. ASSUME NEW h \in 0..MaxHandles, SftpClose(h)
      PROVE  SftpInv'
  BY <1>3 DEF SftpClose, Override
<1>4. ASSUME NEW p \in QNames, SftpRemove(p)
      PROVE  SftpInv'
  BY <1>4 DEF SftpRemove
<1>5. CASE SftpRemoved
  BY <1>5 DEF SftpRemoved
<1>6. ASSUME NEW p \in QNames, NEW np \in QNames, SftpRename(p, np)
      PROVE  SftpInv'
  BY <1>6 DEF SftpRename
<1>7. CASE SftpLost
  BY <1>7 DEF SftpLost
<1>8. CASE UNCHANGED sftpVars
  BY <1>8 DEF sftpVars
<1> QED BY <1>1, <1>2, <1>3, <1>4, <1>5, <1>6, <1>7, <1>8 DEF SftpNext

\* Only what was written with a gap is larger than ssh.max_total_upload_mb_per_session
\* permits, be it in a handle or in the filesystem.
THEOREM UploadLimitKept == TransferSpec => []OnlyGapsExceedLimit
<1>1. TransferInit => SftpInv
  BY SftpInvInit DEF TransferInit
<1>2. SftpInv /\ [TransferNext]_transferVars => SftpInv'
  BY SftpInvStep DEF TransferNext, transferVars
<1>3. SftpInv => OnlyGapsExceedLimit
  BY DEF SftpInv
<1> QED BY <1>1, <1>2, <1>3, PTL DEF TransferSpec

-----------------------------------------------------------------------------
(* The source of SCP                                                       *)

\* handle() has sent message n, and waits for its acknowledgement: it is still to
\* come, or on its way, or will not come any more.
OneMessage(n, pending, answered, closed) ==
    \/ answered = <<>> /\ (closed \/ pending = <<n>>)
    \/ pending = <<>> /\ Len(answered) = 1 /\ answered[1].of = n

Awaiting == {"initial", "D", "C", "final", "E"}

\* Nothing has put the source out of step yet.
InStep == ~late /\ ~refused

SourceInv ==
    /\ sent \in Nat
    /\ unanswered \in Seq(Nat)
    /\ acks \in Seq([of : Nat, ok : BOOLEAN])
    /\ scp = "start" => sent = 0 /\ acks = <<>> /\ unanswered = <<>>
    /\ InStep => ~mismatch
    /\ InStep /\ scp \in Awaiting => OneMessage(sent, unanswered, acks, hung_up)

\* Taking the acknowledgement leaves none: what was pending is answered, or will not be.
LEMMA TakeIt ==
    ASSUME SourceInv, scp \in Awaiting, NEW answer, Take(answer)
    PROVE  /\ acks' \in Seq([of : Nat, ok : BOOLEAN])
           /\ InStep => /\ ~mismatch'
                        /\ acks' = <<>> /\ (hung_up \/ unanswered = <<>>)
<1>1. CASE acks # <<>>
  <2>1. acks' = Tail(acks) /\ Head(acks) = acks[1]
    BY <1>1 DEF Take, SourceInv
  <2>2. InStep => unanswered = <<>> /\ Len(acks) = 1 /\ acks[1].of = sent /\ ~mismatch
    BY <1>1 DEF SourceInv, OneMessage
  <2>3. InStep => acks' = <<>>
    BY <2>1, <2>2 DEF SourceInv
  <2>4. acks' \in Seq([of : Nat, ok : BOOLEAN])
    BY <1>1, <2>1 DEF SourceInv
  <2>5. mismatch' = (mismatch \/ Head(acks).of # sent)
    BY <1>1 DEF Take
  <2>6. InStep => ~mismatch'
    BY <2>1, <2>2, <2>5
  <2> QED BY <2>2, <2>3, <2>4, <2>6
<1>2. CASE acks = <<>>
  BY <1>2 DEF Take, SourceInv
<1> QED BY <1>1, <1>2

\* Going on sends the next message, or ends.
LEMMA ProceedSends ==
    ASSUME NEW above, Proceed(above) \/ SendHeader(Target, <<>>)
    PROVE  \/ scp' \in Awaiting /\ sent' = sent + 1 /\ unanswered' = Append(unanswered, sent + 1)
           \/ scp' = "rc0" /\ sent' = sent /\ unanswered' = unanswered
BY DEF Proceed, SendHeader, Send, Awaiting

\* A message taken and the next one sent.
LEMMA NextMessage ==
    ASSUME SourceInv, hung_up' = hung_up,
           acks' \in Seq([of : Nat, ok : BOOLEAN]),
           InStep' => InStep /\ ~mismatch' /\ acks' = <<>> /\ (hung_up \/ unanswered = <<>>),
           \/ scp' \in Awaiting /\ sent' = sent + 1 /\ unanswered' = Append(unanswered, sent + 1)
           \/ scp' \in {"rc0", "rc1"} /\ sent' = sent /\ unanswered' = unanswered
    PROVE  SourceInv'
<1>0. Append(<<>>, sent + 1) = <<sent + 1>>
  OBVIOUS
<1>1. /\ sent' \in Nat /\ unanswered' \in Seq(Nat)
      /\ unanswered = <<>> => Append(unanswered, sent + 1) = <<sent + 1>>
  <2>1. sent' \in Nat
    BY DEF SourceInv
  <2>2. unanswered' \in Seq(Nat)
    <3>1. unanswered \in Seq(Nat) /\ sent + 1 \in Nat
      BY DEF SourceInv
    <3>2. Append(unanswered, sent + 1) \in Seq(Nat)
      BY <3>1
    <3> QED BY <3>1, <3>2
  <2> QED BY <2>1, <2>2, <1>0
<1>2. scp' # "start"
  BY DEF Awaiting
<1>3. ASSUME InStep', scp' \in Awaiting
      PROVE  OneMessage(sent, unanswered, acks, hung_up)'
  <2>1. acks' = <<>> /\ (hung_up \/ unanswered = <<>>) /\ sent' = sent + 1 /\ unanswered' = Append(unanswered, sent + 1)
    BY <1>3 DEF Awaiting
  <2> QED BY <1>1, <2>1 DEF OneMessage
<1>4. InStep' => ~mismatch'
  OBVIOUS
<1> QED BY <1>1, <1>2, <1>3, <1>4 DEF SourceInv

LEMMA SourceInvStep == SourceInv /\ [ScpNext]_scpVars => SourceInv'
<1> SUFFICES ASSUME SourceInv, [ScpNext]_scpVars PROVE SourceInv'
  OBVIOUS
<1>1. CASE SourceStart
  BY <1>1 DEF SourceStart, SourceInv, OneMessage, Awaiting, InStep
<1>2. CASE InitialAck
  <2>1. CASE Take("ok") /\ SendHeader(Target, <<>>)
    BY <1>2, <2>1, TakeIt, ProceedSends, NextMessage DEF InitialAck, Awaiting, InStep
  <2>2. CASE Take("no") /\ scp' = "rc1" /\ UNCHANGED <<frames, sent, unanswered>>
    BY <1>2, <2>2, TakeIt, NextMessage DEF InitialAck, Awaiting, InStep
  <2> QED BY <1>2, <2>1, <2>2 DEF InitialAck
<1>3. CASE DirAck
  <2>1. \E answer \in {"ok", "no"} : \E above : Take(answer) /\ Proceed(above)
    BY <1>3 DEF DirAck
  <2> QED BY <1>3, <2>1, TakeIt, ProceedSends, NextMessage DEF DirAck, Awaiting, InStep
<1>4. CASE FileAck
  <2>1. CASE Take("ok") /\ scp' = "final" /\ Send
    BY <1>4, <2>1, TakeIt, NextMessage DEF FileAck, Send, Awaiting, InStep
  <2>2. CASE Take("no") /\ Proceed(Outer)
    BY <1>4, <2>2, TakeIt, ProceedSends, NextMessage DEF FileAck, Awaiting, InStep
  <2> QED BY <1>4, <2>1, <2>2 DEF FileAck
<1>5. CASE FinalAck
  <2>1. ASSUME NEW answer \in {"ok", "no"}, Take(answer), UNCHANGED late
        PROVE  SourceInv'
    BY <1>5, <2>1, TakeIt, ProceedSends, NextMessage DEF FinalAck, Awaiting, InStep
  <2>2. CASE acks = <<>> /\ late' = TRUE /\ UNCHANGED <<acks, mismatch>>
    BY <1>5, <2>2, ProceedSends, NextMessage DEF FinalAck, SourceInv, InStep
  <2> QED BY <1>5, <2>1, <2>2 DEF FinalAck
<1>6. CASE EndAck
  BY <1>6, TakeIt, ProceedSends, NextMessage DEF EndAck, Awaiting, InStep
<1>7. CASE ClientAnswers
  <2>1. /\ unanswered # <<>> /\ ~hung_up /\ unanswered' = Tail(unanswered)
        /\ UNCHANGED <<scp, sent, late, mismatch, hung_up>>
    BY <1>7 DEF ClientAnswers
  <2>2. PICK ok \in BOOLEAN : /\ acks' = acks \o AnswerBytes(Head(unanswered), ok)
                              /\ refused' = (refused \/ ~ok)
    BY <1>7 DEF ClientAnswers
  <2>3. Head(unanswered) \in Nat /\ unanswered' \in Seq(Nat)
    BY <2>1 DEF SourceInv
  <2>4. /\ acks' \in Seq([of : Nat, ok : BOOLEAN])
        /\ ok => Len(AnswerBytes(Head(unanswered), ok)) = 1 /\ AnswerBytes(Head(unanswered), ok)[1].of = Head(unanswered)
    <3> DEFINE byte == [of |-> Head(unanswered), ok |-> ok]
               n == IF ok THEN 1 ELSE RefusalBytes
               answer == [i \in 1..n |-> byte]
    <3>1. n \in Nat /\ (ok => n = 1)
      BY ScpAssumption
    <3>2. byte \in [of : Nat, ok : BOOLEAN] /\ byte.of = Head(unanswered)
      BY <2>3
    <3>3. answer \in Seq([of : Nat, ok : BOOLEAN]) /\ Len(answer) = n /\ \A i \in 1..n : answer[i] = byte
      <4> HIDE DEF byte, n
      <4> QED BY <3>1, <3>2
    <3>4. answer = AnswerBytes(Head(unanswered), ok)
      BY DEF AnswerBytes
    <3>5. acks' = acks \o answer /\ acks \in Seq([of : Nat, ok : BOOLEAN])
      BY <2>2, <3>4 DEF SourceInv
    <3>6. ok => Len(answer) = 1 /\ answer[1].of = Head(unanswered)
      <4> HIDE DEF byte, n, answer
      <4> QED BY <3>1, <3>2, <3>3
    <3>7. acks' \in Seq([of : Nat, ok : BOOLEAN])
      <4> HIDE DEF byte, n, answer
      <4> QED BY <3>3, <3>5
    <3> QED BY <3>4, <3>6, <3>7
  <2>5. ASSUME InStep', scp \in Awaiting
        PROVE  OneMessage(sent, unanswered, acks, hung_up)'
    <3>1. ok /\ ~refused
      BY <2>2, <2>5, Zenon DEF InStep
    <3>2. InStep
      BY <2>1, <2>5, <3>1, Zenon DEF InStep
    <3>3. OneMessage(sent, unanswered, acks, hung_up)
      BY <2>5, <3>2, Zenon DEF SourceInv
    <3>4. acks = <<>> /\ Head(unanswered) = sent /\ Tail(unanswered) = <<>>
      BY <2>1, <3>3 DEF OneMessage
    <3>5. acks' = AnswerBytes(Head(unanswered), ok)
      <4>1. AnswerBytes(Head(unanswered), ok) \in Seq([of : Nat, ok : BOOLEAN])
        BY <2>2, <2>4, <3>4, ScpAssumption, <2>3 DEF AnswerBytes
      <4> QED BY <2>2, <3>4, <4>1
    <3> QED BY <2>1, <2>4, <3>1, <3>4, <3>5 DEF OneMessage
  <2>6. sent' \in Nat /\ scp' # "start" /\ (InStep' => ~mismatch')
    BY <2>1, <2>2 DEF SourceInv, InStep
  <2>7. InStep' /\ scp' \in Awaiting => OneMessage(sent, unanswered, acks, hung_up)'
    BY <2>1, <2>5
  <2> QED BY <2>3, <2>4, <2>6, <2>7 DEF SourceInv
<1>8. CASE ClientHangsUp
  BY <1>8 DEF ClientHangsUp, sourceVars, SourceInv, OneMessage, InStep
<1>9. ASSUME UNCHANGED <<sent, unanswered, acks, late, refused, mismatch, hung_up>>,
             scp' = scp \/ scp' \in {"header", "data", "rc0", "rc1"}
      PROVE  SourceInv'
  BY <1>9 DEF SourceInv, Awaiting, InStep
<1>10. CASE ScpUsage \/ SinkStart \/ FileData \/ EndHeader \/ OtherHeader \/ SinkEof \/ FileReceived
  BY <1>9, <1>10 DEF ScpUsage, SinkStart, FileData, EndHeader, OtherHeader, SinkEof, FileReceived,
                     sourceVars
<1>11. ASSUME NEW name, NEW size, CopyHeader(name, size) \/ DirHeader(name)
       PROVE  SourceInv'
  BY <1>9, <1>11 DEF CopyHeader, DirHeader, Header, sourceVars
<1>12. CASE UNCHANGED scpVars
  BY <1>9, <1>12 DEF scpVars, sourceVars
<1> QED BY <1>1, <1>2, <1>3, <1>4, <1>5, <1>6, <1>7, <1>8, <1>10, <1>11, <1>12 DEF ScpNext, ScpServer

\* The source takes every answer for that of the message it last sent, until a final
\* one is too late or the client refuses something.
THEOREM AcksInStep == TransferSpec => []AcksMatchMessages
<1>1. TransferInit => SourceInv
  BY DEF TransferInit, ScpInit, SourceInv, Awaiting, InStep
<1>2. SourceInv /\ [TransferNext]_transferVars => SourceInv'
  BY SourceInvStep DEF TransferNext, transferVars, scpVars
<1>3. SourceInv => AcksMatchMessages
  BY DEF SourceInv, AcksMatchMessages, InStep
<1> QED BY <1>1, <1>2, <1>3, PTL DEF TransferSpec

-----------------------------------------------------------------------------
(* The sink of SCP                                                         *)

\* The first names decide about a base, whatever follows them.
LEMMA BaseOfPrefix ==
    ASSUME NEW base, NEW names, NEW others, NEW n \in Nat,
           \A j \in 1..n : names[j] = others[j],
           IsBase(base, names, n)
    PROVE  IsBase(base, others, n)
<1>1. {j \in 1..n : names[j] # Malformed} = {j \in 1..n : others[j] # Malformed}
  OBVIOUS
<1> QED BY <1>1 DEF IsBase

\* Before any name the base is the target.
LEMMA NoBase == \A names : IsBase(Target, names, 0)
<1>1. \A names : {j \in 1..0 : names[j] # Malformed} = {}
  OBVIOUS
<1>2. Cardinality({}) = 0
  BY FS_EmptySet
<1>3. Len(Target) = 0
  BY DEF Target
<1> QED BY <1>1, <1>2, <1>3 DEF IsBase

\* A further name goes to the end of the base, unless it is malformed.
LEMMA BaseGrows ==
    ASSUME NEW base \in Seq(QNames), NEW names \in Seq(FileNames), NEW name \in FileNames,
           IsBase(base, names, Len(names))
    PROVE  IsBase(IF name = Malformed THEN base ELSE Append(base, name), Append(names, name), Len(names) + 1)
<1> DEFINE n == Len(names)
           longer == Append(names, name)
           named == {j \in 1..n : names[j] # Malformed}
           after == {j \in 1..(n + 1) : longer[j] # Malformed}
           Upto(S, j) == {i \in S : i <= j}
<1>1. n \in Nat /\ longer[n + 1] = name /\ \A j \in 1..n : longer[j] = names[j]
  OBVIOUS
<1>2. after = IF name = Malformed THEN named ELSE named \cup {n + 1}
  BY <1>1
<1>3. IsFiniteSet(named) /\ n + 1 \notin named
  <2>1. named \subseteq Nat /\ \A j \in named : j <= n
    BY <1>1
  <2>2. IsFiniteSet(named)
    BY <1>1, <2>1, FS_BoundedSetOfNaturals
  <2> QED BY <1>1, <2>2
<1>4. Cardinality(named) = Len(base) /\ \A j \in named : base[Cardinality(Upto(named, j))] = names[j]
  BY DEF IsBase
<1>5. \A j \in named : Upto(after, j) = Upto(named, j) /\ longer[j] = names[j]
  BY <1>1, <1>2
<1>6. CASE name = Malformed
  <2>1. after = named /\ Len(base) = Cardinality(after)
    BY <1>2, <1>4, <1>6
  <2>2. \A j \in after : base[Cardinality(Upto(after, j))] = longer[j]
    BY <1>4, <1>5, <2>1
  <2> QED BY <1>6, <2>1, <2>2 DEF IsBase
<1>7. CASE name # Malformed
  <2>1. after = named \cup {n + 1} /\ Cardinality(after) = Len(base) + 1
    <3>1. after = named \cup {n + 1}
      BY <1>2, <1>7
    <3> HIDE DEF named, after
    <3> QED BY <3>1, <1>3, <1>4, FS_AddElement
  <2>2. name \in QNames /\ Len(Append(base, name)) = Len(base) + 1 /\ Len(base) \in Nat
    BY <1>7 DEF FileNames
  <2>3. \A k \in 1..Len(base) : Append(base, name)[k] = base[k]
    BY <2>2
  <2>4. Append(base, name)[Len(base) + 1] = name
    BY <2>2
  <2>5. ASSUME NEW j \in named
        PROVE  Append(base, name)[Cardinality(Upto(after, j))] = longer[j]
    <3>1. Upto(named, j) \in SUBSET named /\ j \in Upto(named, j)
      BY <2>5
    <3>2. /\ IsFiniteSet(Upto(named, j)) /\ Cardinality(Upto(named, j)) <= Cardinality(named)
      BY <3>1, <1>3, FS_Subset
    <3>3. Cardinality(Upto(named, j)) \in Nat /\ Cardinality(Upto(named, j)) # 0
      BY <3>1, <3>2, FS_EmptySet, FS_CardinalityType
    <3>4. Cardinality(Upto(named, j)) \in 1..Len(base)
      BY <3>2, <3>3, <1>4, <2>2
    <3> QED BY <3>4, <2>3, <1>4, <1>5, <2>5
  <2>6. Upto(after, n + 1) = after
    BY <1>1
  <2>7. Append(base, name)[Cardinality(Upto(after, n + 1))] = longer[n + 1]
    BY <2>6, <2>1, <2>4, <1>1
  <2>8. \A j \in after : Append(base, name)[Cardinality(Upto(after, j))] = longer[j]
    BY <2>1, <2>5, <2>7
  <2>9. Len(Append(base, name)) = Cardinality(after)
    BY <2>1, <2>2
  <2> QED BY <1>7, <2>8, <2>9 DEF IsBase
<1> QED BY <1>6, <1>7

\* What is left of a sequence without its last element.
LEMMA BeforeLast ==
    ASSUME NEW S, NEW s \in Seq(S), NEW n \in Nat, Len(s) = n, n > 0
    PROVE  /\ SubSeq(s, 1, n - 1) \in Seq(S)
           /\ Len(SubSeq(s, 1, n - 1)) = n - 1
           /\ \A j \in 1..(n - 1) : SubSeq(s, 1, n - 1)[j] = s[j]
<1>1. n - 1 \in Nat /\ \A j \in 1..(n - 1) : s[j] \in S
  OBVIOUS
<1> DEFINE m == n - 1
<1>2. m \in Nat /\ 1 \in Int /\ m \in Int /\ \A j \in 1..m : s[j] \in S
  BY <1>1
<1> HIDE DEF m
<1>3. /\ SubSeq(s, 1, m) \in Seq(S)
      /\ Len(SubSeq(s, 1, m)) = IF 1 <= m THEN m - 1 + 1 ELSE 0
      /\ \A j \in 1..(m - 1 + 1) : SubSeq(s, 1, m)[j] = s[1 + j - 1]
  BY <1>2, SubSeqProperties
<1>4. (IF 1 <= m THEN m - 1 + 1 ELSE 0) = m /\ m - 1 + 1 = m
  BY <1>2
<1>5. \A j \in 1..m : 1 + j - 1 = j
  BY <1>2
<1> QED BY <1>3, <1>4, <1>5 DEF m

\* While headers are read, the stack remembers the base before each of the
\* directories that are open, on top of the entry of the start.
SinkInv ==
    /\ sink \in [base : Seq(QNames), dir_stack : Seq(Seq(QNames)), name : FileNames, left : Nat, got : Nat]
    /\ opened \in Seq(FileNames)
    /\ IsBase(sink.base, opened, Len(opened))
    /\ scp = "start" => opened = <<>>
    /\ scp \in {"header", "data"} =>
          /\ Len(sink.dir_stack) = Len(opened) + 1
          /\ IsBase(sink.dir_stack[1], opened, 0)
          /\ \A k \in DOMAIN opened : IsBase(sink.dir_stack[k + 1], opened, k - 1)

LEMMA SinkInvInit == ScpInit => SinkInv
<1> SUFFICES ASSUME ScpInit PROVE SinkInv
  OBVIOUS
<1>1. /\ sink = [base |-> Target, dir_stack |-> <<>>, name |-> Malformed, left |-> 0, got |-> 0]
      /\ opened = <<>> /\ scp = "start"
  BY DEF ScpInit
<1>2. sink \in [base : Seq(QNames), dir_stack : Seq(Seq(QNames)), name : FileNames, left : Nat, got : Nat]
  BY <1>1 DEF Target, FileNames
<1>3. IsBase(sink.base, opened, Len(opened))
  BY <1>1, NoBase
<1> QED BY <1>1, <1>2, <1>3 DEF SinkInv

LEMMA DirHeaderKeeps ==
    ASSUME SinkInv, NEW name \in FileNames, DirHeader(name)
    PROVE  SinkInv'
<1> DEFINE base == IF name = Malformed THEN sink.base ELSE Append(sink.base, name)
           n == Len(opened)
<1>1. /\ scp = "header" /\ scp' = scp /\ opened' = Append(opened, name)
      /\ sink' = [sink EXCEPT !.dir_stack = Append(@, sink.base), !.base = base]
  BY DEF DirHeader, Header
<1>2. /\ sink.base \in Seq(QNames) /\ sink.dir_stack \in Seq(Seq(QNames)) /\ opened \in Seq(FileNames)
      /\ n \in Nat /\ Len(sink.dir_stack) = n + 1
      /\ IsBase(sink.base, opened, n)
      /\ IsBase(sink.dir_stack[1], opened, 0)
      /\ \A k \in 1..n : IsBase(sink.dir_stack[k + 1], opened, k - 1)
  BY <1>1 DEF SinkInv
<1>3. base \in Seq(QNames)
  BY <1>2 DEF FileNames
<1>4. sink' \in [base : Seq(QNames), dir_stack : Seq(Seq(QNames)), name : FileNames, left : Nat, got : Nat]
  <2>1. Append(sink.dir_stack, sink.base) \in Seq(Seq(QNames))
    BY <1>2
  <2> DEFINE longer == Append(sink.dir_stack, sink.base)
  <2>2. sink' = [sink EXCEPT !.dir_stack = longer, !.base = base]
    BY <1>1 DEF SinkInv
  <2> HIDE DEF base, longer
  <2> QED BY <1>3, <2>1, <2>2 DEF SinkInv, longer
<1>5. /\ opened' \in Seq(FileNames) /\ Len(opened') = n + 1
      /\ \A j \in 1..n : opened'[j] = opened[j]
  BY <1>1, <1>2
<1>6. IsBase(sink'.base, opened', Len(opened'))
  <2>1. sink'.base = base
    <3> HIDE DEF base
    <3> QED BY <1>1 DEF SinkInv
  <2>2. IsBase(base, opened', n + 1)
    BY <1>1, <1>2, BaseGrows
  <2> QED BY <2>1, <2>2, <1>5
<1>7. /\ Len(sink'.dir_stack) = n + 2
      /\ sink'.dir_stack[n + 2] = sink.base
      /\ \A k \in 1..(n + 1) : sink'.dir_stack[k] = sink.dir_stack[k]
  <2>1. sink'.dir_stack = Append(sink.dir_stack, sink.base)
    <3> HIDE DEF base
    <3> QED BY <1>1 DEF SinkInv
  <2> QED BY <2>1, <1>2
<1>8. IsBase(sink'.dir_stack[1], opened', 0)
  <2>1. 1 \in 1..(n + 1) /\ \A j \in 1..0 : opened[j] = opened'[j]
    BY <1>2
  <2> QED BY <2>1, <1>2, <1>7, BaseOfPrefix
<1>9. ASSUME NEW k \in DOMAIN opened'
      PROVE  IsBase(sink'.dir_stack[k + 1], opened', k - 1)
  <2>1. CASE k = n + 1
    <3>1. sink'.dir_stack[k + 1] = sink.base /\ k - 1 = n
      BY <2>1, <1>2, <1>7
    <3> QED BY <3>1, <1>2, <1>5, BaseOfPrefix, ZenonT(30)
  <2>2. CASE k \in 1..n
    <3>1. k + 1 \in 1..(n + 1) /\ k - 1 \in Nat /\ \A j \in 1..(k - 1) : opened[j] = opened'[j]
      BY <2>2, <1>2, <1>5, SMTT(30)
    <3> QED BY <3>1, <2>2, <1>2, <1>7, BaseOfPrefix, SMTT(30)
  <2> QED BY <2>1, <2>2, <1>2, <1>5
<1> QED
  <2>1. Len(sink'.dir_stack) = Len(opened') + 1
    BY <1>2, <1>5, <1>7
  <2> QED BY <1>1, <1>4, <1>5, <1>6, <1>8, <1>9, <2>1 DEF SinkInv

LEMMA EndHeaderKeeps ==
    ASSUME SinkInv, EndHeader
    PROVE  SinkInv'
<1> DEFINE n == Len(opened)
           stack == sink.dir_stack
           rest == SubSeq(stack, 1, Len(stack) - 1)
<1>1. /\ scp = "header" /\ opened' = SubSeq(opened, 1, n - 1)
      /\ sink' = [sink EXCEPT !.base = stack[Len(stack)], !.dir_stack = rest]
      /\ scp' = IF rest = <<>> THEN "rc0" ELSE "header"
  BY DEF EndHeader, Header
<1>2. /\ stack \in Seq(Seq(QNames)) /\ opened \in Seq(FileNames)
      /\ n \in Nat /\ Len(stack) = n + 1
      /\ IsBase(stack[1], opened, 0)
      /\ \A k \in 1..n : IsBase(stack[k + 1], opened, k - 1)
  BY <1>1 DEF SinkInv
<1>3. /\ rest \in Seq(Seq(QNames)) /\ Len(rest) = n /\ stack[n + 1] \in Seq(QNames)
      /\ \A k \in 1..n : rest[k] = stack[k]
  <2>1. n + 1 \in Nat /\ n + 1 > 0 /\ (n + 1) - 1 = n /\ n + 1 \in DOMAIN stack
    BY <1>2
  <2> QED BY <1>2, <2>1, BeforeLast
<1>4. /\ sink' \in [base : Seq(QNames), dir_stack : Seq(Seq(QNames)), name : FileNames, left : Nat, got : Nat]
      /\ sink'.base = stack[n + 1] /\ sink'.dir_stack = rest
  <2> HIDE DEF rest
  <2> QED BY <1>1, <1>2, <1>3 DEF SinkInv
<1>5. CASE n = 0
  <2>1. opened' = <<>> /\ rest = <<>> /\ opened' \in Seq(FileNames) /\ Len(opened') = 0
    BY <1>1, <1>2, <1>3, <1>5
  <2>2. IsBase(sink'.base, opened', Len(opened'))
    <3>1. \A j \in 1..0 : opened[j] = opened'[j]
      OBVIOUS
    <3> QED BY <3>1, <2>1, <1>2, <1>4, <1>5, BaseOfPrefix
  <2> QED BY <2>1, <2>2, <1>1, <1>4 DEF SinkInv
<1>6. CASE n > 0
  <2>1. /\ opened' \in Seq(FileNames) /\ Len(opened') = n - 1
        /\ \A j \in 1..(n - 1) : opened'[j] = opened[j]
    BY <1>1, <1>2, <1>6, BeforeLast
  <2>2. IsBase(sink'.base, opened', Len(opened'))
    <3>1. n \in 1..n /\ n - 1 \in Nat
      BY <1>2, <1>6
    <3>2. IsBase(stack[n + 1], opened, n - 1)
      BY <3>1, <1>2
    <3>3. IsBase(stack[n + 1], opened', n - 1)
      BY <3>1, <3>2, <2>1, BaseOfPrefix
    <3> QED BY <3>3, <2>1, <1>4
  <2>3. scp' = "header" /\ Len(sink'.dir_stack) = Len(opened') + 1
    <3>1. rest # <<>>
      <4>1. Len(rest) = n /\ n \in Nat /\ n # 0
        BY <1>2, <1>3, <1>6
      <4> HIDE DEF rest, n
      <4> QED BY <4>1
    <3> HIDE DEF rest
    <3>2. scp' = "header"
      BY <3>1, <1>1
    <3>3. Len(sink'.dir_stack) = n
      BY <1>3, <1>4
    <3>4. n \in Nat /\ Len(opened') = n - 1
      BY <2>1, <1>2
    <3> HIDE DEF n
    <3> QED BY <3>2, <3>3, <3>4
  <2>4. IsBase(sink'.dir_stack[1], opened', 0)
    <3>1. sink'.dir_stack[1] = stack[1] /\ \A j \in 1..0 : opened[j] = opened'[j]
      BY <1>2, <1>3, <1>4, <1>6
    <3> QED BY <3>1, <1>2, BaseOfPrefix
  <2>5. ASSUME NEW k \in DOMAIN opened'
        PROVE  IsBase(sink'.dir_stack[k + 1], opened', k - 1)
    <3>1. k \in 1..(n - 1)
      BY <2>1
    <3>2. /\ k \in 1..n /\ k + 1 \in 1..n /\ k - 1 \in Nat
          /\ \A j \in 1..(k - 1) : opened[j] = opened'[j]
      BY <3>1, <2>1, <1>2, SMTT(30)
    <3>3. sink'.dir_stack[k + 1] = stack[k + 1]
      BY <3>2, <1>3, <1>4
    <3> QED BY <3>2, <3>3, <1>2, BaseOfPrefix
  <2> QED BY <1>4, <2>1, <2>2, <2>3, <2>4, <2>5 DEF SinkInv
<1> QED BY <1>2, <1>5, <1>6

LEMMA SinkInvStep == SinkInv /\ [ScpNext]_scpVars => SinkInv'
<1> SUFFICES ASSUME SinkInv, [ScpNext]_scpVars PROVE SinkInv'
  OBVIOUS
<1>1. CASE SinkStart
  <2>1. /\ sink' = [sink EXCEPT !.dir_stack = <<Target>>] /\ opened' = opened /\ opened = <<>>
        /\ scp = "start" /\ scp' = "header"
    BY <1>1 DEF SinkStart, SinkInv
  <2>2. <<Target>> \in Seq(Seq(QNames)) /\ <<Target>>[1] = Target /\ Len(<<Target>>) = 1
    BY DEF Target
  <2>3. /\ sink' \in [base : Seq(QNames), dir_stack : Seq(Seq(QNames)), name : FileNames, left : Nat, got : Nat]
        /\ sink'.base = sink.base /\ sink'.dir_stack = <<Target>>
    <3> DEFINE first == <<Target>>
    <3> HIDE DEF first
    <3> QED BY <2>1, <2>2 DEF SinkInv, first
  <2>4. Len(opened') = 0 /\ DOMAIN opened' = {}
    BY <2>1
  <2> QED BY <2>1, <2>2, <2>3, <2>4, NoBase DEF SinkInv
<1>2. ASSUME NEW name \in QNames \cup {Malformed}, NEW size \in QSizes, CopyHeader(name, size)
      PROVE  SinkInv'
  <2>1. CASE name = Malformed
    BY <1>2, <2>1 DEF CopyHeader, Header, SinkInv
  <2>2. CASE name # Malformed
    <3>1. /\ sink' = [sink EXCEPT !.name = name, !.left = size, !.got = 0]
          /\ opened' = opened /\ scp = "header" /\ scp' = "data"
      BY <1>2, <2>2 DEF CopyHeader, Header
    <3>2. size \in Nat /\ name \in FileNames
      BY QuarantineAssumption DEF FileNames
    <3>3. /\ sink' \in [base : Seq(QNames), dir_stack : Seq(Seq(QNames)), name : FileNames, left : Nat, got : Nat]
          /\ sink'.base = sink.base /\ sink'.dir_stack = sink.dir_stack
      BY <3>1, <3>2 DEF SinkInv
    <3> QED BY <3>1, <3>3 DEF SinkInv
  <2> QED BY <2>1, <2>2
<1>3. CASE FileData
  <2>1. PICK n \in 1..sink.left : sink' = [sink EXCEPT !.left = @ - n, !.got = @ + n]
    BY <1>3 DEF FileData
  <2>2. sink.left - n \in Nat /\ sink.got + n \in Nat
    BY DEF SinkInv
  <2> QED BY <1>3, <2>1, <2>2 DEF FileData, SinkInv
<1>4. CASE EndHeader
  BY <1>4, EndHeaderKeeps
<1>5. ASSUME NEW name \in QNames \cup {Malformed}, DirHeader(name)
      PROVE  SinkInv'
  BY <1>5, DirHeaderKeeps DEF FileNames
<1>6. ASSUME UNCHANGED <<sink, opened>>,
             scp' # "start" \/ scp' = scp,
             scp' \in {"header", "data"} => scp \in {"header", "data"}
      PROVE  SinkInv'
  BY <1>6 DEF SinkInv
<1>7. CASE ScpUsage \/ OtherHeader \/ SinkEof \/ FileReceived
  BY <1>6, <1>7 DEF ScpUsage, OtherHeader, Header, SinkEof, FileReceived, sinkVars
<1>8. CASE SourceStart \/ ClientAnswers \/ ClientHangsUp
  BY <1>6, <1>8 DEF SourceStart, ClientAnswers, ClientHangsUp, sinkVars
<1>9. CASE InitialAck \/ DirAck \/ FileAck \/ FinalAck \/ EndAck
  BY <1>6, <1>9 DEF InitialAck, DirAck, FileAck, FinalAck, EndAck, Proceed, SendHeader, Send, sinkVars
<1>10. CASE UNCHANGED scpVars
  BY <1>6, <1>10 DEF scpVars, sinkVars
<1> QED BY <1>1, <1>2, <1>3, <1>4, <1>5, <1>7, <1>8, <1>9, <1>10 DEF ScpNext, ScpServer

\* Files go below the target where the client's D and E headers say, whatever their
\* order and number.
THEOREM SinkInPlace == TransferSpec => []SinkFollowsClient
<1>1. TransferInit => SinkInv
  BY SinkInvInit DEF TransferInit
<1>2. SinkInv /\ [TransferNext]_transferVars => SinkInv'
  BY SinkInvStep DEF TransferNext, transferVars, scpVars, sinkVars
<1>3. SinkInv => SinkFollowsClient
  BY DEF SinkInv, SinkFollowsClient
<1> QED BY <1>1, <1>2, <1>3, PTL DEF TransferSpec

-----------------------------------------------------------------------------
(* The quarantine                                                          *)

Steps == {"new", "admitted", "opened", "written", "done", "rejected", "failed"}
Scans == {"none", "queued", "asked", "uploading", "reported", "ended"}
Saves == [name : FileNames, size : Nat, step : Steps, scan : Scans]

\* Two saves that write one name at the same time are on record,
OverlapsOnRecord ==
    \A i, k \in Writing : i # k /\ save[i].name = save[k].name => save[i].name \in overlapped

\* and a name that is not has an empty file while its save has it open.
OpenedEmpty ==
    \A i \in At("opened") : /\ save[i].name \in DOMAIN stored
                            /\ save[i].name \in overlapped \/ stored[save[i].name] = <<>>

SaveInv ==
    /\ save \in Seq(Saves) /\ scanner \in BOOLEAN /\ peak \in Nat
    /\ stored = [n \in DOMAIN stored |-> stored[n]]
    /\ \A n \in DOMAIN stored : stored[n] \in Seq(Nat)
    /\ OverlapsOnRecord
    /\ OpenedEmpty
    /\ SoloSavesIntact

\* What is in the directory, with what has been admitted to it, is no more than the
\* quota and the peak of what was on its way when something was admitted.
QuotaInv ==
    /\ IsFiniteSet(DirectoryCells)
    /\ IsFiniteSet(OutstandingCells)
    /\ DirectorySize + Outstanding <= QLimit + peak

\* Save i goes to a step, with its name and size, and the others stay as they are.
Goes(i, step) ==
    /\ save' \in Seq(Saves) /\ DOMAIN save' = DOMAIN save
    /\ \A k \in DOMAIN save : k # i => save'[k] = save[k]
    /\ save'[i].name = save[i].name /\ save'[i].size = save[i].size
    /\ save'[i].step = step

LEMMA MoveGoes ==
    ASSUME save \in Seq(Saves), NEW i \in DOMAIN save, NEW step \in Steps, Move(i, step)
    PROVE  Goes(i, step)
<1> DEFINE new == [save[i] EXCEPT !.step = step]
<1>1. save[i] \in Saves
  OBVIOUS
<1>2. new \in Saves /\ new.name = save[i].name /\ new.size = save[i].size /\ new.step = step
  BY <1>1 DEF Saves
<1>3. save' = [save EXCEPT ![i] = new]
  BY DEF Move
<1> HIDE DEF new
<1>4. save' \in Seq(Saves) /\ DOMAIN save' = DOMAIN save
  BY <1>2, <1>3
<1>5. save'[i] = new /\ \A k \in DOMAIN save : k # i => save'[k] = save[k]
  BY <1>3
<1> QED BY <1>2, <1>4, <1>5 DEF Goes

LEMMA ScanGoes ==
    ASSUME save \in Seq(Saves), NEW i \in DOMAIN save, NEW scan \in Scans,
           save' = [save EXCEPT ![i].scan = scan]
    PROVE  Goes(i, save[i].step)
<1> DEFINE new == [save[i] EXCEPT !.scan = scan]
<1>1. save[i] \in Saves
  OBVIOUS
<1>2. new \in Saves /\ new.name = save[i].name /\ new.size = save[i].size /\ new.step = save[i].step
  BY <1>1 DEF Saves
<1>3. save' = [save EXCEPT ![i] = new]
  OBVIOUS
<1> HIDE DEF new
<1>4. save' \in Seq(Saves) /\ DOMAIN save' = DOMAIN save
  BY <1>2, <1>3
<1>5. save'[i] = new /\ \A k \in DOMAIN save : k # i => save'[k] = save[k]
  BY <1>3
<1> QED BY <1>2, <1>4, <1>5 DEF Goes

\* The cells of save i.
Block(i) == {i} \X (1..save[i].size)

LEMMA BlockSize ==
    ASSUME save \in Seq(Saves), NEW i \in DOMAIN save, NEW x
    PROVE  /\ IsFiniteSet({x} \X (1..save[i].size))
           /\ Cardinality({x} \X (1..save[i].size)) = save[i].size
           /\ save[i].size \in Nat
<1> DEFINE m == save[i].size
<1>1. m \in Nat
  <2>1. save[i] \in Saves
    OBVIOUS
  <2> QED BY <2>1 DEF Saves
<1> HIDE DEF m
<1>2. IsFiniteSet(1..m) /\ Cardinality(1..m) = m
  BY <1>1, FS_Interval
<1>3. IsFiniteSet({x}) /\ Cardinality({x}) = 1
  BY FS_Singleton
<1>4. IsFiniteSet({x} \X (1..m)) /\ Cardinality({x} \X (1..m)) = 1 * m
  BY <1>2, <1>3, FS_Product, ZenonT(30)
<1> QED BY <1>1, <1>4 DEF m

\* Who is writing after save i went on, and which cells are outstanding.
LEMMA WritingAfter ==
    ASSUME save \in Seq(Saves), NEW i \in DOMAIN save, NEW step \in Steps, Goes(i, step)
    PROVE  /\ Writing' = (Writing \ {i}) \cup {k \in {i} : step \in {"admitted", "opened"}}
           /\ At("opened")' = (At("opened") \ {i}) \cup {k \in {i} : step = "opened"}
           /\ \A k \in DOMAIN save : save'[k].name = save[k].name /\ save'[k].size = save[k].size
<1>1. /\ DOMAIN save' = DOMAIN save /\ save'[i].step = step
      /\ \A k \in DOMAIN save : k # i => save'[k] = save[k]
  BY DEF Goes
<1>2. \A k \in DOMAIN save : save'[k].step = IF k = i THEN step ELSE save[k].step
  BY <1>1
<1>3. Writing' = (Writing \ {i}) \cup {k \in {i} : step \in {"admitted", "opened"}}
  BY <1>1, <1>2 DEF Writing, At
<1>4. At("opened")' = (At("opened") \ {i}) \cup {k \in {i} : step = "opened"}
  BY <1>1, <1>2 DEF At
<1> QED BY <1>3, <1>4, <1>1 DEF Goes

LEMMA OutstandingAfter ==
    ASSUME save \in Seq(Saves), NEW i \in DOMAIN save, NEW step \in Steps, Goes(i, step)
    PROVE  OutstandingCells' = (OutstandingCells \ Block(i))
                \cup {c \in Block(i) : step \in {"admitted", "opened"}}
<1>1. /\ \A c \in OutstandingCells : \E k \in Writing : c \in {k} \X (1..save[k].size)
      /\ \A k \in Writing : \A c \in {k} \X (1..save[k].size) : c \in OutstandingCells
  BY DEF OutstandingCells
<1>2. /\ \A c \in OutstandingCells' : \E k \in Writing' : c \in {k} \X (1..save'[k].size)
      /\ \A k \in Writing' : \A c \in {k} \X (1..save'[k].size) : c \in OutstandingCells'
  BY DEF OutstandingCells
<1>3. Writing \subseteq DOMAIN save
  BY DEF Writing, At
<1>4. \A k \in Writing' : {k} \X (1..save'[k].size) = {k} \X (1..save[k].size)
  BY <1>3, WritingAfter
<1>5. \A k \in Writing : \A c \in {k} \X (1..save[k].size) : c \in Block(i) <=> k = i
  BY DEF Block
<1>6. ASSUME NEW c \in OutstandingCells'
      PROVE  c \in (OutstandingCells \ Block(i)) \cup {d \in Block(i) : step \in {"admitted", "opened"}}
  <2>1. PICK k \in Writing' : c \in {k} \X (1..save[k].size)
    BY <1>2, <1>4, <1>6
  <2>2. CASE k = i
    BY <2>1, <2>2, WritingAfter DEF Block
  <2>3. CASE k # i
    <3>1. k \in Writing
      BY <2>1, <2>3, WritingAfter
    <3> QED BY <3>1, <2>1, <2>3, <1>1, <1>5
  <2> QED BY <2>2, <2>3
<1>7. ASSUME NEW c \in OutstandingCells \ Block(i)
      PROVE  c \in OutstandingCells'
  <2>1. PICK k \in Writing : c \in {k} \X (1..save[k].size)
    BY <1>1, <1>7
  <2>2. k # i /\ k \in Writing'
    BY <2>1, <1>5, <1>7, WritingAfter
  <2> QED BY <2>1, <2>2, <1>2, <1>4
<1>8. ASSUME NEW c \in Block(i), step \in {"admitted", "opened"}
      PROVE  c \in OutstandingCells'
  <2>1. i \in Writing'
    BY <1>8, WritingAfter
  <2> QED BY <2>1, <1>2, <1>4 DEF Block
<1> QED BY <1>6, <1>7, <1>8

\* Cells and their number.
LEMMA Counted ==
    ASSUME QuotaInv
    PROVE  DirectorySize \in Nat /\ Outstanding \in Nat
BY FS_CardinalityType DEF QuotaInv, DirectorySize, Outstanding

\* A save whose content may be missing or cut short: it has still to write, or failed.
Unfinished == {"opened", "failed"}

\* A file that is not written stays what it was, since saves keep name and size.
LEMMA StillIntact ==
    ASSUME SoloSavesIntact, NEW n \in DOMAIN stored \ overlapped, stored'[n] = stored[n],
           \A k \in DOMAIN save :
               /\ k \in DOMAIN save'
               /\ save'[k].name = save[k].name /\ save'[k].size = save[k].size
               /\ save[k].name = n /\ save[k].step \in Unfinished => save'[k].step \in Unfinished
    PROVE  \E k \in DOMAIN save' : IsUpload(n, k)'
<1>1. PICK k \in DOMAIN save : IsUpload(n, k)
  BY DEF SoloSavesIntact
<1> QED BY <1>1 DEF IsUpload, Unfinished

\* A further upload is neither in the directory nor outstanding.
LEMMA QuarantinedKeeps ==
    ASSUME SaveInv, QuotaInv, NEW name \in FileNames, NEW size \in Nat, Quarantined(name, size)
    PROVE  SaveInv' /\ QuotaInv'
<1> DEFINE new == [name |-> name, size |-> size, step |-> "new", scan |-> "none"]
           n == Len(save) + 1
<1>1. /\ save' = Append(save, new) /\ UNCHANGED <<stored, scanner, peak, overlapped>>
      /\ save \in Seq(Saves)
  BY DEF Quarantined, SaveInv
<1>2. new \in Saves /\ new.step = "new"
  BY DEF Saves, Steps, Scans
<1> HIDE DEF new
<1>3. /\ save' \in Seq(Saves) /\ DOMAIN save' = DOMAIN save \cup {n}
      /\ save'[n].step = "new"
      /\ \A k \in DOMAIN save : save'[k] = save[k]
  BY <1>1, <1>2
<1>4. /\ Writing' = Writing /\ At("opened")' = At("opened")
      /\ Writing \subseteq DOMAIN save /\ At("opened") \subseteq DOMAIN save
  BY <1>3 DEF Writing, At
<1>5. OutstandingCells' = OutstandingCells
  BY <1>3, <1>4 DEF OutstandingCells
<1>6. SoloSavesIntact'
  <2> SUFFICES ASSUME NEW m \in DOMAIN stored \ overlapped
               PROVE  \E k \in DOMAIN save' : IsUpload(m, k)'
    BY <1>1 DEF SoloSavesIntact
  <2> QED BY <1>1, <1>3, StillIntact DEF SaveInv
<1>7. SaveInv'
  BY <1>1, <1>3, <1>4, <1>6 DEF SaveInv, OverlapsOnRecord, OpenedEmpty
<1>8. DirectoryCells' = DirectoryCells
  BY <1>1 DEF DirectoryCells
<1>9. QuotaInv'
  BY <1>1, <1>5, <1>8 DEF QuotaInv, DirectorySize, Outstanding
<1> QED BY <1>7, <1>9

\* What a step of a save leaves of the saves' part of the invariant, if no save
\* begins to write and the directory stays as it is.
LEMMA StaysKeeps ==
    ASSUME SaveInv, QuotaInv, NEW i \in DOMAIN save, NEW step \in Steps, Goes(i, step),
           step \in {"admitted", "opened"} => save[i].step = step,
           save[i].step \in Unfinished => step \in Unfinished,
           UNCHANGED <<stored, peak, overlapped>>, scanner' \in BOOLEAN
    PROVE  SaveInv' /\ QuotaInv'
<1>1. /\ save \in Seq(Saves) /\ save' \in Seq(Saves) /\ DOMAIN save' = DOMAIN save
      /\ \A k \in DOMAIN save : save'[k].name = save[k].name /\ save'[k].size = save[k].size
  BY WritingAfter DEF SaveInv, OverlapsOnRecord, OpenedEmpty, Goes
<1>2. /\ Writing' \subseteq Writing /\ At("opened")' \subseteq At("opened")
      /\ Writing \subseteq DOMAIN save /\ At("opened") \subseteq DOMAIN save
  BY <1>1, WritingAfter DEF Writing, At
<1>3. SoloSavesIntact'
  <2> SUFFICES ASSUME NEW n \in DOMAIN stored \ overlapped
               PROVE  \E k \in DOMAIN save' : IsUpload(n, k)'
    BY DEF SoloSavesIntact
  <2>1. \A k \in DOMAIN save : save[k].step \in Unfinished => save'[k].step \in Unfinished
    BY DEF Goes
  <2> QED BY <1>1, <2>1, StillIntact DEF SaveInv
<1>4. SaveInv'
  BY <1>1, <1>2, <1>3 DEF SaveInv, OverlapsOnRecord, OpenedEmpty
<1>5. OutstandingCells' \subseteq OutstandingCells
  <2>1. CASE step \in {"admitted", "opened"}
    <3>1. i \in Writing
      BY <2>1 DEF Writing, At
    <3>2. Block(i) \subseteq OutstandingCells
      BY <3>1 DEF OutstandingCells, Block
    <3> QED BY <3>2, <1>1, OutstandingAfter
  <2>2. CASE step \notin {"admitted", "opened"}
    BY <2>2, <1>1, OutstandingAfter
  <2> QED BY <2>1, <2>2
<1>6. IsFiniteSet(OutstandingCells') /\ Outstanding' <= Outstanding
  BY <1>5, FS_Subset DEF QuotaInv, Outstanding
<1>7. DirectoryCells' = DirectoryCells
  BY DEF DirectoryCells
<1>8. Outstanding' \in Nat
  BY <1>6, FS_CardinalityType DEF Outstanding
<1>9. QuotaInv'
  BY <1>6, <1>7, <1>8, Counted, QuarantineAssumption DEF QuotaInv, DirectorySize, SaveInv
<1> QED BY <1>4, <1>9

LEMMA AdmitKeeps ==
    ASSUME SaveInv, QuotaInv, NEW i \in DOMAIN save, Admit(i)
    PROVE  SaveInv' /\ QuotaInv'
<1>1. /\ save[i].step = "new" /\ Fits(i) /\ UNCHANGED <<stored, scanner>>
      /\ peak' = IF Outstanding > peak THEN Outstanding ELSE peak
      /\ overlapped' = overlapped \cup {n \in {save[i].name} : \E k \in Writing : save[k].name = n}
  BY DEF Admit
<1>2. save \in Seq(Saves) /\ Goes(i, "admitted")
  BY MoveGoes DEF Admit, SaveInv, Steps
<1>3. /\ save' \in Seq(Saves) /\ DOMAIN save' = DOMAIN save
      /\ \A k \in DOMAIN save : save'[k].name = save[k].name /\ save'[k].size = save[k].size
      /\ Writing' = Writing \cup {i} /\ At("opened")' = At("opened")
  BY <1>1, <1>2, WritingAfter DEF Goes, Steps, At
<1>4. Writing \subseteq DOMAIN save /\ At("opened") \subseteq DOMAIN save
  BY DEF Writing, At
<1>5. ASSUME NEW j \in Writing', NEW k \in Writing', j # k, save'[j].name = save'[k].name
      PROVE  save'[j].name \in overlapped'
  <2>1. CASE j \in Writing /\ k \in Writing
    BY <2>1, <1>1, <1>3, <1>4, <1>5 DEF SaveInv, OverlapsOnRecord, OpenedEmpty
  <2>2. CASE j = i \/ k = i
    BY <2>2, <1>1, <1>3, <1>4, <1>5
  <2> QED BY <2>1, <2>2, <1>3
<1>6. SoloSavesIntact'
  <2> SUFFICES ASSUME NEW n \in DOMAIN stored \ overlapped
               PROVE  \E k \in DOMAIN save' : IsUpload(n, k)'
    BY <1>1 DEF SoloSavesIntact
  <2>1. \A k \in DOMAIN save : save[k].step \in Unfinished => save'[k].step \in Unfinished
    BY <1>1, <1>2 DEF Goes, Unfinished
  <2> QED BY <1>1, <1>3, <2>1, StillIntact DEF SaveInv
<1>7. peak' \in Nat /\ peak' >= Outstanding
  BY <1>1, Counted DEF SaveInv, OverlapsOnRecord, OpenedEmpty
<1>8. SaveInv'
  BY <1>1, <1>3, <1>4, <1>5, <1>6, <1>7, ZenonT(30) DEF SaveInv, OverlapsOnRecord, OpenedEmpty
<1>9. OutstandingCells' = OutstandingCells \cup Block(i)
  BY <1>2, OutstandingAfter DEF Steps
<1>10. /\ IsFiniteSet(Block(i)) /\ Cardinality(Block(i)) = save[i].size /\ save[i].size \in Nat
  BY <1>2, BlockSize DEF Block
<1>11. IsFiniteSet(OutstandingCells') /\ Outstanding' <= Outstanding + save[i].size /\ Outstanding' \in Nat
  <2>1. IsFiniteSet(OutstandingCells \cap Block(i)) /\ Cardinality(OutstandingCells \cap Block(i)) \in Nat
    BY <1>10, FS_Intersection, FS_CardinalityType DEF QuotaInv
  <2>2. /\ IsFiniteSet(OutstandingCells')
        /\ Outstanding' = Outstanding + save[i].size - Cardinality(OutstandingCells \cap Block(i))
    BY <1>9, <1>10, FS_Union DEF QuotaInv, Outstanding
  <2>3. Outstanding' \in Nat
    BY <2>2, FS_CardinalityType DEF Outstanding
  <2> QED BY <2>1, <2>2, <2>3, <1>10, Counted
<1>12. DirectoryCells' = DirectoryCells /\ DirectorySize' = DirectorySize
  BY <1>1 DEF DirectoryCells, DirectorySize
<1>13. QuotaInv'
  <2>1. DirectorySize + save[i].size <= QLimit
    BY <1>1 DEF Fits
  <2>2. DirectorySize' + Outstanding' <= QLimit + peak'
    BY <2>1, <1>7, <1>10, <1>11, <1>12, Counted, QuarantineAssumption
  <2> QED BY <2>2, <1>11, <1>12 DEF QuotaInv
<1> QED BY <1>8, <1>13

LEMMA OpenFileKeeps ==
    ASSUME SaveInv, QuotaInv, NEW i \in DOMAIN save, OpenFile(i)
    PROVE  SaveInv' /\ QuotaInv'
<1> DEFINE name == save[i].name
<1>1. /\ save[i].step = "admitted" /\ UNCHANGED <<scanner, peak, overlapped>>
      /\ stored' = Override(stored, name, <<>>)
  BY DEF OpenFile
<1>2. save \in Seq(Saves) /\ Goes(i, "opened")
  BY MoveGoes DEF OpenFile, SaveInv, Steps
<1>3. i \in Writing /\ Writing \subseteq DOMAIN save /\ At("opened") \subseteq DOMAIN save
  BY <1>1 DEF Writing, At
<1>4. /\ save' \in Seq(Saves) /\ DOMAIN save' = DOMAIN save
      /\ \A k \in DOMAIN save : save'[k].name = save[k].name /\ save'[k].size = save[k].size
      /\ Writing' = Writing /\ At("opened")' = At("opened") \cup {i}
  <2>1. /\ Writing' = (Writing \ {i}) \cup {k \in {i} : "opened" \in {"admitted", "opened"}}
        /\ At("opened")' = (At("opened") \ {i}) \cup {k \in {i} : "opened" = "opened"}
        /\ \A k \in DOMAIN save : save'[k].name = save[k].name /\ save'[k].size = save[k].size
    BY <1>2, WritingAfter DEF Steps
  <2> QED BY <1>2, <1>3, <2>1 DEF Goes
<1>5. /\ DOMAIN stored' = DOMAIN stored \cup {name} /\ stored'[name] = <<>>
      /\ \A n \in DOMAIN stored : n # name => stored'[n] = stored[n]
      /\ stored' = [n \in DOMAIN stored' |-> stored'[n]]
  BY <1>1 DEF Override
<1> HIDE DEF name
<1>6. \A n \in DOMAIN stored' : stored'[n] \in Seq(Nat)
  <2>1. <<>> \in Seq(Nat)
    OBVIOUS
  <2> QED BY <1>5, <2>1 DEF SaveInv, OverlapsOnRecord, OpenedEmpty
<1>7. \A k \in At("opened")' : /\ save'[k].name \in DOMAIN stored'
                               /\ save'[k].name \in overlapped' \/ stored'[save'[k].name] = <<>>
  <2>1. save'[i].name = name
    BY <1>4 DEF name
  <2>2. ASSUME NEW k \in At("opened")
        PROVE  /\ save[k].name \in DOMAIN stored'
               /\ save[k].name \in overlapped' \/ stored'[save[k].name] = <<>>
    <3>1. /\ save[k].name \in DOMAIN stored
          /\ save[k].name \in overlapped \/ stored[save[k].name] = <<>>
      <4>1. OpenedEmpty
        BY DEF SaveInv
      <4> QED BY <2>2, <4>1 DEF OpenedEmpty
    <3>2. CASE save[k].name = name
      BY <3>2, <1>5
    <3>3. CASE save[k].name # name
      BY <3>1, <3>3, <1>1, <1>5
    <3> QED BY <3>2, <3>3
  <2>3. \A k \in At("opened") : save'[k].name = save[k].name
    BY <1>3, <1>4
  <2> QED BY <1>4, <1>5, <2>1, <2>2, <2>3
<1>8. SoloSavesIntact'
  <2> SUFFICES ASSUME NEW n \in DOMAIN stored' \ overlapped
               PROVE  \E k \in DOMAIN save' : IsUpload(n, k)'
    BY <1>1 DEF SoloSavesIntact
  <2>1. CASE n = name
    <3>1. save[i].size \in Nat
      <4>1. save[i] \in Saves
        BY <1>2
      <4> QED BY <4>1 DEF Saves
    <3>2. save'[i].name = name /\ save'[i].size \in Nat /\ save'[i].step = "opened"
      BY <1>2, <1>4, <3>1 DEF Goes, name
    <3>3. <<>> = [c \in 1..0 |-> i] /\ Len(<<>>) = 0
      OBVIOUS
    <3>4. IsUpload(n, i)'
      BY <1>5, <2>1, <3>2, <3>3 DEF IsUpload
    <3> QED BY <1>4, <3>4
  <2>2. CASE n # name
    <3>1. n \in DOMAIN stored \ overlapped /\ stored'[n] = stored[n]
      BY <1>5, <2>2
    <3>2. \A k \in DOMAIN save : save[k].name = n => save'[k].step = save[k].step
      BY <1>2, <2>2 DEF Goes, name
    <3> QED BY <1>4, <3>1, <3>2, StillIntact DEF SaveInv
  <2> QED BY <2>1, <2>2
<1>9. \A j, k \in Writing' : j # k /\ save'[j].name = save'[k].name => save'[j].name \in overlapped'
  BY <1>1, <1>3, <1>4 DEF SaveInv, OverlapsOnRecord, OpenedEmpty
<1>10. SaveInv'
  BY <1>1, <1>4, <1>5, <1>6, <1>7, <1>8, <1>9 DEF SaveInv, OverlapsOnRecord, OpenedEmpty
<1>11. DirectoryCells' \subseteq DirectoryCells
  BY <1>5 DEF DirectoryCells
<1>12. /\ IsFiniteSet(DirectoryCells') /\ DirectorySize' <= DirectorySize /\ DirectorySize' \in Nat
  BY <1>11, FS_Subset, FS_CardinalityType DEF QuotaInv, DirectorySize
<1>13. OutstandingCells' = OutstandingCells
  BY <1>3, <1>4 DEF OutstandingCells
<1>14. QuotaInv'
  BY <1>1, <1>12, <1>13, Counted, QuarantineAssumption DEF QuotaInv, Outstanding, SaveInv
<1> QED BY <1>10, <1>14

\* What write leaves, or a write that fails after size cells: a content that was empty
\* is the save's own now.
LEMMA FillKeeps ==
    ASSUME SaveInv, QuotaInv, NEW i \in DOMAIN save, NEW size \in 0..save[i].size,
           NEW step \in {"written", "failed"}, step = "written" => size = save[i].size,
           save[i].step = "opened", Move(i, step), stored' = Filled(i, size),
           UNCHANGED <<scanner, peak, overlapped>>
    PROVE  SaveInv' /\ QuotaInv'
<1> DEFINE name == save[i].name
           longest == IF Len(stored[name]) > size THEN Len(stored[name]) ELSE size
           new == [c \in 1..longest |-> IF c <= size THEN i ELSE stored[name][c]]
<1>1. /\ save[i].step = "opened" /\ UNCHANGED <<scanner, peak, overlapped>>
      /\ stored' = [stored EXCEPT ![name] = new]
  BY DEF Filled
<1>2. save \in Seq(Saves) /\ Goes(i, step) /\ step \in Steps
  BY MoveGoes DEF SaveInv, Steps
<1>3. i \in Writing /\ i \in At("opened") /\ Writing \subseteq DOMAIN save /\ At("opened") \subseteq DOMAIN save
  BY <1>1 DEF Writing, At
<1>4. /\ save' \in Seq(Saves) /\ DOMAIN save' = DOMAIN save
      /\ \A k \in DOMAIN save : save'[k].name = save[k].name /\ save'[k].size = save[k].size
      /\ Writing' = Writing \ {i} /\ At("opened")' = At("opened") \ {i}
  <2>1. /\ Writing' = (Writing \ {i}) \cup {k \in {i} : step \in {"admitted", "opened"}}
        /\ At("opened")' = (At("opened") \ {i}) \cup {k \in {i} : step = "opened"}
        /\ \A k \in DOMAIN save : save'[k].name = save[k].name /\ save'[k].size = save[k].size
    BY <1>2, WritingAfter
  <2> QED BY <1>2, <2>1 DEF Goes
<1>5. /\ name \in DOMAIN stored /\ (name \in overlapped \/ stored[name] = <<>>)
      /\ stored[name] \in Seq(Nat)
  <2>1. OpenedEmpty /\ \A n \in DOMAIN stored : stored[n] \in Seq(Nat)
    BY DEF SaveInv
  <2> QED BY <1>3, <2>1 DEF OpenedEmpty
<1>6. size \in Nat /\ i \in Nat /\ save[i].size \in Nat /\ size <= save[i].size
  <2>1. save[i] \in Saves /\ i \in 1..Len(save)
    BY <1>2
  <2> QED BY <2>1 DEF Saves
<1>7. /\ new \in Seq(Nat) /\ DOMAIN new = DOMAIN stored[name] \cup (1..size)
      /\ stored[name] = <<>> => new = [c \in 1..size |-> i]
  <2> DEFINE old == stored[name]
  <2>1. old \in Seq(Nat) /\ size \in Nat
    BY <1>5, <1>6
  <2> HIDE DEF old
  <2>2. longest \in Nat /\ 1..longest = (1..Len(old)) \cup (1..size)
    BY <2>1 DEF old
  <2>3. \A c \in 1..longest : (IF c <= size THEN i ELSE old[c]) \in Nat
    BY <2>1, <2>2, <1>6
  <2>4. new \in Seq(Nat)
    BY <2>2, <2>3 DEF old
  <2>5. DOMAIN old = 1..Len(old)
    BY <2>1
  <2>6. stored[name] = <<>> => new = [c \in 1..size |-> i]
    <3>1. old = <<>> => longest = size
      BY <2>1 DEF old
    <3> QED BY <3>1, <2>1 DEF old
  <2> QED BY <2>2, <2>4, <2>5, <2>6 DEF old
<1> HIDE DEF new, longest
<1>8. /\ DOMAIN stored' = DOMAIN stored /\ stored'[name] = new
      /\ \A n \in DOMAIN stored : n # name => stored'[n] = stored[n]
      /\ stored' = [n \in DOMAIN stored' |-> stored'[n]]
  BY <1>1, <1>5 DEF SaveInv, OverlapsOnRecord, OpenedEmpty
<1>9. \A n \in DOMAIN stored' : stored'[n] \in Seq(Nat)
  <2> HIDE DEF name
  <2> QED BY <1>7, <1>8 DEF SaveInv, OverlapsOnRecord, OpenedEmpty
<1>10. \A j, k \in Writing' : j # k /\ save'[j].name = save'[k].name => save'[j].name \in overlapped'
  BY <1>1, <1>3, <1>4 DEF SaveInv, OverlapsOnRecord, OpenedEmpty
<1>11. ASSUME NEW k \in At("opened")'
       PROVE  /\ save'[k].name \in DOMAIN stored'
              /\ save'[k].name \in overlapped' \/ stored'[save'[k].name] = <<>>
  <2>1. /\ k \in At("opened") /\ k # i /\ k \in Writing /\ save'[k].name = save[k].name
        /\ save[k].name \in DOMAIN stored
        /\ save[k].name \in overlapped \/ stored[save[k].name] = <<>>
    <3>1. OpenedEmpty
      BY DEF SaveInv
    <3>2. k \in At("opened") /\ k # i
      BY <1>4, <1>11
    <3> QED BY <3>1, <3>2, <1>3, <1>4 DEF OpenedEmpty, Writing
  <2>2. CASE save[k].name = name
    <3>1. name \in overlapped
      BY <2>1, <2>2, <1>3 DEF SaveInv, OverlapsOnRecord, OpenedEmpty
    <3> QED BY <3>1, <2>1, <2>2, <1>1, <1>8
  <2>3. CASE save[k].name # name
    <3> HIDE DEF name
    <3> QED BY <2>1, <2>3, <1>1, <1>8
  <2> QED BY <2>2, <2>3
<1>12. SoloSavesIntact'
  <2> SUFFICES ASSUME NEW n \in DOMAIN stored \ overlapped
               PROVE  \E k \in DOMAIN save' : IsUpload(n, k)'
    BY <1>1, <1>8 DEF SoloSavesIntact
  <2>1. CASE n = name
    <3>1. stored'[n] = [c \in 1..size |-> i] /\ Len(stored'[n]) = size
      BY <2>1, <1>5, <1>6, <1>7, <1>8
    <3>2. /\ i \in DOMAIN save' /\ save'[i].name = name /\ save'[i].size = save[i].size
          /\ save'[i].step = step
      BY <1>2, <1>4 DEF Goes
    <3>3. IsUpload(n, i)'
      BY <3>1, <3>2, <2>1, <1>6 DEF IsUpload
    <3> QED BY <3>2, <3>3
  <2>2. CASE n # name
    <3>1. stored'[n] = stored[n]
      BY <2>2, <1>8
    <3>2. \A k \in DOMAIN save : save[k].name = n => save'[k].step = save[k].step
      BY <1>2, <2>2 DEF Goes
    <3> QED BY <3>1, <3>2, <1>4, StillIntact DEF SaveInv
  <2> QED BY <2>1, <2>2
<1>13. SaveInv'
  BY <1>1, <1>4, <1>8, <1>9, <1>10, <1>11, <1>12 DEF SaveInv, OverlapsOnRecord, OpenedEmpty
<1> DEFINE written == {name} \X (1..size)
<1>14. DirectoryCells' \subseteq DirectoryCells \cup written
  <2> SUFFICES ASSUME NEW n \in DOMAIN stored, NEW c \in DOMAIN stored'[n]
               PROVE  <<n, c>> \in DirectoryCells \cup written
    BY <1>8 DEF DirectoryCells
  <2>1. CASE n = name
    BY <2>1, <1>5, <1>7, <1>8 DEF DirectoryCells
  <2>2. CASE n # name
    BY <2>2, <1>8 DEF DirectoryCells
  <2> QED BY <2>1, <2>2
<1>15. /\ IsFiniteSet(written) /\ Cardinality(written) = size
       /\ IsFiniteSet(Block(i)) /\ Cardinality(Block(i)) = save[i].size
  <2>1. IsFiniteSet(1..size) /\ Cardinality(1..size) = size
    BY <1>6, FS_Interval
  <2>2. IsFiniteSet({name}) /\ Cardinality({name}) = 1
    BY FS_Singleton
  <2>3. IsFiniteSet(written) /\ Cardinality(written) = 1 * size
    BY <2>1, <2>2, FS_Product, ZenonT(30)
  <2>4. IsFiniteSet({i} \X (1..save[i].size)) /\ Cardinality({i} \X (1..save[i].size)) = save[i].size
    BY <1>2, BlockSize
  <2> QED BY <2>3, <2>4, <1>6 DEF Block
<1> HIDE DEF written, name
<1>16. /\ IsFiniteSet(DirectoryCells') /\ DirectorySize' \in Nat
       /\ DirectorySize' <= DirectorySize + size
  <2>1. /\ IsFiniteSet(DirectoryCells \cap written) /\ Cardinality(DirectoryCells \cap written) \in Nat
    BY <1>15, FS_Intersection, FS_CardinalityType
  <2>2. /\ IsFiniteSet(DirectoryCells \cup written)
        /\ Cardinality(DirectoryCells \cup written)
               = DirectorySize + size - Cardinality(DirectoryCells \cap written)
    BY <1>15, FS_Union DEF QuotaInv, DirectorySize
  <2>3. /\ IsFiniteSet(DirectoryCells')
        /\ Cardinality(DirectoryCells') <= Cardinality(DirectoryCells \cup written)
        /\ Cardinality(DirectoryCells') \in Nat
    BY <2>2, <1>14, FS_Subset, FS_CardinalityType
  <2> QED BY <2>1, <2>2, <2>3, <1>6, Counted DEF DirectorySize
<1>17. /\ IsFiniteSet(OutstandingCells') /\ Outstanding' = Outstanding - save[i].size
  <2>1. Block(i) \subseteq OutstandingCells
    BY <1>3 DEF OutstandingCells, Block
  <2>2. OutstandingCells' = OutstandingCells \ Block(i)
    <3>1. OutstandingCells' = (OutstandingCells \ Block(i))
                \cup {c \in Block(i) : step \in {"admitted", "opened"}}
      BY <1>2, OutstandingAfter
    <3> QED BY <3>1
  <2>3. OutstandingCells \cap Block(i) = Block(i)
    BY <2>1
  <2>4. /\ IsFiniteSet(OutstandingCells')
        /\ Cardinality(OutstandingCells') = Cardinality(OutstandingCells) - Cardinality(Block(i))
    <3>1. IsFiniteSet(OutstandingCells)
      BY DEF QuotaInv
    <3>2. /\ IsFiniteSet(OutstandingCells \ Block(i))
          /\ Cardinality(OutstandingCells \ Block(i))
                 = Cardinality(OutstandingCells) - Cardinality(OutstandingCells \cap Block(i))
      BY <3>1, FS_Difference
    <3> QED BY <2>2, <2>3, <3>2
  <2> QED BY <2>4, <1>15 DEF Outstanding
<1>18. QuotaInv'
  BY <1>1, <1>6, <1>16, <1>17, Counted, QuarantineAssumption DEF QuotaInv, SaveInv
<1> QED BY <1>13, <1>18

LEMMA SaveStepKeeps ==
    ASSUME SaveInv, QuotaInv, NEW i \in DOMAIN save, SaveStep(i)
    PROVE  SaveInv' /\ QuotaInv'
<1>1. save \in Seq(Saves) /\ save[i].step \in Steps /\ scanner \in BOOLEAN
  <2>1. save \in Seq(Saves) /\ scanner \in BOOLEAN
    BY DEF SaveInv, OverlapsOnRecord, OpenedEmpty
  <2>2. save[i] \in Saves
    BY <2>1
  <2> QED BY <2>1, <2>2 DEF Saves
<1>2. ASSUME NEW step \in {"rejected", "failed"}, Move(i, step), save[i].step \notin Unfinished,
             UNCHANGED <<stored, scanner, peak, overlapped>>
      PROVE  SaveInv' /\ QuotaInv'
  BY <1>1, <1>2, MoveGoes, StaysKeeps DEF Steps, Unfinished
<1>3. ASSUME NEW scan \in Scans, save' = [save EXCEPT ![i].scan = scan],
             UNCHANGED <<stored, peak, overlapped>>, scanner' \in BOOLEAN
      PROVE  SaveInv' /\ QuotaInv'
  BY <1>1, <1>3, ScanGoes, StaysKeeps
<1>4. CASE Reject(i)
  BY <1>2, <1>4 DEF Reject, Unfinished
<1>5. CASE FailSave(i)
  <2>1. CASE save[i].step \in {"admitted", "written"} /\ UNCHANGED stored
    BY <1>2, <1>5, <2>1 DEF FailSave, Unfinished
  <2>2. CASE save[i].step = "opened" /\ \E k \in 0..save[i].size : stored' = Filled(i, k)
    BY <1>5, <2>2, FillKeeps DEF FailSave
  <2> QED BY <1>5, <2>1, <2>2 DEF FailSave
<1>6. CASE FinishSave(i)
  <2> DEFINE scan == IF scanner THEN "queued" ELSE "none"
             new == [save[i] EXCEPT !.step = "done", !.scan = scan]
  <2>1. save[i] \in Saves /\ scan \in Scans
    BY <1>1 DEF Scans
  <2> HIDE DEF scan
  <2>2. new \in Saves /\ new.name = save[i].name /\ new.size = save[i].size /\ new.step = "done"
    BY <2>1 DEF Saves, Steps
  <2>3. save' = [save EXCEPT ![i] = new]
    BY <1>6 DEF FinishSave, scan
  <2> HIDE DEF new
  <2>4. save' \in Seq(Saves) /\ DOMAIN save' = DOMAIN save
    BY <1>1, <2>2, <2>3
  <2>5. save'[i] = new /\ \A k \in DOMAIN save : k # i => save'[k] = save[k]
    BY <1>1, <2>3
  <2>6. Goes(i, "done")
    BY <2>2, <2>4, <2>5 DEF Goes
  <2> QED BY <1>1, <1>6, <2>6, StaysKeeps DEF FinishSave, Steps, Unfinished
<1>7. CASE StartScan(i)
  <2>1. (IF scanner THEN "asked" ELSE "ended") \in Scans
    BY <1>1 DEF Scans
  <2> QED BY <1>1, <1>3, <1>7, <2>1 DEF StartScan
<1>8. CASE LookupAnswered(i) \/ LookupRefused(i) \/ UploadAnswered(i)
  <2>1. \E scan \in Scans : save' = [save EXCEPT ![i].scan = scan]
    BY <1>8 DEF LookupAnswered, LookupRefused, UploadAnswered, ScanEnds, Scans
  <2> QED BY <1>1, <1>3, <1>8, <2>1 DEF LookupAnswered, LookupRefused, UploadAnswered
<1>9. CASE WriteFile(i)
  <2>1. save[i].size \in 0..save[i].size
    <3>1. save[i] \in Saves
      BY <1>1
    <3> QED BY <3>1 DEF Saves
  <2> QED BY <1>9, <2>1, FillKeeps DEF WriteFile
<1> QED BY <1>4, <1>5, <1>6, <1>7, <1>8, <1>9, AdmitKeeps, OpenFileKeeps DEF SaveStep

QuarantineInv == SaveInv /\ QuotaInv

LEMMA QuarantineInvInit == QuarantineInit => QuarantineInv
<1> SUFFICES ASSUME QuarantineInit PROVE QuarantineInv
  OBVIOUS
<1>1. save = <<>> /\ DOMAIN stored = {} /\ peak = 0 /\ scanner \in BOOLEAN /\ stored = [n \in {} |-> <<>>]
  BY DEF QuarantineInit
<1>2. DOMAIN save = {} /\ Writing = {} /\ At("opened") = {}
  BY <1>1 DEF Writing, At
<1>3. SaveInv
  BY <1>1, <1>2 DEF SaveInv, OverlapsOnRecord, OpenedEmpty, SoloSavesIntact
<1>4. DirectoryCells = {} /\ OutstandingCells = {}
  BY <1>1, <1>2 DEF DirectoryCells, OutstandingCells
<1>5. DirectorySize = 0 /\ Outstanding = 0
  BY <1>4, FS_EmptySet DEF DirectorySize, Outstanding
<1>6. QuotaInv
  BY <1>1, <1>4, <1>5, FS_EmptySet, QuarantineAssumption DEF QuotaInv
<1> QED BY <1>3, <1>6 DEF QuarantineInv

LEMMA QuarantineInvStep ==
    QuarantineInv /\ SftpInv /\ SinkInv /\ [TransferNext]_transferVars => QuarantineInv'
<1> SUFFICES ASSUME QuarantineInv, SftpInv, SinkInv, [TransferNext]_transferVars
             PROVE  QuarantineInv'
  OBVIOUS
<1> USE DEF QuarantineInv
<1>1. ASSUME NEW name \in QNames, NEW size \in QSizes, Quarantined(name, size)
      PROVE  QuarantineInv'
  BY <1>1, QuarantinedKeeps, QuarantineAssumption DEF FileNames
<1>2. ASSUME NEW h \in DOMAIN file_handles, Quarantined(file_handles[h].path, file_handles[h].size)
      PROVE  QuarantineInv'
  <2>1. file_handles[h] \in Handles
    BY DEF SftpInv
  <2> QED BY <1>2, <2>1, QuarantinedKeeps DEF FileNames, Handles
<1>3. CASE Quarantined(sink.name, sink.got)
  BY <1>3, QuarantinedKeeps DEF SinkInv
<1>4. ASSUME NEW i \in DOMAIN save, SaveStep(i)
      PROVE  QuarantineInv'
  BY <1>4, SaveStepKeeps
<1>5. CASE UNCHANGED qVars
  BY <1>5 DEF qVars, SaveInv, QuotaInv, OverlapsOnRecord, OpenedEmpty, SoloSavesIntact, IsUpload, At, Writing, DirectoryCells, OutstandingCells,
              DirectorySize, Outstanding
<1> QED BY <1>1, <1>2, <1>3, <1>4, <1>5, SaveCases

\* The invariant of the quarantine holds under uploads over SFTP and SCP.
LEMMA QuarantineInvariant == TransferSpec => []QuarantineInv
<1>1. TransferInit => SftpInv /\ SinkInv /\ QuarantineInv
  BY SftpInvInit, SinkInvInit, QuarantineInvInit DEF TransferInit
<1>2. SftpInv /\ SinkInv /\ QuarantineInv /\ [TransferNext]_transferVars
        => (SftpInv /\ SinkInv /\ QuarantineInv)'
  <2>1. SftpInv /\ [TransferNext]_transferVars => SftpInv'
    BY SftpInvStep DEF TransferNext, transferVars
  <2>2. SinkInv /\ [TransferNext]_transferVars => SinkInv'
    BY SinkInvStep DEF TransferNext, transferVars, scpVars, sinkVars
  <2> QED BY <2>1, <2>2, QuarantineInvStep
<1> QED BY <1>1, <1>2, PTL DEF TransferSpec

\* The directory exceeds its quota by no more than what overlapped.
THEOREM QuotaKept == TransferSpec => []QuotaOvershootBounded
<1>1. QuarantineInv => QuotaOvershootBounded
  BY Counted, QuarantineAssumption DEF QuarantineInv, SaveInv, QuotaInv, QuotaOvershootBounded
<1> QED BY <1>1, QuarantineInvariant, PTL

\* A file that two saves never wrote at once is one upload's, and the whole of it once
\* that upload is saved.
THEOREM SavesStayIntact == TransferSpec => []SoloSavesIntact
<1>1. QuarantineInv => SoloSavesIntact
  BY DEF QuarantineInv, SaveInv
<1> QED BY <1>1, QuarantineInvariant, PTL

-----------------------------------------------------------------------------
(* The SSH proxy                                                           *)

SshProxySpec == SshProxyInit /\ [][SshProxyNext]_proxyVars

-----------------------------------------------------------------------------
(* What is never given back                                                *)

\* A lease or a backend connection that is still there was there in time, or it
\* came when nobody was left to give it back.
LeaseInv ==
    /\ OnlyLateLeasesLeak
    /\ task \in {"start", "reserving", "connecting", "waiting", "ended"}
    /\ task \in {"start", "reserving"} => lease = "none"
    /\ task \in {"start", "reserving", "connecting"} => backend = "none"
    /\ "lease" \in tooLate => task \notin {"start", "reserving"}

LEMMA LeaseInvInit == SshProxyInit => LeaseInv
BY DEF SshProxyInit, LeaseInv, OnlyLateLeasesLeak

LEMMA LeaseInvStep == LeaseInv /\ [SshProxyNext]_proxyVars => LeaseInv'
<1> SUFFICES ASSUME LeaseInv, [SshProxyNext]_proxyVars PROVE LeaseInv'
  OBVIOUS
<1> USE DEF LeaseInv, OnlyLateLeasesLeak
<1>1. CASE GetTarget
  BY <1>1 DEF GetTarget
<1>2. CASE Reserved
  BY <1>2 DEF Reserved, Leases, CloseChannel, Arrives
<1>3. CASE Connected
  BY <1>3 DEF Connected, CloseChannel, Arrives
<1>4. CASE Requested
  BY <1>4 DEF Requested
<1>5. CASE Bridged
  BY <1>5 DEF Bridged, SetUp, CloseChannel
<1>6. ASSUME NEW d \in Directions, DataReceived(d) \/ SendLoopWaits(d) \/ SendLoopSends(d)
      PROVE  LeaseInv'
  BY <1>6 DEF DataReceived, SendLoopWaits, SendLoopSends
<1>7. CASE ConnectionLost
  BY <1>7 DEF ConnectionLost
<1>8. CASE Released
  BY <1>8 DEF Released
<1>9. CASE BackendLost
  BY <1>9 DEF BackendLost, CloseChannel
<1>10. CASE UNCHANGED proxyVars
  BY <1>10 DEF proxyVars
<1> QED BY <1>1, <1>2, <1>3, <1>4, <1>5, <1>6, <1>7, <1>8, <1>9, <1>10 DEF SshProxyNext

\* However the awaits of _connect_backend and connection_lost interleave, a session
\* that has lost its client only keeps what arrived afterwards.
THEOREM OnlyLateArrivalsLeak == SshProxySpec => []OnlyLateLeasesLeak
<1>1. LeaseInv => OnlyLateLeasesLeak
  BY DEF LeaseInv
<1> QED BY <1>1, LeaseInvInit, LeaseInvStep, PTL DEF SshProxySpec

-----------------------------------------------------------------------------
(* What is delivered                                                       *)

Senders == {"none", "idle", "sleeping", "failed", "cancelled", "gone"}

\* No write has failed.
Sound(sender) == sender \notin {"failed", "gone"}

Pipes == [received : Nat, buffer : Seq(Nat), delivered : Seq(Nat), sender : Senders]

\* Chunk i is delivered as the i-th, and the buffer continues where that ends.
InPlace(delivered) == \A i \in 1..Len(delivered) : delivered[i] = i

Continues(received, buffer, delivered) ==
    /\ received = Len(delivered) + Len(buffer)
    /\ \A i \in 1..Len(buffer) : buffer[i] = Len(delivered) + i

Faithful(p) ==
    /\ InPlace(p.delivered)
    /\ Sound(p.sender) => Continues(p.received, p.buffer, p.delivered)

\* The send loops start once, when the task of _connect_backend has ended.
PipeInv ==
    /\ pipe \in [Directions -> Pipes]
    /\ \A d \in Directions : /\ Faithful(pipe[d])
                             /\ task # "ended" => pipe[d].sender = "none"

\* A chunk that is received continues the buffer.
LEMMA Receiving ==
    ASSUME NEW received \in Nat, NEW buffer \in Seq(Nat), NEW delivered \in Seq(Nat),
           Continues(received, buffer, delivered)
    PROVE  Continues(received + 1, Append(buffer, received + 1), delivered)
<1> DEFINE longer == Append(buffer, received + 1)
<1>1. /\ Len(buffer) \in Nat /\ Len(delivered) \in Nat
      /\ longer \in Seq(Nat) /\ Len(longer) = Len(buffer) + 1
      /\ \A i \in 1..Len(buffer) : longer[i] = buffer[i]
      /\ longer[Len(buffer) + 1] = received + 1
  OBVIOUS
<1>2. \A i \in 1..(Len(buffer) + 1) : i \in 1..Len(buffer) \/ i = Len(buffer) + 1
  BY <1>1
<1> HIDE DEF longer
<1>3. received = Len(delivered) + Len(buffer) /\ \A i \in 1..Len(buffer) : buffer[i] = Len(delivered) + i
  BY DEF Continues
<1>4. received + 1 = Len(delivered) + Len(longer)
  BY <1>1, <1>3
<1>5. ASSUME NEW i \in 1..Len(longer)
      PROVE  longer[i] = Len(delivered) + i
  <2>1. i \in 1..Len(buffer) \/ i = Len(buffer) + 1
    BY <1>1, <1>2
  <2>2. CASE i \in 1..Len(buffer)
    BY <2>2, <1>1, <1>3
  <2>3. CASE i = Len(buffer) + 1
    <3>1. longer[i] = received + 1
      BY <2>3, <1>1
    <3> QED BY <3>1, <2>3, <1>1, <1>3
  <2> QED BY <2>1, <2>2, <2>3
<1>6. Continues(received + 1, longer, delivered)
  BY <1>4, <1>5 DEF Continues
<1> QED BY <1>6 DEF longer

\* What the send loop takes out of the buffer belongs behind what was delivered.
LEMMA Sending ==
    ASSUME NEW received \in Nat, NEW buffer \in Seq(Nat), NEW delivered \in Seq(Nat),
           InPlace(delivered), Continues(received, buffer, delivered)
    PROVE  /\ delivered \o buffer \in Seq(Nat)
           /\ Len(delivered \o buffer) = received
           /\ InPlace(delivered \o buffer)
           /\ Continues(received, <<>>, delivered \o buffer)
<1> DEFINE line == delivered \o buffer
<1>1. /\ Len(buffer) \in Nat /\ Len(delivered) \in Nat
      /\ line \in Seq(Nat) /\ Len(line) = Len(delivered) + Len(buffer)
      /\ Len(<<>>) = 0
  OBVIOUS
<1>2. \A i \in 1..(Len(delivered) + Len(buffer)) : line[i] = i
  <2> SUFFICES ASSUME NEW i \in 1..(Len(delivered) + Len(buffer))
               PROVE  line[i] = i
    OBVIOUS
  <2>1. CASE i <= Len(delivered)
    <3>1. line[i] = delivered[i] /\ i \in 1..Len(delivered)
      BY <2>1, <1>1
    <3> QED BY <3>1 DEF InPlace
  <2>2. CASE i > Len(delivered)
    <3>1. line[i] = buffer[i - Len(delivered)] /\ i - Len(delivered) \in 1..Len(buffer)
      BY <2>2, <1>1
    <3>2. buffer[i - Len(delivered)] = Len(delivered) + (i - Len(delivered))
      BY <3>1 DEF Continues
    <3> QED BY <3>1, <3>2, <1>1
  <2> QED BY <2>1, <2>2, <1>1
<1>3. Len(line) = received
  BY <1>1 DEF Continues
<1> HIDE DEF line
<1>4. InPlace(line) /\ Continues(received, <<>>, line)
  BY <1>1, <1>2, <1>3 DEF InPlace, Continues
<1> QED BY <1>1, <1>3, <1>4 DEF line

\* DataReceived keeps a direction faithful.
LEMMA ReceivingIsFaithful ==
    ASSUME NEW p \in Pipes, Faithful(p), NEW q,
           q = [p EXCEPT !.received = @ + 1, !.buffer = Append(@, p.received + 1)]
    PROVE  q \in Pipes /\ Faithful(q) /\ q.sender = p.sender
<1>1. p.received \in Nat /\ p.buffer \in Seq(Nat) /\ p.delivered \in Seq(Nat)
  BY DEF Pipes
<1>2. /\ q.received = p.received + 1 /\ q.buffer = Append(p.buffer, p.received + 1)
      /\ q.delivered = p.delivered /\ q.sender = p.sender
  BY DEF Pipes
<1>3. q \in Pipes
  <2>1. p.received + 1 \in Nat /\ Append(p.buffer, p.received + 1) \in Seq(Nat)
    BY <1>1
  <2> QED BY <2>1 DEF Pipes
<1>4. Sound(p.sender) => Continues(p.received + 1, Append(p.buffer, p.received + 1), p.delivered)
  BY <1>1, Receiving DEF Faithful
<1> QED BY <1>2, <1>3, <1>4 DEF Faithful

\* So does a write of the send loop.
LEMMA SendingIsFaithful ==
    ASSUME NEW p \in Pipes, Faithful(p), Sound(p.sender), NEW q,
           q = [p EXCEPT !.delivered = @ \o p.buffer, !.buffer = <<>>, !.sender = "idle"]
    PROVE  q \in Pipes /\ Faithful(q)
<1>1. p.received \in Nat /\ p.buffer \in Seq(Nat) /\ p.delivered \in Seq(Nat)
  BY DEF Pipes
<1>2. /\ q.received = p.received /\ q.buffer = <<>>
      /\ q.delivered = p.delivered \o p.buffer /\ q.sender = "idle"
  BY DEF Pipes
<1>3. /\ p.delivered \o p.buffer \in Seq(Nat) /\ InPlace(p.delivered \o p.buffer)
      /\ Continues(p.received, <<>>, p.delivered \o p.buffer)
  BY <1>1, Sending DEF Faithful
<1>4. q \in Pipes
  <2>1. <<>> \in Seq(Nat)
    OBVIOUS
  <2> QED BY <1>3, <2>1 DEF Pipes, Senders
<1> QED BY <1>2, <1>3, <1>4 DEF Faithful

\* A loop whose write failed promises only what it had delivered.
LEMMA EndingIsFaithful ==
    ASSUME NEW p \in Pipes, Faithful(p), NEW q, NEW s \in {"failed", "gone"},
           \/ q = [p EXCEPT !.buffer = <<>>, !.sender = s]
           \/ q = [p EXCEPT !.sender = s]
    PROVE  q \in Pipes /\ Faithful(q)
<1>1. <<>> \in Seq(Nat)
  OBVIOUS
<1>2. q \in Pipes /\ q.delivered = p.delivered /\ q.sender = s
  BY <1>1 DEF Pipes, Senders
<1> QED BY <1>2 DEF Faithful, Sound

\* Starting a loop, sending it to sleep or cancelling it moves no data.
LEMMA SoundStaysFaithful ==
    ASSUME NEW p \in Pipes, Faithful(p), Sound(p.sender),
           NEW s \in {"idle", "sleeping", "cancelled"}, NEW q,
           q = [p EXCEPT !.sender = s]
    PROVE  q \in Pipes /\ Faithful(q)
<1>1. /\ q \in Pipes /\ q.delivered = p.delivered /\ q.buffer = p.buffer
      /\ q.received = p.received
  BY DEF Pipes, Senders
<1> QED BY <1>1 DEF Faithful

\* One direction changes, and may only after the task has ended if its sender does.
LEMMA OneDirection ==
    ASSUME PipeInv, NEW d \in Directions, NEW q \in Pipes, Faithful(q),
           task' = task, pipe' = [pipe EXCEPT ![d] = q],
           task # "ended" => q.sender = "none"
    PROVE  PipeInv'
<1>1. pipe' \in [Directions -> Pipes] /\ pipe'[d] = q
  BY DEF PipeInv
<1>2. \A e \in Directions : e # d => pipe'[e] = pipe[e]
  BY DEF PipeInv
<1> QED BY <1>1, <1>2 DEF PipeInv

LEMMA PipeInvInit == SshProxyInit => PipeInv
<1> SUFFICES ASSUME SshProxyInit PROVE PipeInv
  OBVIOUS
<1> DEFINE p0 == [received |-> 0, buffer |-> <<>>, delivered |-> <<>>, sender |-> "none"]
<1>1. <<>> \in Seq(Nat) /\ Len(<<>>) = 0
  OBVIOUS
<1>2. p0 \in Pipes
  BY <1>1 DEF Pipes, Senders
<1>3. Faithful(p0) /\ p0.sender = "none"
  BY <1>1 DEF Faithful, InPlace, Continues
<1>4. pipe = [d \in Directions |-> p0]
  BY DEF SshProxyInit
<1> HIDE DEF p0
<1> QED BY <1>2, <1>3, <1>4 DEF PipeInv

LEMMA PipeInvStep == PipeInv /\ [SshProxyNext]_proxyVars => PipeInv'
<1> SUFFICES ASSUME PipeInv, [SshProxyNext]_proxyVars PROVE PipeInv'
  OBVIOUS
<1>0. \A d \in Directions : /\ pipe[d] \in Pipes /\ Faithful(pipe[d])
                            /\ task # "ended" => pipe[d].sender = "none"
  BY DEF PipeInv
<1>1. CASE UNCHANGED pipe /\ (task' = "ended" => task = "ended" \/ task # "ended")
           /\ (task = "ended" => task' = "ended")
  BY <1>1 DEF PipeInv
<1>2. CASE GetTarget \/ Reserved \/ Connected \/ Requested \/ Released \/ UNCHANGED proxyVars
  BY <1>1, <1>2 DEF GetTarget, Reserved, Connected, Requested, Released, proxyVars
<1>3. CASE Bridged
  <2>1. CASE UNCHANGED pipe
    BY <2>1, <1>1, <1>3 DEF Bridged
  <2>2. CASE SetUp
    <3>1. \A d \in Directions : Sound(pipe[d].sender) /\ pipe'[d] = [pipe[d] EXCEPT !.sender = "idle"]
      BY <1>0, <1>3, <2>2 DEF Bridged, SetUp, Sound
    <3>2. \A d \in Directions : pipe'[d] \in Pipes /\ Faithful(pipe'[d])
      BY <3>1, <1>0, SoundStaysFaithful
    <3>3. pipe' \in [Directions -> Pipes]
      BY <3>2, <2>2 DEF SetUp
    <3> QED BY <3>2, <3>3, <1>3 DEF PipeInv, Bridged
  <2> QED BY <2>1, <2>2, <1>3 DEF Bridged
<1>4. ASSUME NEW d \in Directions, DataReceived(d) PROVE PipeInv'
  <2> DEFINE q == [pipe[d] EXCEPT !.received = @ + 1, !.buffer = Append(@, pipe[d].received + 1)]
  <2>1. q \in Pipes /\ Faithful(q) /\ q.sender = pipe[d].sender
    BY <1>0, ReceivingIsFaithful
  <2>2. task' = task /\ pipe' = [pipe EXCEPT ![d] = q]
    BY <1>4 DEF DataReceived, PipeInv
  <2> QED BY <2>1, <2>2, <1>0, OneDirection
<1>5. ASSUME NEW d \in Directions, SendLoopWaits(d) PROVE PipeInv'
  <2> DEFINE q == [pipe[d] EXCEPT !.sender = "sleeping"]
  <2>1. q \in Pipes /\ Faithful(q) /\ task = "ended"
    BY <1>0, <1>5, SoundStaysFaithful DEF SendLoopWaits, Sound
  <2>2. task' = task /\ pipe' = [pipe EXCEPT ![d] = q]
    BY <1>5 DEF SendLoopWaits
  <2> QED BY <2>1, <2>2, OneDirection
<1>6. ASSUME NEW d \in Directions, SendLoopSends(d) PROVE PipeInv'
  <2> DEFINE sending == [pipe[d] EXCEPT !.delivered = @ \o pipe[d].buffer, !.buffer = <<>>, !.sender = "idle"]
             failed == [pipe[d] EXCEPT !.buffer = <<>>, !.sender = "failed"]
  <2>1. Sound(pipe[d].sender) /\ task = "ended"
    BY <1>0, <1>6 DEF SendLoopSends, Sound
  <2>2. sending \in Pipes /\ Faithful(sending) /\ failed \in Pipes /\ Faithful(failed)
    BY <1>0, <2>1, SendingIsFaithful, EndingIsFaithful
  <2>3. task' = task /\ (pipe' = [pipe EXCEPT ![d] = sending] \/ pipe' = [pipe EXCEPT ![d] = failed])
    BY <1>6 DEF SendLoopSends
  <2> QED BY <2>1, <2>2, <2>3, OneDirection
<1>7. CASE ConnectionLost
  <2> DEFINE q == [pipe["out"] EXCEPT !.sender = Cancelled(pipe["out"].sender)]
  <2>1. task' = task /\ pipe' = [pipe EXCEPT !["out"] = q] /\ "out" \in Directions
    BY <1>7 DEF ConnectionLost, Directions
  <2>2. CASE Cancelled(pipe["out"].sender) = pipe["out"].sender
    <3>1. q = pipe["out"]
      BY <2>1, <2>2, <1>0 DEF Pipes
    <3> QED BY <3>1, <2>1, <1>0, OneDirection
  <2>3. CASE pipe["out"].sender \in {"idle", "sleeping"} /\ task = "ended"
    <3>1. q \in Pipes /\ Faithful(q)
      BY <2>1, <2>3, <1>0, SoundStaysFaithful DEF Cancelled, Sound
    <3> QED BY <3>1, <2>1, <2>3, OneDirection
  <2> QED BY <2>1, <2>2, <2>3, <1>0 DEF Cancelled
<1>8. CASE BackendLost
  <2> DEFINE s == IF pipe["in"].sender = "failed" THEN "gone" ELSE "cancelled"
             q == [pipe["in"] EXCEPT !.sender = s]
  <2>1. task' = task /\ pipe' = [pipe EXCEPT !["in"] = q] /\ "in" \in Directions
    BY <1>8 DEF BackendLost, Directions
  <2>2. CASE pipe["in"].sender = "failed"
    BY <2>1, <2>2, <1>0, EndingIsFaithful, OneDirection
  <2>3. CASE pipe["in"].sender \in {"idle", "sleeping"}
    <3>1. s = "cancelled" /\ Sound(pipe["in"].sender)
      BY <2>3 DEF Sound
    <3>2. q \in Pipes /\ Faithful(q)
      BY <3>1, <2>1, <1>0, SoundStaysFaithful
    <3> QED BY <3>2, <2>1, <2>3, <1>0, OneDirection
  <2> QED BY <2>2, <2>3, <1>8 DEF BackendLost
<1> QED BY <1>2, <1>3, <1>4, <1>5, <1>6, <1>7, <1>8 DEF SshProxyNext

LEMMA FaithfulDelivers == PipeInv => ProxyDataInOrder
<1> SUFFICES ASSUME PipeInv, NEW d \in Directions
             PROVE  /\ pipe[d].delivered = [i \in DOMAIN pipe[d].delivered |-> i]
                    /\ pipe[d].sender \notin {"failed", "gone"} =>
                        pipe[d].delivered \o pipe[d].buffer = [i \in 1..pipe[d].received |-> i]
  BY DEF ProxyDataInOrder
<1> DEFINE p == pipe[d]
<1>1. /\ p \in Pipes /\ Faithful(p)
      /\ p.received \in Nat /\ p.buffer \in Seq(Nat) /\ p.delivered \in Seq(Nat)
      /\ Len(p.buffer) \in Nat /\ Len(p.delivered) \in Nat
  BY DEF PipeInv, Pipes
<1> HIDE DEF p
<1>2. p.delivered = [i \in DOMAIN p.delivered |-> i]
  <2>1. DOMAIN p.delivered = 1..Len(p.delivered)
    BY <1>1
  <2>2. p.delivered = [i \in DOMAIN p.delivered |-> p.delivered[i]]
    BY <1>1
  <2> QED BY <1>1, <2>1, <2>2 DEF Faithful, InPlace
<1>3. ASSUME Sound(p.sender)
      PROVE  p.delivered \o p.buffer = [i \in 1..p.received |-> i]
  <2> DEFINE line == p.delivered \o p.buffer
  <2>1. line \in Seq(Nat) /\ Len(line) = p.received /\ InPlace(line)
    BY <1>1, <1>3, Sending DEF Faithful
  <2> HIDE DEF line
  <2>2. DOMAIN line = 1..p.received /\ line = [i \in DOMAIN line |-> line[i]]
    BY <2>1
  <2> QED BY <2>1, <2>2 DEF line, InPlace
<1> QED BY <1>2, <1>3 DEF p, Sound

\* Data that comes before the backend does, or during the half second of a send loop,
\* is delivered once and in its place, or stays in the buffer of a cancelled loop.
THEOREM DeliveredInOrder == SshProxySpec => []ProxyDataInOrder
BY FaithfulDelivers, PipeInvInit, PipeInvStep, PTL DEF SshProxySpec
=============================================================================
