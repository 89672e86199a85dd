------------------------------ MODULE Quarantine ------------------------------
(***************************************************************************)
(* QuarantineService.save_file of services/quarantine.py with the scan it  *)
(* starts (core/vt_scanner.py).  Every upload is saved by a task of its    *)
(* own.  It measures the directory, and then opens and writes its file in  *)
(* threads of aiofiles: between the test and the write other saves do the  *)
(* same.  A file is named after the upload's name and its session only.    *)
(*                                                                         *)
(* Contents are sequences of cells, one cell standing for some megabytes;  *)
(* a cell says which save wrote it.                                        *)
(***************************************************************************)
EXTENDS Integers, Sequences, FiniteSets

CONSTANTS
    QNames,         \* safe_name: the file's name with its session
    QSizes,         \* sizes of uploads
    QLimit,         \* quarantine_max_size_mb
    MaxSaves        \* bound: saves

ASSUME QuarantineAssumption ==
    QSizes \subseteq Nat /\ QLimit \in Nat /\ MaxSaves \in Nat

VARIABLES
    save,           \* the tasks of save_file in the order of their creation
    stored,         \* the files of the quarantine directory
    scanner,        \* VTScanner.enabled
    peak,           \* history: most cells admitted and unwritten when a save was admitted
    overlapped      \* history: names written by two saves at the same time

qVars == <<save, stored, scanner, peak, overlapped>>

\* f with v as its value at x.
Override(f, x, v) == [y \in DOMAIN f \cup {x} |-> IF y = x THEN v ELSE f[y]]

QuarantineInit ==
    /\ save = <<>>
    /\ stored = [n \in {} |-> <<>>]
    /\ scanner \in BOOLEAN
    /\ peak = 0
    /\ overlapped = {}

\* The cells in the directory, and those that are admitted and not yet written.
DirectoryCells == UNION {{n} \X DOMAIN stored[n] : n \in DOMAIN stored}
DirectorySize == Cardinality(DirectoryCells)

At(step) == {i \in DOMAIN save : save[i].step = step}
Writing == At("admitted") \cup At("opened")
OutstandingCells == UNION {{i} \X (1..save[i].size) : i \in Writing}
Outstanding == Cardinality(OutstandingCells)

Move(i, step) == save' = [save EXCEPT ![i].step = step]

\* save_quarantine_file: a task for the upload
Quarantined(name, size) ==
    /\ Len(save) < MaxSaves
    /\ save' = Append(save, [name |-> name, size |-> size, step |-> "new", scan |-> "none"])
    /\ UNCHANGED <<stored, scanner, peak, overlapped>>

\* The quota is tested against what is in the directory.
Fits(i) == DirectorySize + save[i].size <= QLimit

\* Mutant of Admit: the size of the new file is not counted.
AdmitFull(i) ==
    /\ save[i].step = "new"
    /\ DirectorySize <= QLimit
    /\ Move(i, "admitted")
    /\ peak' = IF Outstanding > peak THEN Outstanding ELSE peak
    /\ overlapped' = overlapped \cup {n \in {save[i].name} : \E k \in Writing : save[k].name = n}
    /\ UNCHANGED <<stored, scanner>>

Admit(i) ==
    /\ save[i].step = "new" /\ Fits(i)
    /\ Move(i, "admitted")
    /\ peak' = IF Outstanding > peak THEN Outstanding ELSE peak
    /\ overlapped' = overlapped \cup {n \in {save[i].name} : \E k \in Writing : save[k].name = n}
    /\ UNCHANGED <<stored, scanner>>

Reject(i) ==
    /\ save[i].step = "new" /\ ~Fits(i)
    /\ Move(i, "rejected")
    /\ UNCHANGED <<stored, scanner, peak, overlapped>>

\* Mutant of OpenFile: the file is opened without being emptied.
OpenFileUnemptied(i) ==
    /\ save[i].step = "admitted"
    /\ Move(i, "opened")
    /\ stored' = IF save[i].name \in DOMAIN stored THEN stored
                 ELSE Override(stored, save[i].name, <<>>)
    /\ UNCHANGED <<scanner, peak, overlapped>>

\* aiofiles.open(..., "wb") creates the file or empties it,
OpenFile(i) ==
    /\ save[i].step = "admitted"
    /\ Move(i, "opened")
    /\ stored' = Override(stored, save[i].name, <<>>)
    /\ UNCHANGED <<scanner, peak, overlapped>>

\* and write fills it from its beginning, whatever another save left there: this is
\* the directory once the first k cells are written.
Filled(i, k) ==
    [stored EXCEPT ![save[i].name] =
        [c \in 1..(IF Len(@) > k THEN Len(@) ELSE k) |-> IF c <= k THEN i ELSE @[c]]]

WriteFile(i) ==
    /\ save[i].step = "opened"
    /\ Move(i, "written")
    /\ stored' = Filled(i, save[i].size)
    /\ UNCHANGED <<scanner, peak, overlapped>>

\* Opening, writing or the copy for the session fails: no path is returned, no
\* scan is made, and what is in the directory stays there, of a write that fails
\* as much as was written.
FailSave(i) ==
    /\ Move(i, "failed")
    /\ \/ save[i].step \in {"admitted", "written"} /\ UNCHANGED stored
       \/ save[i].step = "opened" /\ \E k \in 0..save[i].size : stored' = Filled(i, k)
    /\ UNCHANGED <<scanner, peak, overlapped>>

\* The copy for the session is written; the scan is a task of its own.
FinishSave(i) ==
    /\ save[i].step = "written"
    /\ save' = [save EXCEPT ![i].step = "done", ![i].scan = IF scanner THEN "queued" ELSE "none"]
    /\ UNCHANGED <<stored, scanner, peak, overlapped>>

\* VTScanner.scan: the hash is looked up, unless a 401 came in between.
StartScan(i) ==
    /\ save[i].scan = "queued"
    /\ save' = [save EXCEPT ![i].scan = IF scanner THEN "asked" ELSE "ended"]
    /\ UNCHANGED <<stored, scanner, peak, overlapped>>

\* _scan_and_log: a result is logged and its hash goes to the IOC reporter; an
\* exception is logged, too.
ScanEnds(i) == \E result \in {"reported", "ended"} : save' = [save EXCEPT ![i].scan = result]

\* 200: a report, or an exception; 404: the file is sent.
LookupAnswered(i) ==
    /\ save[i].scan = "asked"
    /\ ScanEnds(i) \/ save' = [save EXCEPT ![i].scan = "uploading"]
    /\ UNCHANGED <<stored, scanner, peak, overlapped>>

\* Any other status is no result, and 401 ends scanning for good.
LookupRefused(i) ==
    /\ save[i].scan = "asked"
    /\ save' = [save EXCEPT ![i].scan = "ended"]
    /\ scanner' \in {scanner, FALSE}
    /\ UNCHANGED <<stored, peak, overlapped>>

\* Accepted or refused, the result has the hash; an exception is no result.
UploadAnswered(i) ==
    /\ save[i].scan = "uploading"
    /\ ScanEnds(i)
    /\ UNCHANGED <<stored, scanner, peak, overlapped>>

SaveStep(i) ==
    \/ Admit(i) \/ Reject(i) \/ OpenFile(i) \/ WriteFile(i) \/ FailSave(i) \/ FinishSave(i)
    \/ StartScan(i) \/ LookupAnswered(i) \/ LookupRefused(i) \/ UploadAnswered(i)

QuarantineNext ==
    \/ \E name \in QNames, size \in QSizes : Quarantined(name, size)
    \/ \E i \in 1..MaxSaves : i \in DOMAIN save /\ SaveStep(i)

-----------------------------------------------------------------------------
\* The directory exceeds its quota by no more than what other saves had been
\* admitted for and not yet written when a save was admitted: saves that do not
\* overlap keep the quota.  save_file tests it before its awaits.
QuotaOvershootBounded == DirectorySize <= QLimit + peak

\* File n is from upload i alone, and the whole of it unless that save has still to
\* write or failed to.
IsUpload(n, i) ==
    /\ save[i].name = n
    /\ stored[n] = [c \in 1..Len(stored[n]) |-> i]
    /\ Len(stored[n]) <= save[i].size
    /\ Len(stored[n]) < save[i].size => save[i].step \in {"opened", "failed"}

\* A file whose name was never written by two saves at the same time holds one
\* upload: never a mixture of two, and no part of an upload whose save succeeded.
SoloSavesIntact ==
    \A n \in DOMAIN stored \ overlapped : \E i \in DOMAIN save : IsUpload(n, i)

\* Every save comes to an end, and so does its scan: also one that was queued
\* when another learned that the key is not valid.
SavesSettle ==
    \A i \in 1..MaxSaves :
        (i \in DOMAIN save) ~>
            (/\ i \in DOMAIN save
             /\ save[i].step \in {"done", "rejected", "failed"}
             /\ save[i].scan \in {"none", "reported", "ended"})
=============================================================================
