----------------------------- MODULE LogWriter ------------------------------
(***************************************************************************)
(* The log file (filesys_log.cpp): the user interface thread puts what is  *)
(* shown into cv_LogBuf, LogToFile hands it in chunks to a thread that     *)
(* writes it (or writes it itself), and rotates the files.  One log, from  *)
(* LogStart to FLogClose; a byte is its number.  Renaming the files        *)
(* succeeds, and no file transfer runs.                                    *)
(***************************************************************************)
EXTENDS Integers, SequencesExt

CONSTANTS
    LogBuffSize,    \* capacity of cv_LogBuf (InBuffSize)
    LogFreeSpace,   \* FILESYS_LOG_FREE_SPACE
    LogPutMax,      \* bytes of one character or one time stamp
    RotateSize,     \* a longer file is rotated
    RotateStep,     \* generations that are kept
    MaxLogged       \* bytes logged, in all

ASSUME LogConstants ==
    /\ {LogBuffSize, LogPutMax, RotateStep} \subseteq Nat \ {0}
    /\ LogFreeSpace \in LogPutMax .. LogBuffSize
    /\ {RotateSize, MaxLogged} \subseteq Nat

VARIABLES
    cv_LogBuf,
    DeferredLogWriteMode,   \* the setting
    RotateMode, IsPause,
    ByteCount,
    threadAlive,            \* the thread that writes exists
    threadQueue,            \* chunks posted to it
    closing,    \* CloseFileSync waits for the thread: for LogRotate or the end
    files,      \* the log file, then generation 1, 2, ..
    logged,     \* bytes put, in all
    steady      \* the setting has been the same since LogStart

logVars == << cv_LogBuf, DeferredLogWriteMode, RotateMode, IsPause, ByteCount, threadAlive,
              threadQueue, closing, files, logged, steady >>

LogStart ==
    /\ cv_LogBuf = << >> /\ ByteCount = 0 /\ files = << << >> >>
    /\ DeferredLogWriteMode \in BOOLEAN /\ threadAlive = DeferredLogWriteMode
    /\ RotateMode \in BOOLEAN /\ IsPause = FALSE
    /\ threadQueue = << >> /\ closing = "no" /\ logged = 0 /\ steady = TRUE
-----------------------------------------------------------------------------
(* Put1 of n bytes: a full buffer drops its oldest byte.                   *)
Put1(n) ==
    LET all == cv_LogBuf \o [i \in 1 .. n |-> logged + i]
        over == Len(all) - LogBuffSize
    IN  IF over > 0 THEN SubSeq(all, over + 1, Len(all)) ELSE all

Lesser(a, b) == IF a < b THEN a ELSE b

Write(chunk) == files' = [files EXCEPT ![1] = @ \o chunk]

(* CloseFileSync posts the request to end behind the chunks, if there is   *)
(* a thread.                                                               *)
CloseFileSync(why) == closing' = why

(* The content of the buffer becomes a chunk.  Without a thread to take it *)
(* a deferred chunk is lost.                                               *)
LogToFile(buf) ==
    /\ cv_LogBuf' = << >>
    /\ ByteCount' = ByteCount + Len(buf)
    /\ IF DeferredLogWriteMode
       THEN /\ threadQueue' = IF threadAlive /\ buf # << >> THEN Append(threadQueue, buf)
                                                            ELSE threadQueue
            /\ UNCHANGED files
       ELSE Write(buf) /\ UNCHANGED threadQueue

(* Behind a chunk, unless the log is paused: too long a file is closed.    *)
LogRotate ==
    IF RotateMode /\ ByteCount' > RotateSize THEN CloseFileSync("rotate")
                                             ELSE UNCHANGED closing

LogVars == << DeferredLogWriteMode, RotateMode, IsPause, threadAlive, steady >>

(* A character of the session; CommRead1Byte_ gives none if the buffer has *)
(* too little room.                                                        *)
FLogPut ==
    /\ closing = "no" /\ ~IsPause
    /\ LogBuffSize - Len(cv_LogBuf) >= LogFreeSpace
    /\ \E n \in 1 .. LogPutMax :
          /\ logged + n <= MaxLogged
          /\ logged' = logged + n
          /\ cv_LogBuf' = Put1(n)
    /\ UNCHANGED << LogVars, ByteCount, threadQueue, closing, files >>

(* A time stamp, in front of a character, or the macro command logwrite,   *)
(* between two turns of OnIdle: it is written at once, in a pause too.     *)
FLogWriteStr ==
    /\ closing = "no"
    /\ LogBuffSize - Len(cv_LogBuf) >= LogFreeSpace
    /\ \E n \in 1 .. LogPutMax :
          /\ logged + n <= MaxLogged
          /\ logged' = logged + n
          /\ LogToFile(Put1(n))
          /\ LogRotate
    /\ UNCHANGED LogVars

(* From OnIdle.                                                            *)
FLogWriteFile ==
    /\ closing = "no" /\ cv_LogBuf # << >>
    /\ LogToFile(cv_LogBuf)
    /\ IF IsPause THEN UNCHANGED closing ELSE LogRotate
    /\ UNCHANGED << LogVars, logged >>

FLogPause ==
    /\ closing = "no"
    /\ IsPause' = ~IsPause
    /\ UNCHANGED << cv_LogBuf, DeferredLogWriteMode, RotateMode, ByteCount, threadAlive,
                    threadQueue, closing, files, logged, steady >>

(* LogToFile may start a rotation first; the file is closed after it.      *)
FLogClose ==
    /\ closing = "no"
    /\ LogToFile(cv_LogBuf)
    /\ IF cv_LogBuf # << >> /\ ~IsPause /\ RotateMode /\ ByteCount' > RotateSize
       THEN CloseFileSync("rotate, end") ELSE CloseFileSync("end")
    /\ UNCHANGED << LogVars, logged >>

(* The settings are read again from their file.                            *)
DeferredSwitches ==
    /\ closing = "no" /\ steady
    /\ DeferredLogWriteMode' = ~DeferredLogWriteMode /\ steady' = FALSE
    /\ UNCHANGED << cv_LogBuf, RotateMode, IsPause, ByteCount, threadAlive, threadQueue,
                    closing, files, logged >>
-----------------------------------------------------------------------------
(* DeferredLogWriteThread writes a chunk, or ends behind the last one.     *)
DeferredWrite ==
    /\ threadAlive /\ threadQueue # << >>
    /\ Write(Head(threadQueue))
    /\ threadQueue' = Tail(threadQueue)
    /\ UNCHANGED << LogVars, cv_LogBuf, ByteCount, closing, logged >>

(* A slip of DeferredEnd: the thread ends before its last chunks.          *)
DeferredEndAtOnce ==
    /\ threadAlive /\ closing # "no"
    /\ threadAlive' = FALSE
    /\ UNCHANGED << DeferredLogWriteMode, RotateMode, IsPause, steady, cv_LogBuf, ByteCount,
                    threadQueue, closing, files, logged >>

DeferredEnd ==
    /\ threadAlive /\ threadQueue = << >> /\ closing # "no"
    /\ threadAlive' = FALSE
    /\ UNCHANGED << DeferredLogWriteMode, RotateMode, IsPause, steady, cv_LogBuf, ByteCount,
                    threadQueue, closing, files, logged >>

(* The wait for the thread is over: each generation gets the next number,  *)
(* the oldest one goes, and a new file and thread begin.                   *)
Rotated ==
    /\ closing \in {"rotate", "rotate, end"} /\ ~threadAlive
    /\ files' = << << >> >> \o SubSeq(files, 1, Lesser(Len(files), RotateStep))
    /\ ByteCount' = 0
    /\ threadAlive' = DeferredLogWriteMode
    /\ closing' = IF closing = "rotate" THEN "no" ELSE "end"
    /\ UNCHANGED << DeferredLogWriteMode, RotateMode, IsPause, steady, cv_LogBuf, threadQueue,
                    logged >>

LogNext ==
    \/ FLogPut \/ FLogWriteStr \/ FLogWriteFile \/ FLogPause \/ FLogClose
    \/ DeferredSwitches \/ DeferredWrite \/ DeferredEnd \/ Rotated

LogSpec == LogStart /\ [][LogNext]_logVars
-----------------------------------------------------------------------------
LogTypeOK ==
    /\ cv_LogBuf \in Seq(1 .. MaxLogged) /\ Len(cv_LogBuf) <= LogBuffSize
    /\ {DeferredLogWriteMode, RotateMode, IsPause, threadAlive, steady} \subseteq BOOLEAN
    /\ ByteCount \in 0 .. MaxLogged /\ logged \in 0 .. MaxLogged
    /\ threadQueue \in Seq(Seq(1 .. MaxLogged))
    /\ closing \in {"no", "rotate", "rotate, end", "end"}
    /\ files \in Seq(Seq(1 .. MaxLogged)) /\ Len(files) \in 1 .. RotateStep + 1

(* The files from the oldest generation on, the chunks on their way and    *)
(* the buffer hold what was logged, in order and without a gap; only whole *)
(* generations go, and a closed log has nothing left to write - unless the *)
(* setting for deferred writing changed while the log was open.            *)
OnDisk == FlattenSeq(Reverse(files))
LogInOrder == steady =>
    LET all == OnDisk \o FlattenSeq(threadQueue) \o cv_LogBuf
    IN  /\ \A i \in 1 .. Len(all) : all[i] = logged - Len(all) + i
        /\ Len(files) <= RotateStep => Len(all) = logged
        /\ closing = "end" /\ ~threadAlive => Len(OnDisk) = Len(all)
=============================================================================
